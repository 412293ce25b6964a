----------------------------- MODULE LoadBalance -----------------------------
(***************************************************************************)
(* How a user is sent to a chat server: StatusServiceImpl::GetChatServer   *)
(* picks the registered server with the least login count, issues a token  *)
(* and stores it in Redis; the chat servers keep the counts, one Redis     *)
(* hash field each, with a read and a write per login                      *)
(* (LogicSystem::LoginHandler) that other logins may come between.         *)
(*                                                                         *)
(* getChatServer holds _servers_mutex while it reads one count after the   *)
(* other, so the set of servers is stable during a selection, the counts   *)
(* are not.                                                                *)
(***************************************************************************)
EXTENDS Naturals, Sequences, FiniteSets, Functions

CONSTANTS
  Servers,     \* chat servers
  Uids,        \* users
  Calls,       \* concurrent GetChatServer calls; also names their tokens
  Logins,      \* login handlers; each counts one login
  RedisFails,  \* a Redis command may fail
  None         \* no entry, no token, no server

ASSUME LoadBalanceAssumption ==
  /\ IsFiniteSet(Servers) /\ IsFiniteSet(Logins) /\ IsFiniteSet(Calls)
  /\ RedisFails \in BOOLEAN
  /\ None \notin Servers \cup Calls

INT_MAX == Cardinality(Logins) + 1   \* larger than any count

VARIABLES
  servers,   \* keys of _servers
  mutex,     \* the call that holds _servers_mutex
  connCount, \* ChatServer::conn_count of each entry
  call,      \* each GetChatServer call: where it is and what it found
  proc,      \* each chat server process
  count,     \* Redis hash logincount, INT_MAX where a field is missing
  login,     \* each login handler: where it is and what it read
  counted,   \* history: the count when the process began to serve, plus its logins
  token,     \* Redis utoken_<uid>
  answered   \* history: the last answer of StatusServiceImpl::Login

statusVars == <<servers, mutex, connCount, call, token, answered>>
chatVars == <<proc, count, login, counted>>
vars == <<statusVars, chatVars>>

\* The orders in which a hash map may iterate over S.
Orders(S) == {p \in [1 .. Cardinality(S) -> S] : IsInjective(p)}

CallStates == [at: {"idle", "select", "insert", "done"}, uid: Uids \cup {None},
               order: UNION {Orders(S) : S \in SUBSET Servers},
               next: 1 .. Cardinality(Servers) + 1, min: Servers \cup {None},
               error: {"none", "Success"}]

TypeOK ==
  /\ servers \subseteq Servers
  /\ mutex \in Calls \cup {None}
  /\ connCount \in [Servers -> 0 .. INT_MAX]
  /\ call \in [Calls -> CallStates]
  /\ proc \in [Servers -> {"down", "registered", "serving", "exiting"}]
  /\ count \in [Servers -> 0 .. INT_MAX]
  /\ login \in [Logins -> [at: {"idle", "read", "done"}, srv: Servers \cup {None},
                           seen: 0 .. Cardinality(Logins)]]
  /\ counted \in [Servers -> 0 .. Cardinality(Logins)]
  /\ token \in [Uids -> Calls \cup {None}]
  /\ answered \in {"none", "Success", "UidInvalid", "TokenInvalid"}
  \* _servers_mutex is held exactly during a selection
  /\ \A c \in Calls : call[c].at = "select" <=> mutex = c

NewCall == [at |-> "idle", uid |-> None, order |-> <<>>, next |-> 1, min |-> None,
            error |-> "none"]

Init ==
  /\ servers = {}
  /\ mutex = None
  /\ connCount = [s \in Servers |-> 0]
  /\ call = [c \in Calls |-> NewCall]
  /\ proc = [s \in Servers |-> "down"]
  /\ count = [s \in Servers |-> INT_MAX]
  /\ login = [h \in Logins |-> [at |-> "idle", srv |-> None, seen |-> 0]]
  /\ counted = [s \in Servers |-> 0]
  /\ token = [u \in Uids |-> None]
  /\ answered = "none"

-----------------------------------------------------------------------------
(***************************************************************************)
(* Chat servers come, count their logins and go.  hset and hdel may fail,  *)
(* nobody looks at their results.                                          *)
(***************************************************************************)

\* main registers the process (again, if it was registered before) ...
Register(s) ==
  /\ mutex = None /\ proc[s] = "down"
  /\ proc' = [proc EXCEPT ![s] = "registered"]
  /\ servers' = servers \cup {s}
  /\ connCount' = [connCount EXCEPT ![s] = 0]
  /\ UNCHANGED <<mutex, call, count, login, counted, token, answered>>

\* ... then sets the count to zero, then accepts clients.
ResetCount(s) ==
  /\ proc[s] = "registered"
  /\ proc' = [proc EXCEPT ![s] = "serving"]
  /\ \/ count' = [count EXCEPT ![s] = 0]
     \/ RedisFails /\ UNCHANGED count
  /\ counted' = [counted EXCEPT ![s] = IF count'[s] = INT_MAX THEN 0 ELSE count'[s]]
  /\ UNCHANGED <<statusVars, login>>

\* A clean exit deletes the count while handlers may still be running.
DeleteCount(s) ==
  /\ proc[s] = "serving"
  /\ proc' = [proc EXCEPT ![s] = "exiting"]
  /\ \/ count' = [count EXCEPT ![s] = INT_MAX]
     \/ RedisFails /\ UNCHANGED count
  /\ UNCHANGED <<statusVars, login, counted>>

\* The process is gone, after an exit or by a crash, its handlers with it.
EndProcess(s) ==
  /\ proc[s] # "down"
  /\ proc' = [proc EXCEPT ![s] = "down"]
  /\ login' = [h \in Logins |->
       IF login[h].srv = s /\ login[h].at = "read"
         THEN [login[h] EXCEPT !.at = "done"] ELSE login[h]]
  /\ UNCHANGED <<statusVars, count, counted>>

\* checkHeartbeat drops an entry; when is the matter of StatusRegistry.
EraseEntry(s) ==
  /\ mutex = None /\ s \in servers
  /\ servers' = servers \ {s}
  /\ UNCHANGED <<mutex, connCount, call, token, answered, chatVars>>

\* onTimer registers again, without a new count.
Reregister(s) ==
  /\ mutex = None /\ proc[s] = "serving" /\ s \notin servers
  /\ servers' = servers \cup {s}
  /\ connCount' = [connCount EXCEPT ![s] = 0]
  /\ UNCHANGED <<mutex, call, token, answered, chatVars>>

\* LoginHandler: hget the count; a missing field or a failure reads as 0 ...
LoginReadsCount(h, s) ==
  /\ login[h].at = "idle"
  /\ proc[s] \in {"serving", "exiting"}
  /\ \E v \in {IF count[s] = INT_MAX THEN 0 ELSE count[s]}
              \cup (IF RedisFails THEN {0} ELSE {}) :
       login' = [login EXCEPT ![h] = [at |-> "read", srv |-> s, seen |-> v]]
  /\ UNCHANGED <<statusVars, proc, count, counted>>

\* A mistake: the increment is applied twice.
LoginCountsTwice(h) ==
  LET s == login[h].srv IN
  /\ login[h].at = "read"
  /\ count' = [count EXCEPT ![s] = login[h].seen + 2]
  /\ counted' = [counted EXCEPT ![s] = @ + 1]
  /\ login' = [login EXCEPT ![h].at = "done"]
  /\ UNCHANGED <<statusVars, proc>>

\* ... and hset it one higher, whatever happened in between.
LoginWritesCount(h) ==
  LET s == login[h].srv IN
  /\ login[h].at = "read"
  /\ \/ count' = [count EXCEPT ![s] = login[h].seen + 1]
     \/ RedisFails /\ UNCHANGED count
  /\ counted' = [counted EXCEPT ![s] = @ + 1]
  /\ login' = [login EXCEPT ![h].at = "done"]
  /\ UNCHANGED <<statusVars, proc>>

-----------------------------------------------------------------------------
(***************************************************************************)
(* StatusServiceImpl::GetChatServer.                                       *)
(***************************************************************************)
CountRead(s) == {count[s]} \cup (IF RedisFails THEN {INT_MAX} ELSE {})

\* No server is registered: getChatServer throws, GetChatServer logs it and
\* returns the untouched reply, whose error field is 0.
NoServer(c, u) ==
  /\ call[c].at = "idle" /\ mutex = None
  /\ servers = {}
  /\ call' = [call EXCEPT ![c] = [NewCall EXCEPT !.at = "done", !.uid = u, !.error = "Success"]]
  /\ UNCHANGED <<servers, mutex, connCount, token, answered, chatVars>>

\* The first entry of the hash map, in whatever order it iterates, is the
\* first candidate; its count is read here and once more in the loop.
SelectBegin(c, u) ==
  /\ call[c].at = "idle" /\ mutex = None
  /\ servers # {}
  /\ \E p \in Orders(servers) : \E v \in CountRead(p[1]) :
       /\ call' = [call EXCEPT ![c] = [NewCall EXCEPT
                     !.at = "select", !.uid = u, !.order = p, !.min = p[1]]]
       /\ connCount' = [connCount EXCEPT ![p[1]] = v]
  /\ mutex' = c
  /\ UNCHANGED <<servers, token, answered, chatVars>>

\* A mistake: the candidate's own entry is compared with the value of the
\* previous selection instead of the one just read.
SelectStale(c) ==
  /\ call[c].at = "select" /\ call[c].next <= Len(call[c].order)
  /\ LET s == call[c].order[call[c].next] IN
     \E v \in CountRead(s) :
       /\ connCount' = [connCount EXCEPT ![s] = v]
       /\ call' = [call EXCEPT ![c].next = @ + 1,
                               ![c].min = IF connCount[s] < connCount[@] THEN s ELSE @]
  /\ UNCHANGED <<servers, mutex, token, answered, chatVars>>

\* One round of the loop.
SelectNext(c) ==
  /\ call[c].at = "select" /\ call[c].next <= Len(call[c].order)
  /\ LET s == call[c].order[call[c].next] IN
     \E v \in CountRead(s) :
       /\ connCount' = [connCount EXCEPT ![s] = v]
       /\ call' = [call EXCEPT ![c].next = @ + 1,
                               ![c].min = IF v < connCount'[@] THEN s ELSE @]
  /\ UNCHANGED <<servers, mutex, token, answered, chatVars>>

\* getChatServer returns; host, port, Success and a fresh token are set.
SelectEnd(c) ==
  /\ call[c].at = "select" /\ call[c].next > Len(call[c].order)
  /\ call' = [call EXCEPT ![c].at = "insert", ![c].error = "Success"]
  /\ mutex' = None
  /\ UNCHANGED <<servers, connCount, token, answered, chatVars>>

\* insertToken: the result of the Redis command is not looked at.
InsertToken(c) ==
  /\ call[c].at = "insert"
  /\ \/ token' = [token EXCEPT ![call[c].uid] = c]
     \/ RedisFails /\ UNCHANGED token
  /\ call' = [call EXCEPT ![c].at = "done"]
  /\ UNCHANGED <<servers, mutex, connCount, answered, chatVars>>

\* StatusServiceImpl::Login: a uid whose token Redis has is refused; without
\* one the empty value is compared with the caller's token, None if empty.
Login(u, t) ==
  /\ t # None => call[t].uid = u /\ call[t].at \in {"insert", "done"} /\ call[t].min # None
  /\ \E found \in {token[u]} \cup (IF RedisFails THEN {None} ELSE {}) :
       answered' = IF found # None THEN "UidInvalid"
                   ELSE IF t # None THEN "TokenInvalid" ELSE "Success"
  /\ UNCHANGED <<servers, mutex, connCount, call, token, chatVars>>

Next ==
  \/ \E s \in Servers :
       \/ Register(s) \/ ResetCount(s) \/ DeleteCount(s) \/ EndProcess(s)
       \/ EraseEntry(s) \/ Reregister(s)
  \/ \E h \in Logins : (\E s \in Servers : LoginReadsCount(h, s)) \/ LoginWritesCount(h)
  \/ \E c \in Calls, u \in Uids : NoServer(c, u) \/ SelectBegin(c, u)
  \/ \E c \in Calls : SelectNext(c) \/ SelectEnd(c) \/ InsertToken(c)
  \/ \E u \in Uids, t \in Calls \cup {None} : Login(u, t)

Spec == Init /\ [][Next]_vars

-----------------------------------------------------------------------------
\* The server handed out has the least count of all registered servers, as
\* the selection read them, although logins change the counts meanwhile and
\* the first entry is read twice (getChatServer).
ChosenIsLeast ==
  \A c \in Calls :
    call[c].at = "select" /\ call[c].next > Len(call[c].order) =>
      /\ call[c].min \in servers
      /\ \A s \in servers : connCount[call[c].min] <= connCount[s]

\* The login count never runs ahead of the logins of the running process,
\* however the reads and writes of concurrent logins, a clean exit, a crash,
\* a restart and failing commands interleave: an idle server cannot look
\* busier than it is for longer than the start of its process.
CountNeverAhead ==
  \A s \in Servers :
    proc[s] \in {"serving", "exiting"} /\ count[s] # INT_MAX => count[s] <= counted[s]
=============================================================================
