------------------------------- MODULE Account -------------------------------
(***************************************************************************)
(* Accounts: the verification codes that VarifyServer stores in Redis and  *)
(* mails, and the gate server's registration and password reset that       *)
(* check them (GateServer/logic_system, MySQLDao), down to the transaction *)
(* reg_user and the constraints of the table user.                         *)
(*                                                                         *)
(* GetVarifyCode awaits Redis and the mail server between its steps.  The  *)
(* gate's handlers run on several threads and hold no lock.  reg_user runs *)
(* under InnoDB's REPEATABLE READ: its SELECTs see the snapshot of the     *)
(* first one, its UPDATE locks the row of user_id until the commit.        *)
(***************************************************************************)
EXTENDS Naturals, FiniteSets

CONSTANTS
  Emails, Names, Passwords,
  Codes,      \* verification codes; four hex digits, so they may repeat
  Requests,   \* GetVarifyCode calls
  Posts,      \* HTTP requests to the gate
  MayExpire,  \* Redis expires codes
  MayFail,    \* Redis, mail or database accesses fail, or VarifyServer dies
  None

ASSUME AccountAssumption ==
  /\ IsFiniteSet(Posts)
  /\ MayExpire \in BOOLEAN /\ MayFail \in BOOLEAN
  /\ None \notin Emails \cup Names \cup Passwords \cup Codes \cup Posts

VARIABLES
  code,     \* Redis code_<email>
  expiring, \* emails whose code has a time to live
  request,  \* each GetVarifyCode call
  mailed,   \* history: codes mailed to an address and not expired since
  post,     \* each gate request
  users,    \* committed rows of the table user
  userId,   \* the row of the table user_id, 0 if there is none
  idLock    \* the transaction that holds its lock

codeVars == <<code, expiring, request, mailed>>
gateVars == <<post, users, userId, idLock>>
vars == <<codeVars, gateVars>>

MaxUid == Cardinality(Posts)   \* uids count from 1 here, from 10001 in MySQL

User == [uid: 1 .. MaxUid, name: Names, email: Emails, pwd: Passwords]
PostStates == {"idle", "coded", "looked", "unseeded", "bumped", "matched", "done", "failed"}

TypeOK ==
  /\ code \in [Emails -> Codes \cup {None}]
  /\ expiring \subseteq Emails
  /\ request \in [Requests -> [at: {"idle", "get", "set", "expire", "mail", "done", "failed"},
                               email: Emails \cup {None}, code: Codes \cup {None}]]
  /\ mailed \in [Emails -> SUBSET Codes]
  /\ post \in [Posts -> [at: PostStates, kind: {"none", "register", "forget"},
                         name: Names \cup {None}, email: Emails \cup {None},
                         pwd: Passwords \cup {None}, uid: 0 .. MaxUid]]
  /\ users \subseteq User
  /\ userId \in 0 .. MaxUid
  /\ idLock \in Posts \cup {None}
  \* the row is locked exactly by the transaction between UPDATE and COMMIT
  /\ \A p \in Posts : post[p].at = "bumped" <=> idLock = p

Init ==
  /\ code = [e \in Emails |-> None]
  /\ expiring = {}
  /\ request = [v \in Requests |-> [at |-> "idle", email |-> None, code |-> None]]
  /\ mailed = [e \in Emails |-> {}]
  /\ post = [p \in Posts |-> [at |-> "idle", kind |-> "none", name |-> None, email |-> None,
                              pwd |-> None, uid |-> 0]]
  /\ users = {}
  /\ userId = 0
  /\ idLock = None

-----------------------------------------------------------------------------
(***************************************************************************)
(* VarifyServer.                                                           *)
(***************************************************************************)
RequestMoves(v, to) == request' = [request EXCEPT ![v].at = to]

\* getVarifycodeCallback and the RPC start a call ...
GetVarifyCode(v, e) ==
  /\ request[v].at = "idle"
  /\ request' = [request EXCEPT ![v] = [at |-> "get", email |-> e, code |-> None]]
  /\ UNCHANGED <<code, expiring, mailed, gateVars>>

\* ... which takes the stored code or, without one, thinks of a new one.
\* A failed GET looks like no code.
GetRedis(v) ==
  LET e == request[v].email IN
  /\ request[v].at = "get"
  /\ \/ /\ code[e] # None
        /\ request' = [request EXCEPT ![v].at = "mail", ![v].code = code[e]]
     \/ /\ code[e] = None \/ MayFail
        /\ \E c \in Codes : request' = [request EXCEPT ![v].at = "set", ![v].code = c]
  /\ UNCHANGED <<code, expiring, mailed, gateVars>>

\* SetRedisExpire: SET, which ends the time to live of an older code ...
SetRedis(v) ==
  LET e == request[v].email IN
  /\ request[v].at = "set"
  /\ code' = [code EXCEPT ![e] = request[v].code]
  /\ expiring' = expiring \ {e}
  /\ RequestMoves(v, "expire")
  /\ UNCHANGED <<mailed, gateVars>>

\* ... then EXPIRE, of a key that may be gone by now.
ExpireRedis(v) ==
  LET e == request[v].email IN
  /\ request[v].at = "expire"
  /\ expiring' = IF code[e] # None THEN expiring \cup {e} ELSE expiring
  /\ RequestMoves(v, "mail")
  /\ UNCHANGED <<code, mailed, gateVars>>

\* A mistake: a code that was in Redis already is not mailed again, and
\* neither is one just made.
SendMailNever(v) ==
  /\ request[v].at = "mail"
  /\ RequestMoves(v, "done")
  /\ UNCHANGED <<code, expiring, mailed, gateVars>>

SendMail(v) ==
  /\ request[v].at = "mail"
  /\ mailed' = [mailed EXCEPT ![request[v].email] = @ \cup {request[v].code}]
  /\ RequestMoves(v, "done")
  /\ UNCHANGED <<code, expiring, gateVars>>

\* A step fails, or the process dies: the call ends where it is.
RequestFails(v) ==
  /\ MayFail
  /\ request[v].at \in {"set", "expire", "mail"}
  /\ RequestMoves(v, "failed")
  /\ UNCHANGED <<code, expiring, mailed, gateVars>>

\* Redis: 600 seconds are over.
Expire(e) ==
  /\ MayExpire /\ e \in expiring
  /\ code' = [code EXCEPT ![e] = None]
  /\ expiring' = expiring \ {e}
  /\ mailed' = [mailed EXCEPT ![e] = {}]
  /\ UNCHANGED <<request, gateVars>>

-----------------------------------------------------------------------------
(***************************************************************************)
(* The gate.                                                               *)
(***************************************************************************)
PostMoves(p, to) == post' = [post EXCEPT ![p].at = to]

\* userRegsterCallback, forgetPasswordCallback: the code in the request must
\* be the one in Redis, now; neither callback removes it.
CheckCode(p, k, n, e, w, c) ==
  /\ post[p].at = "idle"
  /\ post' = [post EXCEPT ![p] = [at |-> IF code[e] = c THEN "coded" ELSE "failed",
                                  kind |-> k, name |-> n, email |-> e, pwd |-> w, uid |-> 0]]
  /\ UNCHANGED <<codeVars, users, userId, idLock>>

\* reg_user: one snapshot answers both EXISTS about the user and the one
\* about the row of user_id, which the first registration inserts ...
Committed == IF idLock = None THEN userId ELSE userId - 1

LookForUser(p) ==
  /\ post[p].at = "coded" /\ post[p].kind = "register"
  /\ PostMoves(p, IF \E u \in users : u.name = post[p].name \/ u.email = post[p].email
                    THEN "failed"
                    ELSE IF Committed = 0 THEN "unseeded" ELSE "looked")
  /\ UNCHANGED <<codeVars, users, userId, idLock>>

\* ... UPDATE waits for the lock of the row and counts from its latest
\* value, SELECT reads the transaction's own update.  A transaction that saw
\* no row and finds one now has inserted a second: an error, rolled back ...
BumpUserId(p) ==
  /\ post[p].at \in {"looked", "unseeded"} /\ idLock = None
  /\ IF post[p].at = "unseeded" /\ userId > 0
       THEN /\ PostMoves(p, "failed")
            /\ UNCHANGED <<userId, idLock>>
       ELSE /\ idLock' = p
            /\ userId' = userId + 1
            /\ post' = [post EXCEPT ![p].at = "bumped", ![p].uid = userId + 1]
  /\ UNCHANGED <<codeVars, users>>

\* A mistake: a duplicate is ignored and called a success.
InsertUserIgnore(p) ==
  LET row == [uid |-> post[p].uid, name |-> post[p].name,
              email |-> post[p].email, pwd |-> post[p].pwd] IN
  /\ post[p].at = "bumped"
  /\ idLock' = None
  /\ users' = IF \E u \in users : u.email = row.email THEN users ELSE users \cup {row}
  /\ PostMoves(p, "done")
  /\ UNCHANGED <<codeVars, userId>>

\* ... INSERT and COMMIT.  email and uid are unique, username is not; a
\* duplicate, or any other error, rolls back.
InsertUser(p) ==
  LET row == [uid |-> post[p].uid, name |-> post[p].name,
              email |-> post[p].email, pwd |-> post[p].pwd] IN
  /\ post[p].at = "bumped"
  /\ idLock' = None
  /\ \/ /\ \A u \in users : u.email # row.email /\ u.uid # row.uid
        /\ users' = users \cup {row}
        /\ PostMoves(p, "done")
        /\ UNCHANGED userId
     \/ /\ MayFail \/ \E u \in users : u.email = row.email \/ u.uid = row.uid
        /\ PostMoves(p, "failed")
        /\ userId' = userId - 1
        /\ UNCHANGED users
  /\ UNCHANGED <<codeVars>>

\* forgetPasswordCallback: does the name belong to the email?
CheckUsernameEmailMatch(p) ==
  /\ post[p].at = "coded" /\ post[p].kind = "forget"
  /\ PostMoves(p, IF \E u \in users : u.name = post[p].name /\ u.email = post[p].email
                    THEN "matched" ELSE "failed")
  /\ UNCHANGED <<codeVars, users, userId, idLock>>

\* UPDATE user SET password WHERE username: every row of that name.
UpdatePassword(p) ==
  /\ post[p].at = "matched"
  /\ users' = {IF u.name = post[p].name THEN [u EXCEPT !.pwd = post[p].pwd] ELSE u : u \in users}
  /\ PostMoves(p, "done")
  /\ UNCHANGED <<codeVars, userId, idLock>>

\* The database gives an error before anything was changed.
PostFails(p) ==
  /\ MayFail
  /\ post[p].at \in {"coded", "looked", "unseeded", "matched"}
  /\ PostMoves(p, "failed")
  /\ UNCHANGED <<codeVars, users, userId, idLock>>

Next ==
  \/ \E v \in Requests, e \in Emails : GetVarifyCode(v, e)
  \/ \E v \in Requests :
       \/ GetRedis(v) \/ SetRedis(v) \/ ExpireRedis(v) \/ SendMail(v) \/ RequestFails(v)
  \/ \E e \in Emails : Expire(e)
  \/ \E p \in Posts, k \in {"register", "forget"}, n \in Names, e \in Emails,
        w \in Passwords, c \in Codes : CheckCode(p, k, n, e, w, c)
  \/ \E p \in Posts :
       \/ LookForUser(p) \/ BumpUserId(p) \/ InsertUser(p)
       \/ CheckUsernameEmailMatch(p) \/ UpdatePassword(p) \/ PostFails(p)

Spec == Init /\ [][Next]_vars

-----------------------------------------------------------------------------
\* A registration that was answered with success exists, under a uid of its
\* own, however registrations interleave and fail: nobody's uid is handed out
\* twice, although a rollback gives the number back.
RegisteredIsUnique ==
  \A p \in Posts : post[p].kind = "register" /\ post[p].at = "done" =>
    /\ \E u \in users : u.uid = post[p].uid /\ u.email = post[p].email /\ u.name = post[p].name
    /\ \A q \in Posts \ {p} :
         post[q].kind = "register" /\ post[q].at = "done" => post[q].uid # post[p].uid

\* When nobody is under way and nothing failed, the code in Redis has been
\* mailed: whoever reads his mail can register, even if calls for the same
\* address overlapped.
StoredCodeIsMailed ==
  (\A v \in Requests : request[v].at \in {"idle", "done"}) =>
    \A e \in Emails : code[e] # None => code[e] \in mailed[e]
=============================================================================
