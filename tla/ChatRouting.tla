----------------------------- MODULE ChatRouting -----------------------------
(***************************************************************************)
(* How a chat message or a friend notification finds its user, across the  *)
(* chat servers: each server's table of sessions (CServer) and map from    *)
(* uid to session (UserMgr), the user's server in Redis (uip_<uid>), the   *)
(* database, the login handler that fills them, the message handlers that  *)
(* read them (LogicSystem, ChatServiceImpl) and the closing of a session   *)
(* that empties them.  Logic threads, the io threads, the accepting thread *)
(* and the gRPC threads of all servers interleave; locks protect single    *)
(* accesses, so each access is a step.                                     *)
(*                                                                         *)
(* A session logs in at most once, as the client does.                     *)
(***************************************************************************)
EXTENDS FiniteSets

CONSTANTS
  Servers,   \* chat servers
  Sessions,  \* client connections
  Uids,      \* users
  Msgs,      \* messages to be routed
  IOFails,   \* database and Redis accesses and RPCs may fail
  MayCrash,  \* chat servers may crash
  Garbage,   \* what uninitialised memory may hold, as a uid
  None       \* no server, no session, no user

ASSUME ChatRoutingAssumption ==
  /\ Garbage \subseteq Uids \cup {None}
  /\ IOFails \in BOOLEAN /\ MayCrash \in BOOLEAN
  /\ None \notin Servers \cup Sessions \cup Uids

VARIABLES
  conn,      \* each CSession: server, accepting thread, io thread, _user_uid;
             \* late is history: its close came before its insertion or its mapping
  sessions,  \* CServer::_sessions of all servers
  uidToSession, \* UserMgr::_uid_to_session of each server
  uip,       \* Redis uip_<uid>
  db,        \* messages and friend records in the database
  login,     \* the LoginHandler run of each session
  deal,      \* the handler run of each message; during and failed are history
  inbox      \* history: what was sent to each session that is open

vars == <<conn, sessions, uidToSession, uip, db, login, deal, inbox>>

\* The steps of LoginHandler, named by what has been done last.
LoginSteps == {"idle", "friends", "bound", "located", "mapped", "loaded", "done", "gone"}

TypeOK ==
  /\ conn \in [Sessions -> [srv: Servers \cup {None}, acc: {"new", "started", "inserted"},
                            io: {"reading", "remove", "erase", "closed"},
                            uid: Uids \cup {None}, rm: Uids \cup {None},
                            late: BOOLEAN]]
  /\ sessions \subseteq Sessions
  /\ uidToSession \in [Servers -> [Uids -> Sessions \cup {None}]]
  /\ uip \in [Uids -> Servers \cup {None}]
  /\ db \subseteq Msgs
  /\ login \in [Sessions -> [at: LoginSteps, uid: Uids \cup {None}, seen: SUBSET Msgs,
                             failed: BOOLEAN]]
  /\ deal \in [Msgs -> [to: Uids \cup {None}, kind: {"text", "friend", "none"},
                        at: {"idle", "lookup", "find", "notify", "done"},
                        srv: Servers \cup {None}, target: Servers \cup {None},
                        sess: Sessions \cup {None}, during: SUBSET Sessions,
                        failed: BOOLEAN]]
  /\ inbox \in [Sessions -> SUBSET Msgs]
  \* a uid is mapped, on a server, to a session of that server that logged in as it
  /\ \A s \in Servers, u \in Uids :
       uidToSession[s][u] # None =>
         conn[uidToSession[s][u]].srv = s /\ login[uidToSession[s][u]].uid = u

Init ==
  /\ conn = [x \in Sessions |-> [srv |-> None, acc |-> "new", io |-> "reading",
                                 uid |-> None, rm |-> None, late |-> FALSE]]
  /\ sessions = {}
  /\ uidToSession = [s \in Servers |-> [u \in Uids |-> None]]
  /\ uip = [u \in Uids |-> None]
  /\ db = {}
  /\ login = [x \in Sessions |-> [at |-> "idle", uid |-> None, seen |-> {}, failed |-> FALSE]]
  /\ deal = [m \in Msgs |-> [to |-> None, kind |-> "none", at |-> "idle", srv |-> None, target |-> None, sess |-> None,
                             during |-> {}, failed |-> FALSE]]
  /\ inbox = [x \in Sessions |-> {}]

\* session->send: what is queued on a closed session never leaves it.
Send(x, ms) ==
  inbox' = IF conn[x].io = "reading" THEN [inbox EXCEPT ![x] = @ \cup ms] ELSE inbox

\* UserMgr::GetSession on server s.
GetSession(s, u) == uidToSession[s][u]

\* The handler returns; its local variables are forgotten.
Finished(d, failed) ==
  [d EXCEPT !.at = "done", !.srv = None, !.target = None, !.sess = None, !.failed = @ \/ failed]

-----------------------------------------------------------------------------
(***************************************************************************)
(* Sessions come and go.                                                   *)
(***************************************************************************)

\* handleAccept: reading starts; _user_uid was never initialised, it holds
\* what the memory held before ...
Accept(x, s) ==
  /\ conn[x].acc = "new"
  /\ \E garbage \in Garbage :
       conn' = [conn EXCEPT ![x] = [srv |-> s, acc |-> "started", io |-> "reading",
                                    uid |-> garbage, rm |-> None, late |-> FALSE]]
  /\ UNCHANGED <<sessions, uidToSession, uip, db, login, deal, inbox>>

\* ... and only then the session is put into the table.
Insert(x) ==
  /\ conn[x].acc = "started" /\ conn[x].srv # None
  /\ conn' = [conn EXCEPT ![x].acc = "inserted"]
  /\ sessions' = sessions \cup {x}
  /\ UNCHANGED <<uidToSession, uip, db, login, deal, inbox>>

\* The io thread closes the session after an error; clearSession looks for
\* it and reads its uid.  A later failed write closes it again, which only
\* matters if it was put into the table after the first close ...
Close(x) ==
  /\ conn[x].acc # "new"
  /\ conn[x].io = "reading" \/ (conn[x].io = "closed" /\ x \in sessions)
  /\ conn' = [conn EXCEPT ![x].io = IF x \in sessions THEN "remove" ELSE "erase",
                          ![x].rm = IF x \in sessions THEN conn[x].uid ELSE None,
                          ![x].late = @ \/ x \notin sessions]
  /\ inbox' = [inbox EXCEPT ![x] = {}]
  /\ UNCHANGED <<sessions, uidToSession, uip, db, login, deal>>

\* Mistakes: the mapping is left; all mappings are removed.
RemoveNothing(x) ==
  /\ conn[x].io = "remove"
  /\ conn' = [conn EXCEPT ![x].io = "erase", ![x].rm = None]
  /\ UNCHANGED <<sessions, uidToSession, uip, db, login, deal, inbox>>

RemoveAll(x) ==
  /\ conn[x].io = "remove"
  /\ conn' = [conn EXCEPT ![x].io = "erase", ![x].rm = None]
  /\ uidToSession' = [uidToSession EXCEPT ![conn[x].srv] = [u \in Uids |-> None]]
  /\ UNCHANGED <<sessions, uip, db, login, deal, inbox>>

\* ... RemoveUserSession erases whatever the uid is mapped to; uip_ stays ...
RemoveUserSession(x) ==
  /\ conn[x].io = "remove"
  /\ conn' = [conn EXCEPT ![x].io = "erase", ![x].rm = None]
  /\ uidToSession' = IF conn[x].rm = None THEN uidToSession
                     ELSE [uidToSession EXCEPT ![conn[x].srv][conn[x].rm] = None]
  /\ UNCHANGED <<sessions, uip, db, login, deal, inbox>>

\* ... and the session leaves the table.
EraseSession(x) ==
  /\ conn[x].io = "erase"
  /\ conn' = [conn EXCEPT ![x].io = "closed"]
  /\ sessions' = sessions \ {x}
  /\ UNCHANGED <<uidToSession, uip, db, login, deal, inbox>>

\* A chat server dies; Redis and the database survive.
Crash(s) ==
  LET dead == {x \in Sessions : conn[x].srv = s} IN
  /\ MayCrash
  /\ conn' = [x \in Sessions |->
       IF x \in dead THEN [conn[x] EXCEPT !.acc = "inserted", !.io = "closed", !.rm = None]
       ELSE conn[x]]
  /\ sessions' = sessions \ dead
  /\ uidToSession' = [uidToSession EXCEPT ![s] = [u \in Uids |-> None]]
  /\ login' = [x \in Sessions |->
       IF x \in dead /\ login[x].at # "done"
         THEN [login[x] EXCEPT !.at = "gone", !.seen = {}] ELSE login[x]]
  /\ deal' = [m \in Msgs |->
       IF deal[m].at \notin {"idle", "done"} /\ s \in {deal[m].srv, deal[m].target}
         THEN Finished(deal[m], TRUE) ELSE deal[m]]
  /\ inbox' = [x \in Sessions |-> IF x \in dead THEN {} ELSE inbox[x]]
  /\ UNCHANGED <<uip, db>>

-----------------------------------------------------------------------------
(***************************************************************************)
(* LoginHandler.  It runs to its end, and may even begin, after the session *)
(* that received the request has closed.                                    *)
(***************************************************************************)
LoginAt(x, from) == login[x].at = from
LoginMoves(x, to) == login' = [login EXCEPT ![x].at = to]

\* The token is right: read the friend data, answer with it.
LoginStart(x, u) ==
  /\ LoginAt(x, "idle") /\ conn[x].acc # "new"
  /\ \E fails \in {FALSE, IOFails} :
       LET found == IF fails THEN {} ELSE {m \in db : deal[m].to = u /\ deal[m].kind = "friend"} IN
       /\ login' = [login EXCEPT ![x] = [at |-> "friends", uid |-> u, seen |-> {},
                                         failed |-> fails]]
       /\ Send(x, found)
  /\ UNCHANGED <<conn, sessions, uidToSession, uip, db, deal>>

SetUserId(x) ==
  /\ LoginAt(x, "friends")
  /\ conn' = [conn EXCEPT ![x].uid = login[x].uid]
  /\ LoginMoves(x, "bound")
  /\ UNCHANGED <<sessions, uidToSession, uip, db, deal, inbox>>

SetUip(x) ==
  /\ LoginAt(x, "bound")
  /\ \/ uip' = [uip EXCEPT ![login[x].uid] = conn[x].srv]
     \/ IOFails /\ UNCHANGED uip
  /\ LoginMoves(x, "located")
  /\ UNCHANGED <<conn, sessions, uidToSession, db, deal, inbox>>

\* A mistake: the session is mapped on the server that Redis names.
SetUserSessionAtUip(x) ==
  /\ LoginAt(x, "located")
  /\ uidToSession' = [uidToSession EXCEPT ![uip[login[x].uid]][login[x].uid] = x]
  /\ LoginMoves(x, "mapped")
  /\ UNCHANGED <<conn, sessions, uip, db, deal, inbox>>

SetUserSession(x) ==
  /\ LoginAt(x, "located")
  /\ uidToSession' = [uidToSession EXCEPT ![conn[x].srv][login[x].uid] = x]
  /\ conn' = [conn EXCEPT ![x].late = @ \/ conn[x].io # "reading"]
  /\ LoginMoves(x, "mapped")
  /\ UNCHANGED <<sessions, uip, db, deal, inbox>>

\* A mistake: only messages whose handler gave up on the user are loaded.
LoadRecentUndelivered(x) ==
  /\ LoginAt(x, "mapped")
  /\ login' = [login EXCEPT ![x].at = "loaded",
                            ![x].seen = {m \in db : deal[m].to = login[x].uid
                                           /\ deal[m].kind = "text" /\ deal[m].at = "done"}]
  /\ UNCHANGED <<conn, sessions, uidToSession, uip, db, deal, inbox>>

\* GetRecentMessages, whose limit of 100 messages is not reached here.
LoadRecent(x) ==
  /\ LoginAt(x, "mapped")
  /\ \E fails \in {FALSE, IOFails} :
       login' = [login EXCEPT ![x].at = "loaded",
                              ![x].failed = @ \/ fails,
                              ![x].seen = IF fails THEN {}
                                          ELSE {m \in db : deal[m].to = login[x].uid /\ deal[m].kind = "text"}]
  /\ UNCHANGED <<conn, sessions, uidToSession, uip, db, deal, inbox>>

SendRecent(x) ==
  /\ LoginAt(x, "loaded")
  /\ Send(x, login[x].seen)
  /\ login' = [login EXCEPT ![x].at = "done", ![x].seen = {}]
  /\ UNCHANGED <<conn, sessions, uidToSession, uip, db, deal>>

-----------------------------------------------------------------------------
(***************************************************************************)
(* DealChatTextMsgHandler, AddFriendApplyHandler, AuthFriendApplyHandler   *)
(* on server s, and the ChatServiceImpl handlers on the user's server.     *)
(***************************************************************************)
DealAt(m, from) == deal[m].at = from

DealEnds(m, failed) == deal' = [deal EXCEPT ![m] = Finished(@, failed)]

\* The logins of u that a friend record misses: they have read the friend
\* data and not yet mapped u.
Missing(u, k) ==
  {x \in Sessions : /\ k = "friend" /\ login[x].uid = u
                    /\ login[x].at \in {"friends", "bound", "located"}}

\* A mistake: a message is stored only for a user without a server.
DealSaveIfOffline(m, s, u, k) ==
  /\ DealAt(m, "idle")
  /\ db' = IF uip[u] # None THEN db ELSE db \cup {m}
  /\ deal' = [deal EXCEPT ![m] =
       [to |-> u, kind |-> k, at |-> "lookup", srv |-> s, target |-> None,
        sess |-> None, during |-> Missing(u, k), failed |-> FALSE]]
  /\ UNCHANGED <<conn, sessions, uidToSession, uip, login, inbox>>

\* First the database.  A text that cannot be saved is given up, without an
\* answer; the results of the friend statements are not looked at.
DealSave(m, s, u, k) ==
  /\ DealAt(m, "idle")
  /\ \E fails \in {FALSE, IOFails} :
       /\ db' = IF fails THEN db ELSE db \cup {m}
       /\ LET d == [to |-> u, kind |-> k, at |-> "lookup", srv |-> s, target |-> None,
                    sess |-> None, during |-> Missing(u, k), failed |-> fails]
          IN  deal' = [deal EXCEPT ![m] =
                 IF fails /\ k = "text" THEN Finished(d, TRUE) ELSE d]
  /\ UNCHANGED <<conn, sessions, uidToSession, uip, login, inbox>>

DealChatTextMsgHandler(m, s, u) == DealSave(m, s, u, "text")
AddFriendApplyHandler(m, s, u) == DealSave(m, s, u, "friend")
AuthFriendApplyHandler(m, s, u) == DealSave(m, s, u, "friend")

\* Then the user's server; without one the sender is told UidInvalid.
DealLookup(m) ==
  /\ DealAt(m, "lookup")
  /\ \/ /\ uip[deal[m].to] # None
        /\ deal' = [deal EXCEPT ![m].at = "find", ![m].target = uip[deal[m].to]]
     \/ /\ uip[deal[m].to] = None
        /\ DealEnds(m, FALSE)
     \/ IOFails /\ DealEnds(m, TRUE)
  /\ UNCHANGED <<conn, sessions, uidToSession, uip, db, login, inbox>>

\* A mistake: the other server looks for the sender of the request.
DealFindSender(m) ==
  /\ DealAt(m, "find")
  /\ \E u \in Uids :
     LET x == GetSession(deal[m].target, u) IN
       /\ deal[m].target = deal[m].srv => u = deal[m].to
       /\ IF x = None THEN DealEnds(m, FALSE)
          ELSE deal' = [deal EXCEPT ![m].at = "notify", ![m].sess = x]
  /\ UNCHANGED <<conn, sessions, uidToSession, uip, db, login, inbox>>

\* NotifyTextChatMsg and its like: a failed RPC is only logged.
RpcFails(m) == IOFails /\ deal[m].target # deal[m].srv /\ DealEnds(m, TRUE)

\* GetSession, here or, by RPC, on the other server.
DealFind(m) ==
  /\ DealAt(m, "find")
  /\ \/ LET x == GetSession(deal[m].target, deal[m].to) IN
          IF x = None THEN DealEnds(m, FALSE)
          ELSE deal' = [deal EXCEPT ![m].at = "notify", ![m].sess = x]
     \/ RpcFails(m)
  /\ UNCHANGED <<conn, sessions, uidToSession, uip, db, login, inbox>>

DealNotify(m) ==
  /\ DealAt(m, "notify")
  /\ Send(deal[m].sess, {m})
  /\ DealEnds(m, FALSE)
  /\ UNCHANGED <<conn, sessions, uidToSession, uip, db, login>>

Next ==
  \/ \E x \in Sessions, s \in Servers : Accept(x, s)
  \/ \E x \in Sessions :
       Insert(x) \/ Close(x) \/ RemoveUserSession(x) \/ EraseSession(x)
  \/ \E s \in Servers : Crash(s)
  \/ \E x \in Sessions, u \in Uids : LoginStart(x, u)
  \/ \E x \in Sessions :
       SetUserId(x) \/ SetUip(x) \/ SetUserSession(x) \/ LoadRecent(x) \/ SendRecent(x)
  \/ \E m \in Msgs, s \in Servers, u \in Uids :
       \/ DealChatTextMsgHandler(m, s, u)
       \/ AddFriendApplyHandler(m, s, u)
       \/ AuthFriendApplyHandler(m, s, u)
  \/ \E m \in Msgs : DealLookup(m) \/ DealFind(m) \/ DealNotify(m)

Spec == Init /\ [][Next]_vars

-----------------------------------------------------------------------------
\* User u can be reached at the open session x, where he has logged in.
Online(x, u) ==
  /\ conn[x].io = "reading" /\ login[x].at = "done" /\ login[x].uid = u
  /\ uip[u] = conn[x].srv
  /\ uidToSession[conn[x].srv][u] = x
  /\ \A y \in Sessions : login[y].uid = u => login[y].at \in {"done", "gone"}

\* No message falls between the two ways it can take: a user who is online
\* has every message for him whose handler has finished, loaded by
\* LoginHandler or sent by the message handlers, whatever the interleaving
\* with logins and closes on all servers.  It rests on saving first and
\* looking up after, and on mapping first and loading after.  Failed accesses
\* are excepted, and so are friend notifications that arrive during the
\* login, because LoginHandler reads the friend data before it maps the user.
NoLostMessage ==
  \A x \in Sessions, m \in Msgs :
    /\ Online(x, deal[m].to) /\ ~login[x].failed
    /\ deal[m].at = "done" /\ ~deal[m].failed
    => m \in inbox[x] \/ x \in deal[m].during

\* No user is sent a message for another one, although sessions are found
\* by uid after any number of logins, closes and crashes.
NoMisdelivery == \A x \in Sessions : \A m \in inbox[x] : login[x].uid = deal[m].to

\* A session that closes leaves nothing behind: once it has been cleared it is
\* in no table and no user is mapped to it.  Excepted are sessions that were
\* closed before the accepting thread inserted them (CServer.cpp:61), and
\* those to which a login that was under way maps its user afterwards
\* (LogicSystem.cpp:199).
ClearedWhenClosed ==
  \A x \in Sessions : conn[x].io = "closed" /\ ~conn[x].late =>
    /\ x \notin sessions
    /\ \A s \in Servers, u \in Uids : uidToSession[s][u] # x

\* A user with one session can be reached there from the end of his login until
\* it closes, whatever the sessions of others do.  With two sessions the close
\* of the older one would remove the mapping of the newer (UserMgr.cpp:34).
StaysReachable ==
  \A x \in Sessions :
    /\ conn[x].io = "reading" /\ login[x].at = "done"
    /\ \A y \in Sessions \ {x} : login[y].uid # login[x].uid
    => uip[login[x].uid] = conn[x].srv /\ uidToSession[conn[x].srv][login[x].uid] = x
=============================================================================
