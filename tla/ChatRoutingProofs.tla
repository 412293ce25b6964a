-------------------------- MODULE ChatRoutingProofs --------------------------
(***************************************************************************)
(* Proofs about the routing of messages, for any sets of servers, sessions, *)
(* users and messages, whether or not servers crash and accesses fail.     *)
(*                                                                         *)
(* Three inductive invariants build on each other.  RoutingInv relates the *)
(* tables to the handlers that fill and read them; DeliveryInv follows the *)
(* two ways a message can take to a session that maps its user; ReachInv   *)
(* is about users with one session.                                        *)
(***************************************************************************)
EXTENDS ChatRouting, TLAPS

\* The records of TypeOK, and its parts.
Conn ==
  [srv: Servers \cup {None}, acc: {"new", "started", "inserted"},
   io: {"reading", "remove", "erase", "closed"},
   uid: Uids \cup {None}, rm: Uids \cup {None}, late: BOOLEAN]
Login == [at: LoginSteps, uid: Uids \cup {None}, seen: SUBSET Msgs, failed: BOOLEAN]
Deal ==
  [to: Uids \cup {None}, kind: {"text", "friend", "none"},
   at: {"idle", "lookup", "find", "notify", "done"},
   srv: Servers \cup {None}, target: Servers \cup {None},
   sess: Sessions \cup {None}, during: SUBSET Sessions, failed: BOOLEAN]

Types ==
  /\ conn \in [Sessions -> Conn]
  /\ sessions \subseteq Sessions
  /\ uidToSession \in [Servers -> [Uids -> Sessions \cup {None}]]
  /\ uip \in [Uids -> Servers \cup {None}]
  /\ db \subseteq Msgs
  /\ login \in [Sessions -> Login]
  /\ deal \in [Msgs -> Deal]
  /\ inbox \in [Sessions -> SUBSET Msgs]

\* The steps of LoginHandler after SetUserId, and after SetUserSession.
AfterBound == {"bound", "located", "mapped", "loaded", "done"}
AfterMapped == {"mapped", "loaded", "done"}

\* A session that has not been accepted has no server and no login.  The
\* accepting thread inserts it once; closed before, it is late.
ConnInv ==
  \A x \in Sessions :
    /\ conn[x].acc = "new" <=> conn[x].srv = None
    /\ conn[x].acc = "new" => login[x].at = "idle"
    /\ x \in sessions => conn[x].acc = "inserted"
    /\ conn[x].acc = "started" /\ conn[x].io # "reading" => conn[x].late

\* The uid of a login, and when it is the session's _user_uid.
LoginInv ==
  \A x \in Sessions :
    /\ login[x].at = "idle" => login[x].uid = None
    /\ login[x].at \notin {"idle", "gone"} => login[x].uid \in Uids
    /\ login[x].at \in AfterBound => conn[x].uid = login[x].uid

\* The local variables of a message's handler: the session it found is one of
\* the user's, now and later.  What was not saved has failed.
DealInv ==
  \A m \in Msgs :
    /\ deal[m].at # "idle" => deal[m].to \in Uids /\ deal[m].kind # "none"
    /\ m \in db => deal[m].at # "idle"
    /\ deal[m].at # "idle" /\ ~deal[m].failed => m \in db
    /\ deal[m].at = "find" => deal[m].target \in Servers
    /\ deal[m].at = "notify" => deal[m].sess \in Sessions /\ login[deal[m].sess].uid = deal[m].to

\* What a session was sent, or its login has loaded, is for its user.
HeldInv ==
  \A x \in Sessions : \A m \in login[x].seen \cup inbox[x] :
    deal[m].at # "idle" /\ deal[m].to = login[x].uid

\* A uid is mapped, on a server, to a session of that server that logged in as
\* it and went through SetUserSession.
MappedInv ==
  \A s \in Servers, u \in Uids, x \in Sessions :
    uidToSession[s][u] = x =>
      conn[x].srv = s /\ login[x].uid = u /\ login[x].at \in AfterMapped

\* How clearSession goes on: it removes the uid that is mapped to the session,
\* if there is one, then the session.
ClearInv ==
  \A x \in Sessions : ~conn[x].late =>
    /\ conn[x].io = "closed" => x \notin sessions
    /\ \A s \in Servers, u \in Uids : uidToSession[s][u] = x =>
         /\ conn[x].io \notin {"erase", "closed"}
         /\ conn[x].io = "remove" => conn[x].rm = u

RoutingInv == Types /\ ConnInv /\ LoginInv /\ DealInv /\ HeldInv /\ MappedInv /\ ClearInv

\* Session x cannot be where its user is reached, and never will be again:
\* it was closed, another session was mapped in its place or is about to be,
\* or a later login has named another server.
Superseded(x) ==
  \/ conn[x].io # "reading"
  \/ uip[login[x].uid] # conn[x].srv
  \/ uidToSession[conn[x].srv][login[x].uid] # x
  \/ \E w \in Sessions \ {x} : /\ login[w].uid = login[x].uid /\ login[w].at = "located"
                               /\ conn[w].srv = conn[x].srv

\* Message m has reached session x, or LoginHandler has it or will load it.
Covered(x, m) ==
  \/ x \in deal[m].during
  \/ m \in inbox[x]
  \/ login[x].at = "mapped" /\ deal[m].kind = "text"
  \/ login[x].at = "loaded" /\ m \in login[x].seen

\* The handler of m is on its way to session x.
UnderWay(x, m) ==
  \/ deal[m].at = "lookup"
  \/ deal[m].at = "find" /\ deal[m].target = conn[x].srv
  \/ deal[m].at = "notify" /\ deal[m].sess = x

\* Nothing failed for the message m, which is for the user of session x.
Concerns(x, m) ==
  /\ deal[m].at # "idle" /\ deal[m].to = login[x].uid
  /\ ~deal[m].failed /\ ~login[x].failed

\* A friend notification misses the login it comes in, and only that.  A session
\* that is mapped has the message, will be sent it, or is superseded.
OnTheWay(x, m) ==
  /\ login[x].at \in {"friends", "bound", "located"} /\ deal[m].kind = "friend" =>
       x \in deal[m].during \/ m \in inbox[x] \/ conn[x].io # "reading"
  /\ login[x].at \in AfterMapped =>
       Covered(x, m) \/ UnderWay(x, m) \/ Superseded(x)

DeliveryInv == \A x \in Sessions, m \in Msgs : Concerns(x, m) => OnTheWay(x, m)

\* The only session of its user.
Only(x) == \A y \in Sessions \ {x} : login[y].uid # login[x].uid

ReachInv ==
  \A x \in Sessions :
    /\ conn[x].uid # None => conn[x].uid = login[x].uid
    /\ conn[x].rm # None => conn[x].rm = login[x].uid
    /\ login[x].at \in {"located"} \cup AfterMapped /\ Only(x) => uip[login[x].uid] = conn[x].srv
    /\ conn[x].io = "reading" /\ login[x].at \in AfterMapped /\ Only(x) =>
         uidToSession[conn[x].srv][login[x].uid] = x

\* No access fails and uninitialised memory never holds a uid: a close would
\* otherwise remove somebody else's mapping, or a login leave uip_ as it was.
Reliable == ~IOFails /\ Garbage \subseteq {None}

\* What every step is shown to do.
Preserved ==
  /\ RoutingInv'
  /\ DeliveryInv => DeliveryInv'
  /\ Reliable /\ ReachInv => ReachInv'

-----------------------------------------------------------------------------
\* The inductive invariant implies TypeOK and the first two properties.
LEMMA RoutingInvImplies ==
  RoutingInv => TypeOK /\ NoMisdelivery /\ ClearedWhenClosed
<1> SUFFICES ASSUME RoutingInv PROVE TypeOK /\ NoMisdelivery /\ ClearedWhenClosed
  OBVIOUS
<1>1. TypeOK
  <2>1. \A s \in Servers, u \in Uids :
          uidToSession[s][u] # None =>
            conn[uidToSession[s][u]].srv = s /\ login[uidToSession[s][u]].uid = u
    BY DEF RoutingInv, Types, MappedInv
  <2> QED
    BY <2>1 DEF RoutingInv, Types, Conn, Login, Deal, TypeOK
<1>2. NoMisdelivery
  BY DEF RoutingInv, HeldInv, NoMisdelivery
<1>3. ClearedWhenClosed
  BY DEF RoutingInv, ClearInv, ClearedWhenClosed
<1> QED
  BY <1>1, <1>2, <1>3

LEMMA InitRouting == Init => RoutingInv
<1> SUFFICES ASSUME Init PROVE RoutingInv
  OBVIOUS
<1> USE ChatRoutingAssumption DEF Init
<1>1. Types
  BY DEF Types, Conn, Login, LoginSteps, Deal
<1>2. ConnInv /\ LoginInv /\ DealInv /\ HeldInv
  BY DEF ConnInv, LoginInv, DealInv, HeldInv, AfterBound
<1>3. MappedInv /\ ClearInv
  BY DEF MappedInv, ClearInv
<1> QED
  BY <1>1, <1>2, <1>3 DEF RoutingInv

\* What Finished leaves of the handler of a message.
LEMMA FinishedDeal ==
  ASSUME NEW d \in Deal, NEW failed \in BOOLEAN
  PROVE  /\ Finished(d, failed) \in Deal
         /\ Finished(d, failed).at = "done"
         /\ Finished(d, failed).to = d.to /\ Finished(d, failed).kind = d.kind
         /\ Finished(d, failed).during = d.during
         /\ Finished(d, failed).failed <=> d.failed \/ failed
  BY DEF Deal, Finished

\* Steps of the accepting and the io threads change neither the logins nor the
\* handlers: the messages stay on their way.
LEMMA DeliveryFrame ==
  ASSUME RoutingInv, DeliveryInv,
         UNCHANGED <<uip, login, deal>>,
         \A y \in Sessions : login[y].at # "idle" =>
           /\ conn'[y].srv = conn[y].srv
           /\ conn[y].io # "reading" => conn'[y].io # "reading"
           /\ inbox'[y] = inbox[y] \/ conn'[y].io # "reading",
         \A s \in Servers, u \in Uids :
           uidToSession'[s][u] = uidToSession[s][u] \/ uidToSession'[s][u] = None
  PROVE  DeliveryInv'
<1> USE ChatRoutingAssumption
<1> SUFFICES ASSUME NEW y \in Sessions, NEW m \in Msgs, Concerns(y, m)'
             PROVE  /\ login[y].at \in {"friends", "bound", "located"} /\ deal[m].kind = "friend" =>
                         y \in deal[m].during \/ m \in inbox'[y] \/ conn'[y].io # "reading"
                    /\ login[y].at \in AfterMapped =>
                         Covered(y, m)' \/ UnderWay(y, m)' \/ Superseded(y)'
  BY DEF DeliveryInv, OnTheWay
<1>1. Concerns(y, m)
  BY DEF Concerns
<1>2. CASE login[y].at \in {"friends", "bound", "located"}
  BY <1>1, <1>2 DEF DeliveryInv, OnTheWay, AfterMapped
<1>3. CASE login[y].at \in AfterMapped
  <2> SUFFICES Covered(y, m)' \/ UnderWay(y, m)' \/ Superseded(y)'
    BY <1>3 DEF AfterMapped
  <2>1. /\ conn'[y].srv = conn[y].srv /\ conn[y].srv \in Servers /\ login[y].uid \in Uids
        /\ conn[y].io # "reading" => conn'[y].io # "reading"
        /\ inbox'[y] = inbox[y] \/ conn'[y].io # "reading"
    BY <1>3 DEF AfterMapped, RoutingInv, Types, Conn, ConnInv, LoginInv
  <2>2. CASE Covered(y, m)
    BY <2>1, <2>2, <1>3 DEF Covered, Superseded
  <2>3. CASE UnderWay(y, m)
    BY <2>1, <2>3 DEF UnderWay
  <2>4. CASE Superseded(y)
    <3>1. CASE \E w \in Sessions \ {y} : /\ login[w].uid = login[y].uid /\ login[w].at = "located"
                                         /\ conn[w].srv = conn[y].srv
      BY <2>1, <3>1 DEF Superseded
    <3>2. CASE conn[y].io # "reading" \/ uip[login[y].uid] # conn[y].srv
      BY <2>1, <3>2 DEF Superseded
    <3>3. CASE uidToSession[conn[y].srv][login[y].uid] # y
      BY <2>1, <3>3 DEF Superseded
    <3> QED
      BY <2>4, <3>1, <3>2, <3>3 DEF Superseded
  <2> QED
    BY <1>1, <1>3, <2>2, <2>3, <2>4 DEF DeliveryInv, OnTheWay
<1> QED
  BY <1>2, <1>3 DEF AfterMapped

\* The same steps keep the users with one session reachable, if they know the
\* uids of their sessions and remove no mapping of an open one.
LEMMA ReachFrame ==
  ASSUME RoutingInv, ReachInv,
         UNCHANGED <<uip, login>>,
         \A y \in Sessions :
           /\ conn'[y].uid # None => conn'[y].uid = login[y].uid
           /\ conn'[y].rm # None => conn'[y].rm = login[y].uid
           /\ login[y].at # "idle" =>
                /\ conn'[y].srv = conn[y].srv
                /\ conn'[y].io = "reading" => conn[y].io = "reading",
         \A y \in Sessions : conn[y].io = "reading" /\ login[y].at \in AfterMapped /\ Only(y) =>
           uidToSession'[conn[y].srv][login[y].uid] = uidToSession[conn[y].srv][login[y].uid]
  PROVE  ReachInv'
  BY DEF ReachInv, Only, AfterMapped

-----------------------------------------------------------------------------
(***************************************************************************)
(* Sessions come and go.                                                   *)
(***************************************************************************)
LEMMA AcceptStep ==
  ASSUME RoutingInv, NEW x \in Sessions, NEW s \in Servers, Accept(x, s)
  PROVE  Preserved
<1> USE ChatRoutingAssumption
<1>1. PICK c \in Conn : /\ conn' = [conn EXCEPT ![x] = c]
                        /\ c.srv = s /\ c.acc = "started" /\ c.io = "reading" /\ c.late = FALSE
                        /\ c.uid \in Garbage /\ c.rm = None
  <2>1. PICK garbage \in Garbage :
          conn' = [conn EXCEPT ![x] = [srv |-> s, acc |-> "started", io |-> "reading",
                                       uid |-> garbage, rm |-> None, late |-> FALSE]]
    BY DEF Accept
  <2>2. [srv |-> s, acc |-> "started", io |-> "reading",
         uid |-> garbage, rm |-> None, late |-> FALSE] \in Conn
    BY DEF Conn
  <2> QED
    BY <2>1, <2>2
<1>2. /\ UNCHANGED <<sessions, uidToSession, uip, db, login, deal, inbox>>
      /\ conn[x].acc = "new" /\ login[x].at = "idle" /\ conn[x].srv = None
  BY DEF Accept, RoutingInv, ConnInv
<1>3. conn'[x] = c /\ \A y \in Sessions \ {x} : conn'[y] = conn[y]
  BY <1>1 DEF RoutingInv, Types
<1>4. Types'
  BY <1>1, <1>2 DEF RoutingInv, Types
<1>5. ConnInv'
  BY <1>1, <1>2, <1>3 DEF RoutingInv, ConnInv
<1>6. LoginInv'
  BY <1>1, <1>2, <1>3 DEF RoutingInv, LoginInv, AfterBound
<1>7. DealInv' /\ HeldInv'
  BY <1>2 DEF RoutingInv, DealInv, HeldInv
<1>8. MappedInv'
  BY <1>1, <1>2, <1>3 DEF RoutingInv, MappedInv
<1>9. ClearInv'
  BY <1>1, <1>2, <1>3 DEF RoutingInv, ClearInv
<1>10. DeliveryInv => DeliveryInv'
  BY <1>1, <1>2, <1>3, DeliveryFrame
<1>11. Reliable /\ ReachInv => ReachInv'
  BY <1>1, <1>2, <1>3, ReachFrame DEF Reliable, ReachInv
<1> QED
  BY <1>4, <1>5, <1>6, <1>7, <1>8, <1>9, <1>10, <1>11 DEF RoutingInv, Preserved

LEMMA InsertStep ==
  ASSUME RoutingInv, NEW x \in Sessions, Insert(x)
  PROVE  Preserved
<1> USE ChatRoutingAssumption
<1> DEFINE c == [conn[x] EXCEPT !.acc = "inserted"]
<1>1. /\ c \in Conn /\ c.acc = "inserted" /\ c.srv = conn[x].srv /\ c.uid = conn[x].uid
      /\ c.io = conn[x].io /\ c.rm = conn[x].rm /\ c.late = conn[x].late
  <2>1. conn[x] \in Conn
    BY DEF RoutingInv, Types
  <2> QED
    BY <2>1 DEF Conn
<1>2. /\ conn' = [conn EXCEPT ![x] = c] /\ sessions' = sessions \cup {x}
      /\ UNCHANGED <<uidToSession, uip, db, login, deal, inbox>>
      /\ conn[x].acc = "started"
  BY DEF Insert
<1> HIDE DEF c
<1>3. conn'[x] = c /\ \A y \in Sessions \ {x} : conn'[y] = conn[y]
  BY <1>2 DEF RoutingInv, Types
<1>4. Types'
  BY <1>1, <1>2 DEF RoutingInv, Types
<1>5. ConnInv'
  BY <1>1, <1>2, <1>3 DEF RoutingInv, ConnInv
<1>6. LoginInv'
  BY <1>1, <1>2, <1>3 DEF RoutingInv, LoginInv
<1>7. DealInv' /\ HeldInv'
  BY <1>2 DEF RoutingInv, DealInv, HeldInv
<1>8. MappedInv'
  BY <1>1, <1>2, <1>3 DEF RoutingInv, MappedInv
<1>9. ClearInv'
  BY <1>1, <1>2, <1>3 DEF RoutingInv, ConnInv, ClearInv
<1>10. DeliveryInv => DeliveryInv'
  BY <1>1, <1>2, <1>3, DeliveryFrame
<1>11. Reliable /\ ReachInv => ReachInv'
  BY <1>1, <1>2, <1>3, ReachFrame DEF Reliable, ReachInv
<1> QED
  BY <1>4, <1>5, <1>6, <1>7, <1>8, <1>9, <1>10, <1>11 DEF RoutingInv, Preserved

LEMMA CloseStep ==
  ASSUME RoutingInv, NEW x \in Sessions, Close(x)
  PROVE  Preserved
<1> USE ChatRoutingAssumption
<1> DEFINE c == [conn[x] EXCEPT !.io = IF x \in sessions THEN "remove" ELSE "erase",
                                !.rm = IF x \in sessions THEN conn[x].uid ELSE None,
                                !.late = @ \/ x \notin sessions]
<1>1. /\ c \in Conn /\ c.acc = conn[x].acc /\ c.srv = conn[x].srv /\ c.uid = conn[x].uid
      /\ c.io = IF x \in sessions THEN "remove" ELSE "erase"
      /\ c.rm = IF x \in sessions THEN conn[x].uid ELSE None
      /\ x \in sessions => c.late = conn[x].late
      /\ x \notin sessions => c.late
  <2>1. conn[x] \in Conn
    BY DEF RoutingInv, Types
  <2> QED
    BY <2>1 DEF Conn
<1>2. /\ conn' = [conn EXCEPT ![x] = c] /\ inbox' = [inbox EXCEPT ![x] = {}]
      /\ UNCHANGED <<sessions, uidToSession, uip, db, login, deal>>
      /\ conn[x].acc # "new"
  BY DEF Close
<1> HIDE DEF c
<1>3. conn'[x] = c /\ \A y \in Sessions \ {x} : conn'[y] = conn[y]
  BY <1>2 DEF RoutingInv, Types
<1>4. Types'
  BY <1>1, <1>2 DEF RoutingInv, Types
<1>5. ConnInv'
  BY <1>1, <1>2, <1>3 DEF RoutingInv, ConnInv
<1>6. LoginInv'
  BY <1>1, <1>2, <1>3 DEF RoutingInv, LoginInv
<1>7. DealInv' /\ HeldInv'
  BY <1>2 DEF RoutingInv, Types, DealInv, HeldInv
<1>8. MappedInv'
  BY <1>1, <1>2, <1>3 DEF RoutingInv, MappedInv
<1>9. ClearInv'
  BY <1>1, <1>2, <1>3 DEF RoutingInv, ClearInv, LoginInv, MappedInv, AfterBound, AfterMapped
<1>10. DeliveryInv => DeliveryInv'
  BY <1>1, <1>2, <1>3, DeliveryFrame
<1>11. Reliable /\ ReachInv => ReachInv'
  BY <1>1, <1>2, <1>3, ReachFrame DEF Reliable, ReachInv
<1> QED
  BY <1>4, <1>5, <1>6, <1>7, <1>8, <1>9, <1>10, <1>11 DEF RoutingInv, Preserved

LEMMA RemoveUserSessionStep ==
  ASSUME RoutingInv, NEW x \in Sessions, RemoveUserSession(x)
  PROVE  Preserved
<1> USE ChatRoutingAssumption
<1> DEFINE c == [conn[x] EXCEPT !.io = "erase", !.rm = None]
<1>1. /\ c \in Conn /\ c.acc = conn[x].acc /\ c.srv = conn[x].srv /\ c.uid = conn[x].uid
      /\ c.io = "erase" /\ c.rm = None /\ c.late = conn[x].late
  <2>1. conn[x] \in Conn
    BY DEF RoutingInv, Types
  <2> QED
    BY <2>1 DEF Conn
<1>2. /\ conn' = [conn EXCEPT ![x] = c]
      /\ UNCHANGED <<sessions, uip, db, login, deal, inbox>>
      /\ conn[x].io = "remove"
  BY DEF RemoveUserSession
<1> HIDE DEF c
<1>3. conn'[x] = c /\ \A y \in Sessions \ {x} : conn'[y] = conn[y]
  BY <1>2 DEF RoutingInv, Types
<1>4. /\ uidToSession' \in [Servers -> [Uids -> Sessions \cup {None}]]
      /\ \A s \in Servers, u \in Uids :
           uidToSession'[s][u] = IF s = conn[x].srv /\ u = conn[x].rm THEN None ELSE uidToSession[s][u]
  BY DEF RemoveUserSession, RoutingInv, Types
<1>5. Types'
  BY <1>1, <1>2, <1>4 DEF RoutingInv, Types
<1>6. ConnInv'
  BY <1>1, <1>2, <1>3 DEF RoutingInv, ConnInv
<1>7. LoginInv'
  BY <1>1, <1>2, <1>3 DEF RoutingInv, LoginInv
<1>8. DealInv' /\ HeldInv'
  BY <1>2 DEF RoutingInv, DealInv, HeldInv
<1>9. MappedInv'
  BY <1>1, <1>2, <1>3, <1>4 DEF RoutingInv, MappedInv
<1>10. ClearInv'
  BY <1>1, <1>2, <1>3, <1>4 DEF RoutingInv, ClearInv, MappedInv
<1>11. DeliveryInv => DeliveryInv'
  BY <1>1, <1>2, <1>3, <1>4, DeliveryFrame
<1>12. Reliable /\ ReachInv => ReachInv'
  <2> SUFFICES ASSUME ReachInv PROVE ReachInv'
    OBVIOUS
  <2>1. ASSUME NEW y \in Sessions, conn[y].io = "reading", login[y].at \in AfterMapped, Only(y)
        PROVE  uidToSession'[conn[y].srv][login[y].uid] = uidToSession[conn[y].srv][login[y].uid]
    <3>1. y # x /\ login[y].uid # login[x].uid
      BY <2>1, <1>2 DEF Only
    <3>2. conn[x].rm # login[y].uid
      BY <2>1, <3>1 DEF ReachInv, RoutingInv, LoginInv, AfterMapped
    <3>3. conn[y].srv \in Servers /\ login[y].uid \in Uids
      BY <2>1 DEF RoutingInv, Types, Conn, ConnInv, LoginInv, AfterMapped
    <3> QED
      BY <3>2, <3>3, <1>4
  <2> QED
    BY <2>1, <1>1, <1>2, <1>3, ReachFrame DEF ReachInv
<1> QED
  BY <1>5, <1>6, <1>7, <1>8, <1>9, <1>10, <1>11, <1>12 DEF RoutingInv, Preserved

LEMMA EraseSessionStep ==
  ASSUME RoutingInv, NEW x \in Sessions, EraseSession(x)
  PROVE  Preserved
<1> USE ChatRoutingAssumption
<1> DEFINE c == [conn[x] EXCEPT !.io = "closed"]
<1>1. /\ c \in Conn /\ c.acc = conn[x].acc /\ c.srv = conn[x].srv /\ c.uid = conn[x].uid
      /\ c.io = "closed" /\ c.rm = conn[x].rm /\ c.late = conn[x].late
  <2>1. conn[x] \in Conn
    BY DEF RoutingInv, Types
  <2> QED
    BY <2>1 DEF Conn
<1>2. /\ conn' = [conn EXCEPT ![x] = c] /\ sessions' = sessions \ {x}
      /\ UNCHANGED <<uidToSession, uip, db, login, deal, inbox>>
      /\ conn[x].io = "erase"
  BY DEF EraseSession
<1> HIDE DEF c
<1>3. conn'[x] = c /\ \A y \in Sessions \ {x} : conn'[y] = conn[y]
  BY <1>2 DEF RoutingInv, Types
<1>4. Types'
  BY <1>1, <1>2 DEF RoutingInv, Types
<1>5. ConnInv'
  BY <1>1, <1>2, <1>3 DEF RoutingInv, ConnInv
<1>6. LoginInv'
  BY <1>1, <1>2, <1>3 DEF RoutingInv, LoginInv
<1>7. DealInv' /\ HeldInv'
  BY <1>2 DEF RoutingInv, DealInv, HeldInv
<1>8. MappedInv'
  BY <1>1, <1>2, <1>3 DEF RoutingInv, MappedInv
<1>9. ClearInv'
  BY <1>1, <1>2, <1>3 DEF RoutingInv, ClearInv
<1>10. DeliveryInv => DeliveryInv'
  BY <1>1, <1>2, <1>3, DeliveryFrame
<1>11. Reliable /\ ReachInv => ReachInv'
  BY <1>1, <1>2, <1>3, ReachFrame DEF Reliable, ReachInv
<1> QED
  BY <1>4, <1>5, <1>6, <1>7, <1>8, <1>9, <1>10, <1>11 DEF RoutingInv, Preserved

LEMMA CrashStep ==
  ASSUME RoutingInv, NEW s \in Servers, Crash(s)
  PROVE  Preserved
<1> USE ChatRoutingAssumption
<1>1. ASSUME NEW x \in Sessions
      PROVE  /\ conn'[x] \in Conn
             /\ conn[x].srv # s => conn'[x] = conn[x]
             /\ conn'[x].srv = conn[x].srv /\ conn'[x].uid = conn[x].uid /\ conn'[x].late = conn[x].late
             /\ conn[x].srv = s =>
                  conn'[x].acc = "inserted" /\ conn'[x].io = "closed" /\ conn'[x].rm = None
  <2>1. conn[x] \in Conn
    BY DEF RoutingInv, Types
  <2>2. CASE conn[x].srv = s
    <3> DEFINE c == [conn[x] EXCEPT !.acc = "inserted", !.io = "closed", !.rm = None]
    <3>1. conn'[x] = c
      BY <2>2 DEF Crash
    <3>2. /\ c \in Conn /\ c.srv = conn[x].srv /\ c.uid = conn[x].uid /\ c.late = conn[x].late
          /\ c.acc = "inserted" /\ c.io = "closed" /\ c.rm = None
      BY <2>1 DEF Conn
    <3> QED
      BY <2>2, <3>1, <3>2
  <2>3. CASE conn[x].srv # s
    <3>1. conn'[x] = conn[x]
      BY <2>3 DEF Crash
    <3> QED
      BY <2>1, <2>3, <3>1
  <2> QED
    BY <2>2, <2>3
<1>2. ASSUME NEW x \in Sessions
      PROVE  /\ login'[x] \in Login
             /\ login'[x] = login[x] \/
                  /\ conn[x].srv = s /\ login'[x].at = "gone" /\ login'[x].seen = {}
                  /\ login'[x].uid = login[x].uid
             /\ conn[x].srv = s => login'[x].at \in {"done", "gone"}
  <2>1. login[x] \in Login
    BY DEF RoutingInv, Types
  <2>2. CASE conn[x].srv = s /\ login[x].at # "done"
    <3> DEFINE l == [login[x] EXCEPT !.at = "gone", !.seen = {}]
    <3>1. login'[x] = l
      BY <2>2 DEF Crash
    <3>2. l \in Login /\ l.at = "gone" /\ l.seen = {} /\ l.uid = login[x].uid
      BY <2>1 DEF Login, LoginSteps
    <3> QED
      BY <2>2, <3>1, <3>2
  <2>3. CASE ~(conn[x].srv = s /\ login[x].at # "done")
    <3>1. login'[x] = login[x]
      BY <2>3 DEF Crash
    <3> QED
      BY <2>1, <2>3, <3>1
  <2> QED
    BY <2>2, <2>3
<1>3. ASSUME NEW m \in Msgs
      PROVE  \/ deal'[m] = deal[m]
             \/ /\ deal'[m] \in Deal /\ deal[m].at # "idle" /\ deal'[m].at = "done"
                /\ deal'[m].to = deal[m].to /\ deal'[m].kind = deal[m].kind /\ deal'[m].failed
  <2>1. deal[m] \in Deal
    BY DEF RoutingInv, Types
  <2>2. CASE deal[m].at \notin {"idle", "done"} /\ s \in {deal[m].srv, deal[m].target}
    <3>1. deal'[m] = Finished(deal[m], TRUE)
      BY <2>2 DEF Crash
    <3>2. /\ Finished(deal[m], TRUE) \in Deal /\ Finished(deal[m], TRUE).at = "done"
          /\ Finished(deal[m], TRUE).to = deal[m].to /\ Finished(deal[m], TRUE).kind = deal[m].kind
          /\ Finished(deal[m], TRUE).failed
      BY <2>1 DEF Finished, Deal
    <3> QED
      BY <2>2, <3>1, <3>2
  <2>3. CASE ~(deal[m].at \notin {"idle", "done"} /\ s \in {deal[m].srv, deal[m].target})
    BY <2>3 DEF Crash
  <2> QED
    BY <2>2, <2>3
<1>4. /\ uidToSession' \in [Servers -> [Uids -> Sessions \cup {None}]]
      /\ \A t \in Servers, u \in Uids :
           uidToSession'[t][u] = IF t = s THEN None ELSE uidToSession[t][u]
  BY DEF Crash, RoutingInv, Types
<1>5. /\ sessions' = sessions \ {x \in Sessions : conn[x].srv = s}
      /\ \A x \in Sessions : inbox'[x] = IF conn[x].srv = s THEN {} ELSE inbox[x]
      /\ UNCHANGED <<uip, db>>
  BY DEF Crash
<1>6. Types'
  <2>1. conn' \in [Sessions -> Conn]
    BY <1>1 DEF Crash
  <2>2. login' \in [Sessions -> Login]
    BY <1>2 DEF Crash
  <2>3. deal' \in [Msgs -> Deal]
    <3>1. \A m \in Msgs : deal'[m] \in Deal
      BY <1>3 DEF RoutingInv, Types
    <3> QED
      BY <3>1 DEF Crash
  <2>4. inbox' \in [Sessions -> SUBSET Msgs]
    BY DEF Crash, RoutingInv, Types
  <2> QED
    BY <2>1, <2>2, <2>3, <2>4, <1>4, <1>5 DEF RoutingInv, Types
<1>7. ConnInv'
  BY <1>1, <1>2, <1>5 DEF RoutingInv, ConnInv
<1>8. LoginInv'
  BY <1>1, <1>2 DEF RoutingInv, LoginInv, AfterBound
<1>9. DealInv'
  BY <1>2, <1>3, <1>5 DEF RoutingInv, DealInv
<1>10. HeldInv'
  <2> SUFFICES ASSUME NEW x \in Sessions, NEW m \in (login[x].seen \cup inbox[x])'
               PROVE  deal'[m].at # "idle" /\ deal'[m].to = login'[x].uid
    BY DEF HeldInv
  <2>1. login'[x].uid = login[x].uid /\ m \in login[x].seen \cup inbox[x]
    BY <1>2, <1>5
  <2>2. m \in Msgs
    BY <2>1 DEF RoutingInv, Types, Login
  <2> QED
    BY <1>3, <2>1, <2>2 DEF RoutingInv, HeldInv
<1>11. MappedInv'
  BY <1>1, <1>2, <1>4 DEF RoutingInv, MappedInv
<1>12. ClearInv'
  BY <1>1, <1>4, <1>5 DEF RoutingInv, ClearInv, MappedInv
<1>13. DeliveryInv => DeliveryInv'
  <2> SUFFICES ASSUME DeliveryInv, NEW y \in Sessions, NEW m \in Msgs, Concerns(y, m)'
               PROVE  /\ login'[y].at \in {"friends", "bound", "located"} /\ deal'[m].kind = "friend" =>
                           y \in deal'[m].during \/ m \in inbox'[y] \/ conn'[y].io # "reading"
                      /\ login'[y].at \in AfterMapped =>
                           Covered(y, m)' \/ UnderWay(y, m)' \/ Superseded(y)'
    BY DEF DeliveryInv, OnTheWay
  <2>1. CASE conn[y].srv = s
    BY <2>1, <1>1 DEF Superseded
  <2>2. CASE conn[y].srv # s
    <3>1. conn'[y] = conn[y] /\ login'[y] = login[y] /\ deal'[m] = deal[m] /\ inbox'[y] = inbox[y]
      BY <2>2, <1>1, <1>2, <1>3, <1>5 DEF Concerns
    <3>2. Concerns(y, m)
      BY <3>1 DEF Concerns
    <3>3. CASE login[y].at \in {"friends", "bound", "located"}
      BY <3>1, <3>2, <3>3 DEF DeliveryInv, OnTheWay, AfterMapped
    <3>4. CASE login[y].at \in AfterMapped
      <4> SUFFICES Covered(y, m)' \/ UnderWay(y, m)' \/ Superseded(y)'
        BY <3>1, <3>4 DEF AfterMapped
      <4>1. CASE Covered(y, m) \/ UnderWay(y, m)
        BY <4>1, <3>1 DEF Covered, UnderWay
      <4>2. CASE Superseded(y)
        <5>1. CASE \E w \in Sessions \ {y} : /\ login[w].uid = login[y].uid /\ login[w].at = "located"
                                             /\ conn[w].srv = conn[y].srv
          <6>1. PICK w \in Sessions \ {y} : /\ login[w].uid = login[y].uid /\ login[w].at = "located"
                                            /\ conn[w].srv = conn[y].srv
            BY <5>1
          <6>2. conn'[w] = conn[w] /\ login'[w] = login[w]
            BY <6>1, <2>2, <1>1, <1>2
          <6> QED
            BY <6>1, <6>2, <3>1 DEF Superseded
        <5>2. CASE conn[y].io # "reading" \/ uip[login[y].uid] # conn[y].srv
          BY <5>2, <3>1, <1>5 DEF Superseded
        <5>3. CASE uidToSession[conn[y].srv][login[y].uid] # y
          <6>1. conn[y].srv \in Servers /\ login[y].uid \in Uids
            BY <3>4 DEF AfterMapped, RoutingInv, Types, Conn, ConnInv, LoginInv
          <6> QED
            BY <6>1, <5>3, <3>1, <2>2, <1>4 DEF Superseded
        <5> QED
          BY <4>2, <5>1, <5>2, <5>3 DEF Superseded
      <4> QED
        BY <3>2, <3>4, <4>1, <4>2 DEF DeliveryInv, OnTheWay
    <3> QED
      BY <3>1, <3>3, <3>4
  <2> QED
    BY <2>1, <2>2
<1>14. ReachInv => ReachInv'
  <2> SUFFICES ASSUME ReachInv, NEW y \in Sessions
               PROVE  /\ conn'[y].uid # None => conn'[y].uid = login'[y].uid
                      /\ conn'[y].rm # None => conn'[y].rm = login'[y].uid
                      /\ login'[y].at \in {"located"} \cup AfterMapped /\ Only(y)' =>
                           uip'[login'[y].uid] = conn'[y].srv
                      /\ conn'[y].io = "reading" /\ login'[y].at \in AfterMapped /\ Only(y)' =>
                           uidToSession'[conn'[y].srv][login'[y].uid] = y
    BY DEF ReachInv
  <2>1. Only(y)' => Only(y)
    BY <1>2 DEF Only
  <2>2. CASE conn[y].srv = s
    BY <2>1, <2>2, <1>1, <1>2, <1>5 DEF ReachInv, AfterMapped
  <2>3. CASE conn[y].srv # s
    <3>1. conn'[y] = conn[y] /\ login'[y] = login[y]
      BY <2>3, <1>1, <1>2
    <3>2. login[y].at \in AfterMapped => conn[y].srv \in Servers /\ login[y].uid \in Uids
      BY DEF AfterMapped, RoutingInv, Types, Conn, ConnInv, LoginInv
    <3> QED
      BY <2>1, <2>3, <3>1, <3>2, <1>4, <1>5 DEF ReachInv
  <2> QED
    BY <2>2, <2>3
<1> QED
  BY <1>6, <1>7, <1>8, <1>9, <1>10, <1>11, <1>12, <1>13, <1>14 DEF RoutingInv, Preserved

-----------------------------------------------------------------------------
(***************************************************************************)
(* LoginHandler.                                                           *)
(***************************************************************************)

\* A session stays superseded while the tables and the logins that are about to
\* map their user do not change.
LEMMA StaysSuperseded ==
  ASSUME NEW y \in Sessions, UNCHANGED <<uip, uidToSession>>,
         conn'[y].srv = conn[y].srv, conn'[y].io = conn[y].io, login'[y].uid = login[y].uid,
         \A w \in Sessions : login[w].at = "located" =>
           login'[w].at = "located" /\ login'[w].uid = login[w].uid /\ conn'[w].srv = conn[w].srv
  PROVE  Superseded(y) => Superseded(y)'
  BY DEF Superseded

\* What a login does for one session changes nothing for the others that are
\* not superseded by it.
LEMMA OtherSession ==
  ASSUME DeliveryInv, NEW y \in Sessions, NEW m \in Msgs, UNCHANGED deal,
         conn'[y].srv = conn[y].srv, conn'[y].io = conn[y].io,
         login'[y] = login[y], inbox'[y] = inbox[y],
         login[y].at \in AfterMapped /\ Superseded(y) => Superseded(y)'
  PROVE  Concerns(y, m)' => OnTheWay(y, m)'
<1> SUFFICES ASSUME Concerns(y, m) PROVE OnTheWay(y, m)'
  BY DEF Concerns
<1>1. OnTheWay(y, m)
  BY DEF DeliveryInv
<1>2. Covered(y, m) => Covered(y, m)'
  BY DEF Covered
<1>3. UnderWay(y, m) => UnderWay(y, m)'
  BY DEF UnderWay
<1> QED
  BY <1>1, <1>2, <1>3 DEF OnTheWay

LEMMA LoginStartStep ==
  ASSUME RoutingInv, NEW x \in Sessions, NEW u \in Uids, LoginStart(x, u)
  PROVE  Preserved
<1> USE ChatRoutingAssumption
<1>1. PICK fails \in {FALSE, IOFails} :
        LET found == IF fails THEN {} ELSE {m \in db : deal[m].to = u /\ deal[m].kind = "friend"} IN
        /\ login' = [login EXCEPT ![x] = [at |-> "friends", uid |-> u, seen |-> {}, failed |-> fails]]
        /\ Send(x, found)
  BY DEF LoginStart
<1> DEFINE l == [at |-> "friends", uid |-> u, seen |-> {}, failed |-> fails]
           found == IF fails THEN {} ELSE {m \in db : deal[m].to = u /\ deal[m].kind = "friend"}
<1>2. /\ login[x].at = "idle" /\ login[x].uid = None /\ conn[x].acc # "new"
      /\ UNCHANGED <<conn, sessions, uidToSession, uip, db, deal>>
  BY DEF LoginStart, LoginAt, RoutingInv, LoginInv
<1>3. /\ l \in Login /\ login'[x] = l /\ login' \in [Sessions -> Login]
      /\ \A y \in Sessions \ {x} : login'[y] = login[y]
  BY <1>1 DEF RoutingInv, Types, Login, LoginSteps
<1>4. l.at = "friends" /\ l.uid = u /\ l.seen = {} /\ l.failed = fails
  OBVIOUS
<1>5. inbox[x] = {}
  BY <1>2 DEF RoutingInv, HeldInv, DealInv, Types
<1>6. /\ inbox' \in [Sessions -> SUBSET Msgs] /\ found \subseteq Msgs
      /\ inbox'[x] = IF conn[x].io = "reading" THEN found ELSE {}
      /\ \A y \in Sessions \ {x} : inbox'[y] = inbox[y]
  BY <1>1, <1>5 DEF Send, RoutingInv, Types
<1>7. \A m \in found : m \in db /\ deal[m].to = u /\ deal[m].kind = "friend"
  OBVIOUS
<1>8. ~fails => \A m \in db : deal[m].to = u /\ deal[m].kind = "friend" => m \in found
  OBVIOUS
<1> HIDE DEF l, found
<1>9. Types'
  BY <1>2, <1>3, <1>6 DEF RoutingInv, Types
<1>10. ConnInv'
  BY <1>2, <1>3, <1>4 DEF RoutingInv, ConnInv
<1>11. LoginInv'
  BY <1>2, <1>3, <1>4 DEF RoutingInv, LoginInv, AfterBound
<1>12. DealInv'
  BY <1>2, <1>3 DEF RoutingInv, DealInv
<1>13. HeldInv'
  BY <1>2, <1>3, <1>4, <1>6, <1>7 DEF RoutingInv, DealInv, HeldInv, Types
<1>14. MappedInv'
  BY <1>2, <1>3, <1>4 DEF RoutingInv, MappedInv, AfterMapped
<1>15. ClearInv'
  BY <1>2 DEF RoutingInv, ClearInv
<1>16. DeliveryInv => DeliveryInv'
  <2> SUFFICES ASSUME DeliveryInv, NEW y \in Sessions, NEW m \in Msgs
               PROVE  Concerns(y, m)' => OnTheWay(y, m)'
    BY DEF DeliveryInv
  <2>1. CASE y = x
    <3>1. Concerns(x, m)' => m \in db /\ deal[m].to = u /\ ~fails
      BY <1>2, <1>3, <1>4 DEF Concerns, RoutingInv, DealInv
    <3> QED
      BY <2>1, <3>1, <1>2, <1>3, <1>4, <1>6, <1>8 DEF OnTheWay, AfterMapped
  <2>2. CASE y # x
    <3>1. Superseded(y) => Superseded(y)'
      BY <2>2, <1>2, <1>3, StaysSuperseded
    <3> QED
      BY <2>2, <3>1, <1>2, <1>3, <1>6, OtherSession
  <2> QED
    BY <2>1, <2>2
<1>17. ReachInv => ReachInv'
  BY <1>2, <1>3, <1>4 DEF ReachInv, Only, AfterMapped, RoutingInv, LoginInv
<1> QED
  BY <1>9, <1>10, <1>11, <1>12, <1>13, <1>14, <1>15, <1>16, <1>17 DEF RoutingInv, Preserved

LEMMA SetUserIdStep ==
  ASSUME RoutingInv, NEW x \in Sessions, SetUserId(x)
  PROVE  Preserved
<1> USE ChatRoutingAssumption
<1> DEFINE l == [login[x] EXCEPT !.at = "bound"]
           c == [conn[x] EXCEPT !.uid = login[x].uid]
<1>1. /\ l \in Login /\ l.at = "bound" /\ l.uid = login[x].uid /\ l.seen = login[x].seen
      /\ l.failed = login[x].failed
  <2>1. login[x] \in Login
    BY DEF RoutingInv, Types
  <2> QED
    BY <2>1 DEF Login, LoginSteps
<1>2. /\ c \in Conn /\ c.uid = login[x].uid /\ c.srv = conn[x].srv /\ c.acc = conn[x].acc
      /\ c.io = conn[x].io /\ c.rm = conn[x].rm /\ c.late = conn[x].late
  <2>1. conn[x] \in Conn /\ login[x].uid \in Uids \cup {None}
    BY DEF RoutingInv, Types, Login
  <2> QED
    BY <2>1 DEF Conn
<1>3. /\ login[x].at = "friends" /\ login' = [login EXCEPT ![x] = l] /\ conn' = [conn EXCEPT ![x] = c]
      /\ UNCHANGED <<sessions, uidToSession, uip, db, deal, inbox>>
  BY DEF SetUserId, LoginAt, LoginMoves
<1> HIDE DEF l, c
<1>4. /\ login'[x] = l /\ \A y \in Sessions \ {x} : login'[y] = login[y]
      /\ conn'[x] = c /\ \A y \in Sessions \ {x} : conn'[y] = conn[y]
  BY <1>3 DEF RoutingInv, Types
<1>5. Types'
  BY <1>1, <1>2, <1>3 DEF RoutingInv, Types
<1>6. ConnInv'
  BY <1>1, <1>2, <1>3, <1>4 DEF RoutingInv, ConnInv
<1>7. LoginInv'
  BY <1>1, <1>2, <1>3, <1>4 DEF RoutingInv, LoginInv
<1>8. DealInv'
  BY <1>1, <1>3, <1>4 DEF RoutingInv, DealInv
<1>9. HeldInv'
  BY <1>1, <1>3, <1>4 DEF RoutingInv, HeldInv
<1>10. MappedInv'
  BY <1>2, <1>3, <1>4 DEF RoutingInv, MappedInv, AfterMapped
<1>11. ClearInv'
  BY <1>2, <1>3, <1>4 DEF RoutingInv, ClearInv
<1>12. DeliveryInv => DeliveryInv'
  <2> SUFFICES ASSUME DeliveryInv, NEW y \in Sessions, NEW m \in Msgs
               PROVE  Concerns(y, m)' => OnTheWay(y, m)'
    BY DEF DeliveryInv
  <2>1. CASE y = x
    BY <2>1, <1>1, <1>2, <1>3, <1>4 DEF DeliveryInv, OnTheWay, Concerns, AfterMapped
  <2>2. CASE y # x
    <3>1. Superseded(y) => Superseded(y)'
      BY <2>2, <1>2, <1>3, <1>4, StaysSuperseded
    <3> QED
      BY <2>2, <3>1, <1>3, <1>4, OtherSession
  <2> QED
    BY <2>1, <2>2
<1>13. ReachInv => ReachInv'
  BY <1>1, <1>2, <1>3, <1>4 DEF ReachInv, Only, AfterMapped
<1> QED
  BY <1>5, <1>6, <1>7, <1>8, <1>9, <1>10, <1>11, <1>12, <1>13 DEF RoutingInv, Preserved

LEMMA SetUipStep ==
  ASSUME RoutingInv, NEW x \in Sessions, SetUip(x)
  PROVE  Preserved
<1> USE ChatRoutingAssumption
<1> DEFINE l == [login[x] EXCEPT !.at = "located"]
<1>1. /\ l \in Login /\ l.at = "located" /\ l.uid = login[x].uid /\ l.seen = login[x].seen
      /\ l.failed = login[x].failed
  <2>1. login[x] \in Login
    BY DEF RoutingInv, Types
  <2> QED
    BY <2>1 DEF Login, LoginSteps
<1>2. /\ login[x].at = "bound" /\ login' = [login EXCEPT ![x] = l]
      /\ UNCHANGED <<conn, sessions, uidToSession, db, deal, inbox>>
      /\ login[x].uid \in Uids /\ conn[x].srv \in Servers /\ conn[x].acc # "new"
  BY DEF SetUip, LoginAt, LoginMoves, RoutingInv, LoginInv, ConnInv, Types, Conn
<1> HIDE DEF l
<1>3. login'[x] = l /\ \A y \in Sessions \ {x} : login'[y] = login[y]
  BY <1>2 DEF RoutingInv, Types
<1>4. /\ uip' \in [Uids -> Servers \cup {None}]
      /\ \A u \in Uids : u # login[x].uid => uip'[u] = uip[u]
      /\ uip'[login[x].uid] = conn[x].srv \/ uip' = uip
      /\ ~IOFails => uip'[login[x].uid] = conn[x].srv
  <2>1. uip \in [Uids -> Servers \cup {None}]
    BY DEF RoutingInv, Types
  <2>2. CASE uip' = [uip EXCEPT ![login[x].uid] = conn[x].srv]
    <3>1. uip' \in [Uids -> Servers \cup {None}] /\ uip'[login[x].uid] = conn[x].srv
      BY <2>1, <2>2, <1>2
    <3> QED
      BY <2>1, <2>2, <3>1
  <2>3. CASE IOFails /\ UNCHANGED uip
    BY <2>1, <2>3
  <2> QED
    BY <2>2, <2>3 DEF SetUip
<1>5. Types'
  BY <1>1, <1>2, <1>4 DEF RoutingInv, Types
<1>6. ConnInv'
  BY <1>1, <1>2, <1>3 DEF RoutingInv, ConnInv
<1>7. LoginInv'
  BY <1>1, <1>2, <1>3 DEF RoutingInv, LoginInv, AfterBound
<1>8. DealInv'
  BY <1>1, <1>2, <1>3 DEF RoutingInv, DealInv
<1>9. HeldInv'
  BY <1>1, <1>2, <1>3 DEF RoutingInv, HeldInv
<1>10. MappedInv'
  BY <1>2, <1>3 DEF RoutingInv, MappedInv, AfterMapped
<1>11. ClearInv'
  BY <1>2 DEF RoutingInv, ClearInv
<1>12. DeliveryInv => DeliveryInv'
  <2> SUFFICES ASSUME DeliveryInv, NEW y \in Sessions, NEW m \in Msgs
               PROVE  Concerns(y, m)' => OnTheWay(y, m)'
    BY DEF DeliveryInv
  <2>1. CASE y = x
    BY <2>1, <1>1, <1>2, <1>3 DEF DeliveryInv, OnTheWay, Concerns, AfterMapped
  <2>2. CASE y # x
    <3>1. ASSUME login[y].at \in AfterMapped, Superseded(y) PROVE Superseded(y)'
      <4>1. login[y].uid \in Uids
        BY <3>1 DEF RoutingInv, LoginInv, AfterMapped
      <4>2. CASE \E w \in Sessions \ {y} : /\ login[w].uid = login[y].uid /\ login[w].at = "located"
                                           /\ conn[w].srv = conn[y].srv
        BY <2>2, <4>2, <1>2, <1>3 DEF Superseded
      <4>3. CASE conn[y].io # "reading" \/ uidToSession[conn[y].srv][login[y].uid] # y
        BY <2>2, <4>3, <1>2, <1>3 DEF Superseded
      <4>4. CASE uip[login[y].uid] # conn[y].srv
        <5>1. CASE uip'[login[y].uid] # conn[y].srv
          BY <2>2, <5>1, <1>2, <1>3 DEF Superseded
        <5>2. CASE uip'[login[y].uid] = conn[y].srv
          <6>1. login[y].uid = login[x].uid /\ conn[x].srv = conn[y].srv
            BY <4>1, <4>4, <5>2, <1>4
          <6> QED
            BY <2>2, <6>1, <1>1, <1>2, <1>3 DEF Superseded
        <5> QED
          BY <5>1, <5>2
      <4> QED
        BY <3>1, <4>2, <4>3, <4>4 DEF Superseded
    <3> QED
      BY <2>2, <3>1, <1>2, <1>3, OtherSession
  <2> QED
    BY <2>1, <2>2
<1>13. Reliable /\ ReachInv => ReachInv'
  BY <1>1, <1>2, <1>3, <1>4 DEF Reliable, ReachInv, Only, AfterMapped, RoutingInv, LoginInv
<1> QED
  BY <1>5, <1>6, <1>7, <1>8, <1>9, <1>10, <1>11, <1>12, <1>13 DEF RoutingInv, Preserved

LEMMA SetUserSessionStep ==
  ASSUME RoutingInv, NEW x \in Sessions, SetUserSession(x)
  PROVE  Preserved
<1> USE ChatRoutingAssumption
<1> DEFINE l == [login[x] EXCEPT !.at = "mapped"]
           c == [conn[x] EXCEPT !.late = @ \/ conn[x].io # "reading"]
<1>1. /\ l \in Login /\ l.at = "mapped" /\ l.uid = login[x].uid /\ l.seen = login[x].seen
      /\ l.failed = login[x].failed
  <2>1. login[x] \in Login
    BY DEF RoutingInv, Types
  <2> QED
    BY <2>1 DEF Login, LoginSteps
<1>2. /\ c \in Conn /\ c.uid = conn[x].uid /\ c.srv = conn[x].srv /\ c.acc = conn[x].acc
      /\ c.io = conn[x].io /\ c.rm = conn[x].rm
      /\ conn[x].io = "reading" => c.late = conn[x].late
      /\ conn[x].io # "reading" => c.late
  <2>1. conn[x] \in Conn
    BY DEF RoutingInv, Types
  <2> QED
    BY <2>1 DEF Conn
<1>3. /\ login[x].at = "located" /\ login' = [login EXCEPT ![x] = l] /\ conn' = [conn EXCEPT ![x] = c]
      /\ uidToSession' = [uidToSession EXCEPT ![conn[x].srv][login[x].uid] = x]
      /\ UNCHANGED <<sessions, uip, db, deal, inbox>>
      /\ login[x].uid \in Uids /\ conn[x].srv \in Servers
  BY DEF SetUserSession, LoginAt, LoginMoves, RoutingInv, LoginInv, ConnInv, Types, Conn
<1> HIDE DEF l, c
<1>4. /\ login'[x] = l /\ \A y \in Sessions \ {x} : login'[y] = login[y]
      /\ conn'[x] = c /\ \A y \in Sessions \ {x} : conn'[y] = conn[y]
  BY <1>3 DEF RoutingInv, Types
<1>5. /\ uidToSession' \in [Servers -> [Uids -> Sessions \cup {None}]]
      /\ \A s \in Servers, u \in Uids :
           uidToSession'[s][u] = IF s = conn[x].srv /\ u = login[x].uid THEN x ELSE uidToSession[s][u]
  BY <1>3 DEF RoutingInv, Types
<1>6. Types'
  BY <1>1, <1>2, <1>3, <1>5 DEF RoutingInv, Types
<1>7. ConnInv'
  BY <1>1, <1>2, <1>3, <1>4 DEF RoutingInv, ConnInv
<1>8. LoginInv'
  BY <1>1, <1>2, <1>3, <1>4 DEF RoutingInv, LoginInv, AfterBound
<1>9. DealInv'
  BY <1>1, <1>3, <1>4 DEF RoutingInv, DealInv
<1>10. HeldInv'
  BY <1>1, <1>3, <1>4 DEF RoutingInv, HeldInv
<1>11. MappedInv'
  BY <1>1, <1>2, <1>4, <1>5 DEF RoutingInv, MappedInv, AfterMapped
<1>12. ClearInv'
  BY <1>2, <1>3, <1>4, <1>5 DEF RoutingInv, ClearInv
<1>13. DeliveryInv => DeliveryInv'
  <2> SUFFICES ASSUME DeliveryInv, NEW y \in Sessions, NEW m \in Msgs
               PROVE  Concerns(y, m)' => OnTheWay(y, m)'
    BY DEF DeliveryInv
  <2>1. CASE y = x
    <3> SUFFICES ASSUME Concerns(x, m) PROVE OnTheWay(x, m)'
      BY <2>1, <1>1, <1>3, <1>4 DEF Concerns
    <3>1. CASE deal[m].kind = "text"
      BY <3>1, <1>1, <1>3, <1>4 DEF OnTheWay, Covered
    <3>2. CASE deal[m].kind = "friend"
      <4>1. x \in deal[m].during \/ m \in inbox[x] \/ conn[x].io # "reading"
        BY <3>2, <1>3 DEF DeliveryInv, OnTheWay
      <4> QED
        BY <4>1, <1>1, <1>2, <1>3, <1>4 DEF OnTheWay, Covered, Superseded
    <3> QED
      BY <3>1, <3>2 DEF Concerns, RoutingInv, DealInv, Types, Deal
  <2>2. CASE y # x
    <3>1. ASSUME login[y].at \in AfterMapped, Superseded(y) PROVE Superseded(y)'
      <4>1. login[y].uid \in Uids /\ conn[y].srv \in Servers
        BY <3>1 DEF RoutingInv, LoginInv, ConnInv, Types, Conn, AfterMapped
      <4>2. CASE conn[y].io # "reading" \/ uip[login[y].uid] # conn[y].srv
        BY <2>2, <4>2, <1>3, <1>4 DEF Superseded
      <4>3. CASE uidToSession[conn[y].srv][login[y].uid] # y
        BY <2>2, <4>1, <4>3, <1>4, <1>5 DEF Superseded
      <4>4. ASSUME NEW w \in Sessions \ {y}, login[w].uid = login[y].uid, login[w].at = "located",
                   conn[w].srv = conn[y].srv
            PROVE  Superseded(y)'
        <5>1. CASE w = x
          BY <2>2, <4>1, <4>4, <5>1, <1>4, <1>5 DEF Superseded
        <5>2. CASE w # x
          BY <2>2, <4>4, <5>2, <1>4 DEF Superseded
        <5> QED
          BY <5>1, <5>2
      <4> QED
        BY <3>1, <4>2, <4>3, <4>4 DEF Superseded
    <3> QED
      BY <2>2, <3>1, <1>3, <1>4, OtherSession
  <2> QED
    BY <2>1, <2>2
<1>14. ReachInv => ReachInv'
  <2> SUFFICES ASSUME ReachInv, NEW y \in Sessions
               PROVE  /\ conn'[y].uid # None => conn'[y].uid = login'[y].uid
                      /\ conn'[y].rm # None => conn'[y].rm = login'[y].uid
                      /\ login'[y].at \in {"located"} \cup AfterMapped /\ Only(y)' =>
                           uip'[login'[y].uid] = conn'[y].srv
                      /\ conn'[y].io = "reading" /\ login'[y].at \in AfterMapped /\ Only(y)' =>
                           uidToSession'[conn'[y].srv][login'[y].uid] = y
    BY DEF ReachInv
  <2>1. Only(y)' => Only(y)
    BY <1>1, <1>4 DEF Only
  <2>2. CASE y = x
    BY <2>1, <2>2, <1>1, <1>2, <1>3, <1>4, <1>5 DEF ReachInv, AfterMapped
  <2>3. CASE y # x
    <3>1. Only(y) => login[y].uid # login[x].uid
      BY <2>3 DEF Only
    <3>2. login[y].at \in AfterMapped => conn[y].srv \in Servers /\ login[y].uid \in Uids
      BY DEF AfterMapped, RoutingInv, Types, Conn, ConnInv, LoginInv
    <3> QED
      BY <2>1, <2>3, <3>1, <3>2, <1>3, <1>4, <1>5 DEF ReachInv
  <2> QED
    BY <2>2, <2>3
<1> QED
  BY <1>6, <1>7, <1>8, <1>9, <1>10, <1>11, <1>12, <1>13, <1>14 DEF RoutingInv, Preserved

LEMMA LoadRecentStep ==
  ASSUME RoutingInv, NEW x \in Sessions, LoadRecent(x)
  PROVE  Preserved
<1> USE ChatRoutingAssumption
<1>1. PICK fails \in {FALSE, IOFails} :
        login' = [login EXCEPT ![x].at = "loaded",
                               ![x].failed = @ \/ fails,
                               ![x].seen = IF fails THEN {}
                                           ELSE {m \in db : deal[m].to = login[x].uid /\ deal[m].kind = "text"}]
  BY DEF LoadRecent
<1> DEFINE recent == {m \in db : deal[m].to = login[x].uid /\ deal[m].kind = "text"}
           l == [login[x] EXCEPT !.at = "loaded", !.failed = @ \/ fails,
                                 !.seen = IF fails THEN {} ELSE recent]
<1>2. /\ login[x].at = "mapped" /\ login' = [login EXCEPT ![x] = l]
      /\ UNCHANGED <<conn, sessions, uidToSession, uip, db, deal, inbox>>
  BY <1>1 DEF LoadRecent, LoginAt
<1>3. /\ l \in Login /\ l.at = "loaded" /\ l.uid = login[x].uid /\ l.seen \subseteq recent
      /\ ~l.failed => ~login[x].failed /\ l.seen = recent
  <2>1. login[x] \in Login /\ recent \in SUBSET Msgs /\ fails \in BOOLEAN
    BY DEF RoutingInv, Types
  <2> HIDE DEF recent
  <2> QED
    BY <2>1 DEF Login, LoginSteps
<1>4. \A m \in recent : m \in db /\ deal[m].to = login[x].uid
  OBVIOUS
<1>5. \A m \in db : deal[m].to = login[x].uid /\ deal[m].kind = "text" => m \in recent
  OBVIOUS
<1> HIDE DEF l, recent
<1>6. login'[x] = l /\ \A y \in Sessions \ {x} : login'[y] = login[y]
  BY <1>2 DEF RoutingInv, Types
<1>7. Types'
  BY <1>2, <1>3 DEF RoutingInv, Types
<1>8. ConnInv'
  BY <1>2, <1>3, <1>6 DEF RoutingInv, ConnInv
<1>9. LoginInv'
  BY <1>2, <1>3, <1>6 DEF RoutingInv, LoginInv, AfterBound
<1>10. DealInv'
  BY <1>2, <1>3, <1>6 DEF RoutingInv, DealInv
<1>11. HeldInv'
  BY <1>2, <1>3, <1>4, <1>6 DEF RoutingInv, HeldInv, DealInv, Types
<1>12. MappedInv'
  BY <1>2, <1>3, <1>6 DEF RoutingInv, MappedInv, AfterMapped
<1>13. ClearInv'
  BY <1>2 DEF RoutingInv, ClearInv
<1>14. DeliveryInv => DeliveryInv'
  <2> SUFFICES ASSUME DeliveryInv, NEW y \in Sessions, NEW m \in Msgs, Concerns(y, m)'
               PROVE  OnTheWay(y, m)'
    BY DEF DeliveryInv
  <2>1. Superseded(y) => Superseded(y)'
    BY <1>2, <1>3, <1>6, StaysSuperseded
  <2>2. CASE y = x
    <3>1. Concerns(x, m) /\ l.seen = recent /\ deal[m].to = login[x].uid
      BY <2>2, <1>2, <1>3, <1>6 DEF Concerns
    <3>2. m \in db
      BY <3>1 DEF Concerns, RoutingInv, DealInv
    <3>3. CASE Covered(x, m)
      <4>1. deal[m].kind = "text" => m \in login'[x].seen
        BY <3>1, <3>2, <1>5, <1>6
      <4> QED
        BY <2>2, <3>3, <4>1, <1>2, <1>3, <1>6 DEF Covered, OnTheWay
    <3>4. CASE UnderWay(x, m)
      BY <2>2, <3>4, <1>2, <1>3, <1>6 DEF UnderWay, OnTheWay
    <3>5. CASE Superseded(x)
      BY <2>1, <2>2, <3>5, <1>3, <1>6 DEF OnTheWay
    <3> QED
      BY <3>1, <3>3, <3>4, <3>5, <1>2 DEF DeliveryInv, OnTheWay, AfterMapped
  <2>3. CASE y # x
    BY <2>1, <2>3, <1>2, <1>6, OtherSession
  <2> QED
    BY <2>2, <2>3
<1>15. ReachInv => ReachInv'
  BY <1>2, <1>3, <1>6 DEF ReachInv, Only, AfterMapped
<1> QED
  BY <1>7, <1>8, <1>9, <1>10, <1>11, <1>12, <1>13, <1>14, <1>15 DEF RoutingInv, Preserved

LEMMA SendRecentStep ==
  ASSUME RoutingInv, NEW x \in Sessions, SendRecent(x)
  PROVE  Preserved
<1> USE ChatRoutingAssumption
<1> DEFINE l == [login[x] EXCEPT !.at = "done", !.seen = {}]
<1>1. /\ l \in Login /\ l.at = "done" /\ l.uid = login[x].uid /\ l.seen = {}
      /\ l.failed = login[x].failed
  <2>1. login[x] \in Login
    BY DEF RoutingInv, Types
  <2> QED
    BY <2>1 DEF Login, LoginSteps
<1>2. /\ login[x].at = "loaded" /\ login' = [login EXCEPT ![x] = l]
      /\ UNCHANGED <<conn, sessions, uidToSession, uip, db, deal>>
      /\ Send(x, login[x].seen)
  BY DEF SendRecent, LoginAt
<1> HIDE DEF l
<1>3. login'[x] = l /\ \A y \in Sessions \ {x} : login'[y] = login[y]
  BY <1>2 DEF RoutingInv, Types
<1>4. /\ inbox' \in [Sessions -> SUBSET Msgs]
      /\ inbox'[x] = IF conn[x].io = "reading" THEN inbox[x] \cup login[x].seen ELSE inbox[x]
      /\ \A y \in Sessions \ {x} : inbox'[y] = inbox[y]
  BY <1>2 DEF Send, RoutingInv, Types, Login
<1>5. Types'
  BY <1>1, <1>2, <1>4 DEF RoutingInv, Types
<1>6. ConnInv'
  BY <1>1, <1>2, <1>3 DEF RoutingInv, ConnInv
<1>7. LoginInv'
  BY <1>1, <1>2, <1>3 DEF RoutingInv, LoginInv, AfterBound
<1>8. DealInv'
  BY <1>1, <1>2, <1>3 DEF RoutingInv, DealInv
<1>9. HeldInv'
  BY <1>1, <1>2, <1>3, <1>4 DEF RoutingInv, HeldInv
<1>10. MappedInv'
  BY <1>1, <1>2, <1>3 DEF RoutingInv, MappedInv, AfterMapped
<1>11. ClearInv'
  BY <1>2 DEF RoutingInv, ClearInv
<1>12. DeliveryInv => DeliveryInv'
  <2> SUFFICES ASSUME DeliveryInv, NEW y \in Sessions, NEW m \in Msgs, Concerns(y, m)'
               PROVE  OnTheWay(y, m)'
    BY DEF DeliveryInv
  <2>1. Superseded(y) => Superseded(y)'
    BY <1>1, <1>2, <1>3, StaysSuperseded
  <2>2. CASE y = x
    <3>1. Concerns(x, m)
      BY <2>2, <1>1, <1>2, <1>3 DEF Concerns
    <3>2. CASE Covered(x, m)
      BY <2>2, <3>2, <1>1, <1>2, <1>3, <1>4 DEF Covered, Superseded, OnTheWay
    <3>3. CASE UnderWay(x, m)
      BY <2>2, <3>3, <1>1, <1>2, <1>3 DEF UnderWay, OnTheWay
    <3>4. CASE Superseded(x)
      BY <2>1, <2>2, <3>4, <1>1, <1>3 DEF OnTheWay
    <3> QED
      BY <3>1, <3>2, <3>3, <3>4, <1>2 DEF DeliveryInv, OnTheWay, AfterMapped
  <2>3. CASE y # x
    BY <2>1, <2>3, <1>2, <1>3, <1>4, OtherSession
  <2> QED
    BY <2>2, <2>3
<1>13. ReachInv => ReachInv'
  BY <1>1, <1>2, <1>3 DEF ReachInv, Only, AfterMapped
<1> QED
  BY <1>5, <1>6, <1>7, <1>8, <1>9, <1>10, <1>11, <1>12, <1>13 DEF RoutingInv, Preserved

-----------------------------------------------------------------------------
(***************************************************************************)
(* The handlers of messages and friend notifications.                      *)
(***************************************************************************)
LEMMA DealSaveStep ==
  ASSUME RoutingInv, NEW m \in Msgs, NEW s \in Servers, NEW u \in Uids,
         NEW k \in {"text", "friend"}, DealSave(m, s, u, k)
  PROVE  Preserved
<1> USE ChatRoutingAssumption
<1>1. PICK fails \in {FALSE, IOFails} :
        /\ db' = IF fails THEN db ELSE db \cup {m}
        /\ LET d == [to |-> u, kind |-> k, at |-> "lookup", srv |-> s, target |-> None,
                     sess |-> None, during |-> Missing(u, k), failed |-> fails]
           IN  deal' = [deal EXCEPT ![m] = IF fails /\ k = "text" THEN Finished(d, TRUE) ELSE d]
  BY DEF DealSave
<1>2. PICK d \in Deal :
        /\ deal' = [deal EXCEPT ![m] = d]
        /\ d.to = u /\ d.kind = k /\ d.during = Missing(u, k) /\ d.at \in {"lookup", "done"}
        /\ ~d.failed => ~fails /\ d.at = "lookup"
  <2> DEFINE e == [to |-> u, kind |-> k, at |-> "lookup", srv |-> s, target |-> None,
                   sess |-> None, during |-> Missing(u, k), failed |-> fails]
  <2>1. Missing(u, k) \subseteq Sessions /\ fails \in BOOLEAN
    BY DEF Missing
  <2>2. /\ e \in Deal /\ e.to = u /\ e.kind = k /\ e.during = Missing(u, k)
        /\ e.at = "lookup" /\ e.failed = fails
    BY <2>1 DEF Deal
  <2> HIDE DEF e
  <2>3. /\ Finished(e, TRUE) \in Deal /\ Finished(e, TRUE).to = e.to /\ Finished(e, TRUE).kind = e.kind
        /\ Finished(e, TRUE).during = e.during /\ Finished(e, TRUE).at = "done"
        /\ Finished(e, TRUE).failed
    BY <2>2 DEF Finished, Deal
  <2>4. CASE fails /\ k = "text"
    <3>1. deal' = [deal EXCEPT ![m] = Finished(e, TRUE)]
      BY <1>1, <2>4 DEF e
    <3> QED
      BY <2>2, <2>3, <3>1
  <2>5. CASE ~(fails /\ k = "text")
    <3>1. deal' = [deal EXCEPT ![m] = e]
      BY <1>1, <2>5 DEF e
    <3> QED
      BY <2>2, <3>1
  <2> QED
    BY <2>4, <2>5
<1>3. /\ deal[m].at = "idle" /\ m \notin db
      /\ UNCHANGED <<conn, sessions, uidToSession, uip, login, inbox>>
      /\ db' = db \/ db' = db \cup {m}
      /\ ~d.failed => db' = db \cup {m}
  <2>1. CASE fails
    BY <2>1, <1>1, <1>2 DEF DealSave, DealAt, RoutingInv, DealInv
  <2>2. CASE ~fails
    BY <2>2, <1>1 DEF DealSave, DealAt, RoutingInv, DealInv
  <2> QED
    BY <2>1, <2>2
<1>4. deal'[m] = d /\ \A n \in Msgs \ {m} : deal'[n] = deal[n]
  BY <1>2 DEF RoutingInv, Types
<1>5. Types'
  BY <1>2, <1>3 DEF RoutingInv, Types
<1>6. ConnInv' /\ LoginInv'
  BY <1>3 DEF RoutingInv, ConnInv, LoginInv
<1>7. DealInv'
  BY <1>2, <1>3, <1>4 DEF RoutingInv, DealInv
<1>8. HeldInv'
  BY <1>2, <1>3, <1>4 DEF RoutingInv, HeldInv, Types, Login
<1>9. MappedInv' /\ ClearInv'
  BY <1>3 DEF RoutingInv, MappedInv, ClearInv
<1>10. DeliveryInv => DeliveryInv'
  <2> SUFFICES ASSUME DeliveryInv, NEW y \in Sessions, NEW n \in Msgs, Concerns(y, n)'
               PROVE  OnTheWay(y, n)'
    BY DEF DeliveryInv
  <2>1. CASE n = m
    <3>1. d.at = "lookup" /\ login[y].uid = u
      BY <2>1, <1>2, <1>3, <1>4 DEF Concerns
    <3>2. UnderWay(y, m)'
      BY <3>1, <1>4 DEF UnderWay
    <3>3. login[y].at \in {"friends", "bound", "located"} /\ k = "friend" => y \in Missing(u, k)
      BY <3>1 DEF Missing
    <3> QED
      BY <2>1, <3>2, <3>3, <1>2, <1>3, <1>4 DEF OnTheWay
  <2>2. CASE n # m
    <3>1. deal'[n] = deal[n] /\ Concerns(y, n)
      BY <2>2, <1>3, <1>4 DEF Concerns
    <3> QED
      BY <3>1, <1>3 DEF DeliveryInv, OnTheWay, Covered, UnderWay, Superseded
  <2> QED
    BY <2>1, <2>2
<1>11. ReachInv => ReachInv'
  BY <1>3 DEF ReachInv, Only
<1> QED
  BY <1>5, <1>6, <1>7, <1>8, <1>9, <1>10, <1>11 DEF RoutingInv, Preserved

\* The later steps of a handler change its record, and send the message to
\* sessions of its user only.
HandlerMoves(m, d) ==
  /\ d \in Deal /\ deal' = [deal EXCEPT ![m] = d]
  /\ deal[m].at # "idle" /\ d.at # "idle"
  /\ d.to = deal[m].to /\ d.kind = deal[m].kind /\ d.during = deal[m].during
  /\ ~d.failed => ~deal[m].failed
  /\ d.at = "find" => d.target \in Servers
  /\ d.at = "notify" => d.sess \in Sessions /\ login[d.sess].uid = d.to
  /\ UNCHANGED <<conn, sessions, uidToSession, uip, db, login>>
  /\ inbox' \in [Sessions -> SUBSET Msgs]
  /\ \A y \in Sessions :
       inbox'[y] = inbox[y] \/ (inbox'[y] = inbox[y] \cup {m} /\ login[y].uid = deal[m].to)

LEMMA HandlerFrame ==
  ASSUME RoutingInv, NEW m \in Msgs, NEW d, HandlerMoves(m, d)
  PROVE  /\ deal'[m] = d /\ \A n \in Msgs \ {m} : deal'[n] = deal[n]
         /\ RoutingInv' /\ (ReachInv => ReachInv')
<1> USE ChatRoutingAssumption DEF HandlerMoves
<1>1. deal'[m] = d /\ \A n \in Msgs \ {m} : deal'[n] = deal[n]
  BY DEF RoutingInv, Types
<1>2. Types'
  BY DEF RoutingInv, Types
<1>3. ConnInv' /\ LoginInv' /\ MappedInv' /\ ClearInv'
  BY DEF RoutingInv, ConnInv, LoginInv, MappedInv, ClearInv
<1>4. DealInv'
  BY <1>1 DEF RoutingInv, DealInv
<1>5. HeldInv'
  <2> SUFFICES ASSUME NEW y \in Sessions, NEW n \in login[y].seen \cup inbox'[y]
               PROVE  deal'[n].at # "idle" /\ deal'[n].to = login[y].uid
    BY DEF HeldInv
  <2>1. CASE n = m /\ m \notin login[y].seen \cup inbox[y]
    BY <2>1, <1>1
  <2>2. CASE n \in login[y].seen \cup inbox[y]
    <3>1. n \in Msgs /\ deal[n].at # "idle" /\ deal[n].to = login[y].uid
      BY <2>2 DEF RoutingInv, Types, Login, HeldInv
    <3> QED
      BY <3>1, <1>1
  <2> QED
    BY <2>1, <2>2
<1>6. ReachInv => ReachInv'
  BY DEF ReachInv, Only
<1> QED
  BY <1>1, <1>2, <1>3, <1>4, <1>5, <1>6 DEF RoutingInv

\* Such a step of m's handler leaves every message where it is on its way,
\* if it does so with m itself.
LEMMA HandlerDelivery ==
  ASSUME RoutingInv, DeliveryInv, NEW m \in Msgs, NEW d, HandlerMoves(m, d),
         \A y \in Sessions : /\ UnderWay(y, m) /\ deal[m].to = login[y].uid /\ ~d.failed
                             /\ login[y].at \in AfterMapped
                             => UnderWay(y, m)' \/ m \in inbox'[y] \/ Superseded(y)
  PROVE  DeliveryInv'
<1> SUFFICES ASSUME NEW y \in Sessions, NEW n \in Msgs, Concerns(y, n)'
             PROVE  OnTheWay(y, n)'
  BY DEF DeliveryInv
<1>0. deal'[m] = d /\ \A k \in Msgs \ {m} : deal'[k] = deal[k]
  BY HandlerFrame
<1> USE DEF HandlerMoves
<1>1. Superseded(y)' <=> Superseded(y)
  BY DEF Superseded
<1>2. CASE n # m
  <2>1. deal'[n] = deal[n]
    BY <1>0, <1>2
  <2>2. Concerns(y, n) /\ OnTheWay(y, n)
    BY <2>1 DEF Concerns, DeliveryInv
  <2> QED
    BY <2>1, <2>2, <1>1 DEF OnTheWay, Covered, UnderWay
<1>3. CASE n = m
  <2>1. Concerns(y, m) /\ OnTheWay(y, m) /\ ~d.failed /\ deal[m].to = login[y].uid
    BY <1>0, <1>3 DEF Concerns, DeliveryInv
  <2>2. Covered(y, m) => Covered(y, m)'
    BY <1>0 DEF Covered
  <2>3. m \in inbox'[y] => Covered(y, m)'
    BY DEF Covered
  <2> QED
    BY <1>1, <1>3, <2>1, <2>2, <2>3 DEF OnTheWay
<1> QED
  BY <1>2, <1>3

LEMMA DealLookupStep ==
  ASSUME RoutingInv, NEW m \in Msgs, DealLookup(m)
  PROVE  Preserved
<1> USE ChatRoutingAssumption
<1>1. /\ deal[m] \in Deal /\ deal[m].at = "lookup" /\ deal[m].to \in Uids
      /\ UNCHANGED <<conn, sessions, uidToSession, uip, db, login, inbox>>
  BY DEF DealLookup, DealAt, RoutingInv, Types, DealInv
<1>2. PICK d \in Deal :
        /\ deal' = [deal EXCEPT ![m] = d]
        /\ d.to = deal[m].to /\ d.kind = deal[m].kind /\ d.during = deal[m].during
        /\ d.at \in {"find", "done"} /\ (~d.failed => ~deal[m].failed)
        /\ d.at = "find" => d.target \in Servers /\ d.target = uip[deal[m].to]
        /\ d.at = "done" /\ ~d.failed => uip[deal[m].to] = None
  <2>1. CASE /\ uip[deal[m].to] # None
             /\ deal' = [deal EXCEPT ![m].at = "find", ![m].target = uip[deal[m].to]]
    <3> DEFINE e == [deal[m] EXCEPT !.at = "find", !.target = uip[deal[m].to]]
    <3>1. deal' = [deal EXCEPT ![m] = e]
      BY <2>1
    <3>2. uip[deal[m].to] \in Servers
      BY <2>1, <1>1 DEF RoutingInv, Types
    <3>3. /\ e \in Deal /\ e.to = deal[m].to /\ e.kind = deal[m].kind /\ e.during = deal[m].during
          /\ e.at = "find" /\ e.failed = deal[m].failed /\ e.target = uip[deal[m].to]
      BY <1>1, <3>2 DEF Deal
    <3> QED
      BY <3>1, <3>2, <3>3
  <2>2. CASE uip[deal[m].to] = None /\ DealEnds(m, FALSE)
    <3>1. deal' = [deal EXCEPT ![m] = Finished(deal[m], FALSE)]
      BY <2>2 DEF DealEnds
    <3> QED
      BY <2>2, <3>1, <1>1, FinishedDeal
  <2>3. CASE DealEnds(m, TRUE)
    <3>1. deal' = [deal EXCEPT ![m] = Finished(deal[m], TRUE)]
      BY <2>3 DEF DealEnds
    <3> QED
      BY <3>1, <1>1, FinishedDeal
  <2> QED
    BY <2>1, <2>2, <2>3 DEF DealLookup
<1>3. HandlerMoves(m, d)
  <2>1. inbox' \in [Sessions -> SUBSET Msgs]
    BY <1>1 DEF RoutingInv, Types
  <2> QED
    BY <2>1, <1>1, <1>2 DEF HandlerMoves
<1>4. deal'[m] = d /\ RoutingInv' /\ (ReachInv => ReachInv')
  BY <1>3, HandlerFrame
<1>5. DeliveryInv => DeliveryInv'
  <2>1. ASSUME NEW y \in Sessions, deal[m].to = login[y].uid, ~d.failed, login[y].at \in AfterMapped
        PROVE  UnderWay(y, m)' \/ Superseded(y)
    <3>1. conn[y].srv # None
      BY <2>1 DEF RoutingInv, ConnInv, AfterMapped
    <3> QED
      BY <2>1, <3>1, <1>1, <1>2, <1>4 DEF UnderWay, Superseded
  <2> QED
    BY <2>1, <1>3, HandlerDelivery
<1> QED
  BY <1>4, <1>5 DEF Preserved

LEMMA DealFindStep ==
  ASSUME RoutingInv, NEW m \in Msgs, DealFind(m)
  PROVE  Preserved
<1> USE ChatRoutingAssumption
<1> DEFINE found == uidToSession[deal[m].target][deal[m].to]
<1>1. /\ deal[m] \in Deal /\ deal[m].at = "find" /\ deal[m].to \in Uids /\ deal[m].target \in Servers
      /\ UNCHANGED <<conn, sessions, uidToSession, uip, db, login, inbox>>
  BY DEF DealFind, DealAt, RoutingInv, Types, DealInv
<1>2. found \in Sessions \cup {None}
  BY <1>1 DEF RoutingInv, Types
<1>3. PICK d \in Deal :
        /\ deal' = [deal EXCEPT ![m] = d]
        /\ d.to = deal[m].to /\ d.kind = deal[m].kind /\ d.during = deal[m].during
        /\ d.at \in {"notify", "done"} /\ (~d.failed => ~deal[m].failed)
        /\ d.at = "notify" => d.sess \in Sessions /\ d.sess = found
        /\ d.at = "done" /\ ~d.failed => found = None
  <2>1. CASE found = None /\ DealEnds(m, FALSE)
    <3>1. deal' = [deal EXCEPT ![m] = Finished(deal[m], FALSE)]
      BY <2>1 DEF DealEnds
    <3> QED
      BY <2>1, <3>1, <1>1, FinishedDeal
  <2>2. CASE found # None /\ deal' = [deal EXCEPT ![m].at = "notify", ![m].sess = found]
    <3> DEFINE e == [deal[m] EXCEPT !.at = "notify", !.sess = found]
    <3>1. deal' = [deal EXCEPT ![m] = e] /\ found \in Sessions
      BY <2>2, <1>2
    <3> HIDE DEF found
    <3>2. /\ e \in Deal /\ e.to = deal[m].to /\ e.kind = deal[m].kind /\ e.during = deal[m].during
          /\ e.at = "notify" /\ e.failed = deal[m].failed /\ e.sess = found
      BY <1>1, <3>1 DEF Deal
    <3> QED
      BY <3>1, <3>2
  <2>3. CASE DealEnds(m, TRUE)
    <3>1. deal' = [deal EXCEPT ![m] = Finished(deal[m], TRUE)]
      BY <2>3 DEF DealEnds
    <3> QED
      BY <3>1, <1>1, FinishedDeal
  <2> QED
    BY <2>1, <2>2, <2>3 DEF DealFind, GetSession, RpcFails
<1>4. HandlerMoves(m, d)
  <2>1. inbox' \in [Sessions -> SUBSET Msgs]
    BY <1>1 DEF RoutingInv, Types
  <2>2. d.at = "notify" => d.sess \in Sessions /\ login[d.sess].uid = d.to
    BY <1>1, <1>3 DEF RoutingInv, MappedInv
  <2> HIDE DEF found
  <2> QED
    BY <2>1, <2>2, <1>1, <1>3 DEF HandlerMoves
<1>5. deal'[m] = d /\ RoutingInv' /\ (ReachInv => ReachInv')
  BY <1>4, HandlerFrame
<1>6. DeliveryInv => DeliveryInv'
  <2>1. ASSUME NEW y \in Sessions, UnderWay(y, m), deal[m].to = login[y].uid, ~d.failed
        PROVE  UnderWay(y, m)' \/ Superseded(y)
    <3>1. deal[m].target = conn[y].srv
      BY <2>1, <1>1 DEF UnderWay
    <3>2. CASE found = y
      BY <2>1, <3>2, <1>3, <1>5 DEF UnderWay
    <3>3. CASE found # y
      BY <2>1, <3>1, <3>3 DEF Superseded
    <3> QED
      BY <3>2, <3>3
  <2> QED
    BY <2>1, <1>4, HandlerDelivery
<1> QED
  BY <1>5, <1>6 DEF Preserved

LEMMA DealNotifyStep ==
  ASSUME RoutingInv, NEW m \in Msgs, DealNotify(m)
  PROVE  Preserved
<1> USE ChatRoutingAssumption
<1> DEFINE x == deal[m].sess
           d == Finished(deal[m], FALSE)
<1>1. /\ deal[m] \in Deal /\ deal[m].at = "notify" /\ deal[m].to \in Uids
      /\ x \in Sessions /\ login[x].uid = deal[m].to
      /\ UNCHANGED <<conn, sessions, uidToSession, uip, db, login>>
      /\ deal' = [deal EXCEPT ![m] = d]
  BY DEF DealNotify, DealAt, DealEnds, RoutingInv, Types, DealInv
<1>2. /\ d \in Deal /\ d.at = "done" /\ d.to = deal[m].to /\ d.kind = deal[m].kind
      /\ d.during = deal[m].during /\ (d.failed <=> deal[m].failed)
  BY <1>1, FinishedDeal
<1>3. /\ inbox' \in [Sessions -> SUBSET Msgs]
      /\ conn[x].io = "reading" => inbox'[x] = inbox[x] \cup {m}
      /\ conn[x].io # "reading" => inbox'[x] = inbox[x]
      /\ \A y \in Sessions \ {x} : inbox'[y] = inbox[y]
  BY <1>1 DEF DealNotify, Send, RoutingInv, Types
<1> HIDE DEF x, d
<1>4. HandlerMoves(m, d)
  <2>1. \A y \in Sessions :
          inbox'[y] = inbox[y] \/ (inbox'[y] = inbox[y] \cup {m} /\ login[y].uid = deal[m].to)
    BY <1>1, <1>3
  <2> QED
    BY <2>1, <1>1, <1>2, <1>3 DEF HandlerMoves
<1>5. RoutingInv' /\ (ReachInv => ReachInv')
  BY <1>4, HandlerFrame
<1>6. DeliveryInv => DeliveryInv'
  <2>1. ASSUME NEW y \in Sessions, UnderWay(y, m)
        PROVE  m \in inbox'[y] \/ Superseded(y)
    <3>1. y = x
      BY <2>1, <1>1 DEF UnderWay, x
    <3> QED
      BY <3>1, <1>3 DEF Superseded
  <2> QED
    BY <2>1, <1>4, HandlerDelivery
<1> QED
  BY <1>5, <1>6 DEF Preserved

-----------------------------------------------------------------------------
\* The three invariants are inductive, ReachInv if accesses do not fail.
LEMMA NextPreserves ==
  ASSUME RoutingInv, [Next]_vars
  PROVE  Preserved
<1>1. CASE UNCHANGED vars
  BY <1>1 DEF vars, Preserved, RoutingInv, Types, ConnInv, LoginInv, DealInv, HeldInv, MappedInv,
              ClearInv, DeliveryInv, OnTheWay, Concerns, Covered, UnderWay, Superseded, ReachInv, Only
<1>2. ASSUME NEW x \in Sessions, NEW s \in Servers, Accept(x, s) PROVE Preserved
  BY <1>2, AcceptStep
<1>3. ASSUME NEW x \in Sessions, Insert(x) \/ Close(x) \/ RemoveUserSession(x) \/ EraseSession(x)
      PROVE  Preserved
  BY <1>3, InsertStep, CloseStep, RemoveUserSessionStep, EraseSessionStep
<1>4. ASSUME NEW s \in Servers, Crash(s) PROVE Preserved
  BY <1>4, CrashStep
<1>5. ASSUME NEW x \in Sessions, NEW u \in Uids, LoginStart(x, u) PROVE Preserved
  BY <1>5, LoginStartStep
<1>6. ASSUME NEW x \in Sessions,
             SetUserId(x) \/ SetUip(x) \/ SetUserSession(x) \/ LoadRecent(x) \/ SendRecent(x)
      PROVE  Preserved
  BY <1>6, SetUserIdStep, SetUipStep, SetUserSessionStep, LoadRecentStep, SendRecentStep
<1>7. ASSUME NEW m \in Msgs, NEW s \in Servers, NEW u \in Uids,
             \/ DealChatTextMsgHandler(m, s, u) \/ AddFriendApplyHandler(m, s, u)
             \/ AuthFriendApplyHandler(m, s, u)
      PROVE  Preserved
  BY <1>7, DealSaveStep DEF DealChatTextMsgHandler, AddFriendApplyHandler, AuthFriendApplyHandler
<1>8. ASSUME NEW m \in Msgs, DealLookup(m) \/ DealFind(m) \/ DealNotify(m) PROVE Preserved
  BY <1>8, DealLookupStep, DealFindStep, DealNotifyStep
<1> QED
  BY <1>1, <1>2, <1>3, <1>4, <1>5, <1>6, <1>7, <1>8 DEF Next

LEMMA SpecRouting == Spec => []RoutingInv
<1>1. RoutingInv /\ [Next]_vars => RoutingInv'
  BY NextPreserves DEF Preserved
<1> QED
  BY <1>1, InitRouting, PTL DEF Spec

LEMMA SpecDelivery == Spec => []DeliveryInv
<1>1. Init => DeliveryInv
  BY DEF Init, DeliveryInv, Concerns
<1>2. RoutingInv /\ DeliveryInv /\ [Next]_vars => DeliveryInv'
  BY NextPreserves DEF Preserved
<1> QED
  BY <1>1, <1>2, SpecRouting, PTL DEF Spec

-----------------------------------------------------------------------------
\* Types; on each server a uid is mapped to a session of that server that logged
\* in as it (UserMgr::SetUserSession, RemoveUserSession).
THEOREM TypeCorrect == Spec => []TypeOK
  BY SpecRouting, RoutingInvImplies, PTL

\* The sessions that LogicSystem and ChatServiceImpl find by uid, and send to
\* some steps later, are always the addressee's.
THEOREM SentToAddressee == Spec => []NoMisdelivery
  BY SpecRouting, RoutingInvImplies, PTL

\* CServer::clearSession leaves neither the session nor a mapping to it, unless
\* it overtook the insertion of the session or the mapping.
THEOREM CloseClears == Spec => []ClearedWhenClosed
  BY SpecRouting, RoutingInvImplies, PTL

\* A user who is online has every message whose handler has finished: saving
\* before looking up meets mapping before loading.
THEOREM NothingLost == Spec => []NoLostMessage
<1>1. RoutingInv /\ DeliveryInv => NoLostMessage
  <2> SUFFICES ASSUME DeliveryInv, NEW x \in Sessions, NEW m \in Msgs,
                      Online(x, deal[m].to), ~login[x].failed, deal[m].at = "done", ~deal[m].failed
               PROVE  m \in inbox[x] \/ x \in deal[m].during
    BY DEF NoLostMessage
  <2>1. Concerns(x, m) /\ login[x].at = "done"
    BY DEF Concerns, Online
  <2>2. ~Superseded(x)
    BY DEF Superseded, Online
  <2> QED
    BY <2>1, <2>2 DEF DeliveryInv, OnTheWay, AfterMapped, Covered, UnderWay
<1> QED
  BY <1>1, SpecRouting, SpecDelivery, PTL

\* If no access fails and _user_uid never happens to hold a uid, a user with one
\* session can be reached there from the end of his login until it closes.
THEOREM OneSessionReachable ==
  ASSUME Reliable
  PROVE  Spec => []StaysReachable
<1>1. Init => ReachInv
  BY ChatRoutingAssumption DEF Init, ReachInv, AfterMapped
<1>2. RoutingInv /\ ReachInv /\ [Next]_vars => ReachInv'
  BY NextPreserves DEF Preserved
<1>3. RoutingInv /\ ReachInv => StaysReachable
  BY DEF ReachInv, Only, AfterMapped, StaysReachable
<1> QED
  BY <1>1, <1>2, <1>3, SpecRouting, PTL DEF Spec
=============================================================================
