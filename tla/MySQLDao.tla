------------------------------- MODULE MySQLDao -------------------------------
(***************************************************************************)
(* The chat server's database access: the methods of MySQLDao that write   *)
(* the tables friend, friend_apply, chat_messages and                      *)
(* chat_message_relation, run by the logic threads on the pooled           *)
(* connections of MySQLConnectPool.                                        *)
(*                                                                         *)
(* A connection carries state from one method to the next: AddFriend sets  *)
(* its isolation level and switches autocommit off, and nobody switches it *)
(* on again.  Every later statement on that connection belongs to an open  *)
(* transaction, with its row locks, until the next AddFriend there commits *)
(* or rolls back, or the connection is lost.                               *)
(*                                                                         *)
(* A method is the sequence of its statements; a statement is one step.    *)
(***************************************************************************)
EXTENDS Naturals, Sequences, FiniteSets

CONSTANTS
  Threads,      \* threads of the logic pool
  Conns,        \* pooled connections
  Users,
  Msgs,         \* chat messages, all of one pair of users
  MaxRequests,  \* bound: requests handled
  MaxLost,      \* bound: connections that MySQL ends
  None

ASSUME MySQLDaoAssumption ==
  /\ IsFiniteSet(Conns)
  /\ MaxRequests \in Nat /\ MaxLost \in Nat
  /\ None \notin Conns

VARIABLES
  db,        \* the committed value of each row: 0 absent, 1 inserted, 2 updated
  pend,      \* the uncommitted rows of each connection, which it has locked
  snap,      \* the read view of a transaction under REPEATABLE READ
  session,   \* each connection: alive, autocommit, isolation level
  pool,      \* MySQLConnectPool::_pool
  todo,      \* the calls that each thread has still to do
  conn,      \* the connection that each thread has taken
  requests,  \* number of requests so far
  lost,      \* number of connections lost so far
  sent,      \* history: messages that were sent; a message is sent once
  timedOut,  \* history: a statement gave up waiting for a lock
  saved,     \* history: messages for which SaveChatMessage returned true
  confirmed  \* history: pairs for which AddFriend has returned

tables == <<db, pend, snap>>
history == <<sent, timedOut, saved, confirmed>>
vars == <<tables, session, pool, todo, conn, requests, lost, history>>

Friend(a, b) == <<"friend", a, b>>
Apply(a, b) == <<"apply", a, b>>
Msg(m) == <<"msg", m>>
Relation(m) == <<"rel", m>>

Pairs == {p \in Users \X Users : p[1] # p[2]}
Rows == {Friend(p[1], p[2]) : p \in Pairs} \cup {Apply(p[1], p[2]) : p \in Pairs}
          \cup {Msg(m) : m \in Msgs} \cup {Relation(m) : m \in Msgs}

NoRows == [r \in Rows |-> 0]
NoSnap == <<>>
Fresh == [alive |-> TRUE, auto |-> TRUE, iso |-> "RR"]   \* MySQL's defaults

Idle(t) == todo[t] = <<>>
Busy(t) == ~Idle(t)

TypeOK ==
  /\ db \in [Rows -> 0 .. 2] /\ pend \in [Conns -> [Rows -> 0 .. 2]]
  /\ snap \in [Conns -> [Rows -> 0 .. 2] \cup {NoSnap}]
  /\ session \in [Conns -> [alive: BOOLEAN, auto: BOOLEAN, iso: {"RR", "RC"}]]
  /\ conn \in [Threads -> Conns \cup {None}]
  /\ \A t \in Threads : Idle(t) => conn[t] = None
  /\ requests \in 0 .. MaxRequests /\ lost \in 0 .. MaxLost
  /\ timedOut \in BOOLEAN /\ sent \subseteq Msgs /\ saved \subseteq sent /\ confirmed \subseteq Pairs
  \* a connection is in the pool once, or with one thread
  /\ \A c \in Conns :
       Cardinality({i \in 1 .. Len(pool) : pool[i] = c})
         + Cardinality({t \in Threads : conn[t] = c}) = 1
  \* a row is locked by one transaction at a time, and by none with autocommit
  /\ \A r \in Rows : Cardinality({c \in Conns : pend[c][r] # 0}) <= 1
  /\ \A c \in Conns : session[c].auto => pend[c] = NoRows

Init ==
  /\ db = NoRows
  /\ pend = [c \in Conns |-> NoRows] /\ snap = [c \in Conns |-> NoSnap]
  /\ session = [c \in Conns |-> Fresh]
  /\ pool \in {s \in [1 .. Cardinality(Conns) -> Conns] : \A i, j \in DOMAIN s : s[i] = s[j] => i = j}
  /\ todo = [t \in Threads |-> <<>>] /\ conn = [t \in Threads |-> None]
  /\ requests = 0 /\ lost = 0
  /\ timedOut = FALSE /\ sent = {} /\ saved = {} /\ confirmed = {}

-----------------------------------------------------------------------------
(***************************************************************************)
(* The methods, as the statements they execute.                            *)
(***************************************************************************)
Stmt(do, rows) == [do |-> do, rows |-> rows]
Call(op, of, stmts) == [op |-> op, of |-> of, stmts |-> stmts]

\* COUNT(*), true if there is a row, else INSERT; from_to_uid is unique.
AddFriendApply(a, b) ==
  Call("AddFriendApply", <<a, b>>, <<Stmt("exists", {Apply(a, b)}), Stmt("insert", {Apply(a, b)})>>)

\* a accepts b's application.
AuthFriendApply(a, b) == Call("AuthFriendApply", <<a, b>>, <<Stmt("update", {Apply(b, a)})>>)

\* Mistakes: the two rows are inserted without a transaction; the isolation
\* level stays REPEATABLE READ; the transaction is not committed.
AddFriendAutocommit(a, b) ==
  Call("AddFriend", <<a, b>>,
       <<Stmt("isolation", {}), Stmt("ignore", {Friend(a, b)}), Stmt("ignore", {Friend(b, a)}),
         Stmt("commit", {})>>)

AddFriendRepeatable(a, b) ==
  Call("AddFriend", <<a, b>>,
       <<Stmt("begin", {}), Stmt("ignore", {Friend(a, b)}), Stmt("ignore", {Friend(b, a)}),
         Stmt("commit", {})>>)

AddFriendUncommitted(a, b) ==
  Call("AddFriend", <<a, b>>,
       <<Stmt("isolation", {}), Stmt("begin", {}), Stmt("ignore", {Friend(a, b)}),
         Stmt("ignore", {Friend(b, a)})>>)

\* READ COMMITTED, autocommit off, INSERT IGNORE in both directions, commit.
AddFriend(a, b) ==
  Call("AddFriend", <<a, b>>,
       <<Stmt("isolation", {}), Stmt("begin", {}), Stmt("ignore", {Friend(a, b)}),
         Stmt("ignore", {Friend(b, a)}), Stmt("commit", {})>>)

\* The message, then its row in chat_message_relation, which has no unique
\* key: ON DUPLICATE KEY UPDATE always inserts.
SaveChatMessage(m) ==
  Call("SaveChatMessage", <<m>>, <<Stmt("insert", {Msg(m)}), Stmt("insert", {Relation(m)})>>)

MarkMessagesAsRead ==
  Call("MarkMessagesAsRead", <<>>,
       <<Stmt("update", {Msg(m) : m \in Msgs}), Stmt("update", {Relation(m) : m \in Msgs})>>)

\* GetApplyList, GetFriendList, GetRecentMessages: one SELECT each.
GetRecords == Call("GetRecords", <<>>, <<Stmt("select", Rows)>>)

\* The calls of each handler, one after the other, whatever they return.
AddFriendApplyHandler(a, b) == <<AddFriendApply(a, b)>>
AuthFriendApplyHandler(a, b) == <<AuthFriendApply(a, b), AddFriend(a, b)>>
DealChatTextMsgHandler(m) == <<SaveChatMessage(m)>>
MarkMessagesRead == <<MarkMessagesAsRead>>
LoginHandler == <<GetRecords>>

-----------------------------------------------------------------------------
(***************************************************************************)
(* MySQL.                                                                  *)
(***************************************************************************)

\* What a SELECT on c sees: its own changes over its read view.
Base(c) == IF snap[c] = NoSnap THEN db ELSE snap[c]
View(c, r) == IF pend[c][r] # 0 THEN pend[c][r] ELSE Base(c)[r]

\* What INSERT and UPDATE find: the latest version.
Current(c, r) == IF pend[c][r] # 0 THEN pend[c][r] ELSE db[r]

\* The connections whose locks statement s on c waits for.  An UPDATE under
\* READ COMMITTED passes over rows of which there is no committed version.
Blockers(c, s) ==
  {d \in Conns \ {c} : \E r \in s.rows :
     /\ s.do \in {"insert", "ignore", "update"} /\ pend[d][r] # 0
     /\ s.do = "update" /\ session[c].iso = "RC" => db[r] # 0}

\* The rows that statement s changes.
Changed(c, s) ==
  {r \in s.rows : IF s.do = "update" THEN Current(c, r) # 0
                  ELSE s.do \in {"insert", "ignore"} /\ Current(c, r) = 0}

Put(rows, s, f) == [r \in Rows |-> IF r \in rows THEN IF s.do = "update" THEN 2 ELSE 1 ELSE f[r]]
Merge(f, g) == [r \in Rows |-> IF f[r] # 0 THEN f[r] ELSE g[r]]

\* The effect of s on the tables: at once with autocommit, else pending.
Effect(c, s) ==
  CASE s.do = "commit" ->
         /\ db' = Merge(pend[c], db)
         /\ pend' = [pend EXCEPT ![c] = NoRows] /\ snap' = [snap EXCEPT ![c] = NoSnap]
    [] s.do \in {"select", "exists"} ->
         /\ snap' = [snap EXCEPT ![c] =
              IF ~session[c].auto /\ session[c].iso = "RR" /\ @ = NoSnap THEN db ELSE @]
         /\ UNCHANGED <<db, pend>>
    [] s.do \in {"insert", "ignore", "update"} /\ session[c].auto ->
         /\ db' = Put(Changed(c, s), s, db)
         /\ UNCHANGED <<pend, snap>>
    [] s.do \in {"insert", "ignore", "update"} /\ ~session[c].auto ->
         /\ pend' = [pend EXCEPT ![c] = Put(Changed(c, s), s, @)]
         /\ UNCHANGED <<db, snap>>
    [] OTHER -> UNCHANGED tables

Rollback(c) ==
  /\ pend' = [pend EXCEPT ![c] = NoRows] /\ snap' = [snap EXCEPT ![c] = NoSnap]
  /\ UNCHANGED db

\* MySQL ends a connection: its transaction is rolled back.
Lose(c) ==
  /\ lost < MaxLost /\ session[c].alive
  /\ lost' = lost + 1
  /\ session' = [session EXCEPT ![c].alive = FALSE]
  /\ Rollback(c)
  /\ UNCHANGED <<pool, todo, conn, requests, history>>

-----------------------------------------------------------------------------
(***************************************************************************)
(* The threads.                                                            *)
(***************************************************************************)
CallOf(t) == Head(todo[t])
StmtOf(t) == Head(CallOf(t).stmts)
Runs(t) == Busy(t) /\ conn[t] # None /\ CallOf(t).stmts # <<>>
Waits(t) == Runs(t) /\ session[conn[t]].alive /\ Blockers(conn[t], StmtOf(t)) # {}

\* A request reaches a thread of the logic pool.
Begin(t, calls) ==
  /\ Idle(t) /\ requests < MaxRequests
  /\ requests' = requests + 1
  /\ todo' = [todo EXCEPT ![t] = calls]
  /\ UNCHANGED <<tables, session, pool, conn, lost, timedOut, saved, confirmed>>

BeginText(t, m) == m \notin sent /\ sent' = sent \cup {m} /\ Begin(t, DealChatTextMsgHandler(m))
BeginOther(t, calls) == UNCHANGED sent /\ Begin(t, calls)

\* getConnection; who finds none waits, see ConnPool.
GetConnection(t) ==
  /\ Busy(t) /\ conn[t] = None /\ pool # <<>>
  /\ conn' = [conn EXCEPT ![t] = Head(pool)] /\ pool' = Tail(pool)
  /\ UNCHANGED <<tables, session, todo, requests, lost, history>>

\* A statement that does not wait and does not fail; COUNT(*) > 0 returns.
Execute(t) ==
  LET c == conn[t]
      s == StmtOf(t)
      found == s.do = "exists" /\ \A r \in s.rows : View(c, r) # 0
  IN
  /\ Runs(t) /\ session[c].alive /\ Blockers(c, s) = {}
  /\ s.do = "insert" => Changed(c, s) = s.rows
  /\ Effect(c, s)
  /\ session' = CASE s.do = "isolation" -> [session EXCEPT ![c].iso = "RC"]
                  [] s.do = "begin" -> [session EXCEPT ![c].auto = FALSE]
                  [] OTHER -> session
  /\ todo' = [todo EXCEPT ![t][1].stmts = IF found THEN <<>> ELSE Tail(@)]
  /\ UNCHANGED <<pool, conn, requests, lost, history>>

\* Mistakes: the connection is not handed back; it is handed back twice.
ReturnNever(t) ==
  /\ pool' = pool
  /\ conn' = [conn EXCEPT ![t] = None]

ReturnTwice(t) ==
  /\ pool' = pool \o <<conn[t], conn[t]>>
  /\ conn' = [conn EXCEPT ![t] = None]

\* Defer: the connection goes back whatever happened.
Return(t) ==
  /\ pool' = Append(pool, conn[t])
  /\ conn' = [conn EXCEPT ![t] = None]

\* History: what the end of t's call tells its caller.
Report(t, ok) ==
  /\ saved' = IF ok /\ CallOf(t).op = "SaveChatMessage" THEN saved \cup {CallOf(t).of[1]} ELSE saved
  /\ confirmed' = IF CallOf(t).op = "AddFriend" THEN confirmed \cup {CallOf(t).of} ELSE confirmed

\* The method returns true.
Succeed(t) ==
  /\ Busy(t) /\ conn[t] # None /\ CallOf(t).stmts = <<>>
  /\ Return(t) /\ Report(t, TRUE)
  /\ todo' = [todo EXCEPT ![t] = Tail(@)]
  /\ UNCHANGED <<tables, session, requests, lost, sent, timedOut>>

\* A SQLException: the method returns false.  AddFriend rolls back first;
\* on a lost connection that throws again and ends the whole request.
Failed(t) ==
  /\ Return(t) /\ Report(t, FALSE)
  /\ todo' = [todo EXCEPT ![t] =
       IF CallOf(t).op = "AddFriend" /\ ~session[conn[t]].alive THEN <<>> ELSE Tail(@)]
  /\ UNCHANGED <<session, requests, lost, sent>>

\* What a failed statement leaves of the transaction.
AfterFailure(t) == IF CallOf(t).op = "AddFriend" THEN Rollback(conn[t]) ELSE UNCHANGED tables

\* The connection is gone, or the row is there already.
StatementFails(t) ==
  /\ Runs(t)
  /\ \/ ~session[conn[t]].alive
     \/ /\ StmtOf(t).do = "insert" /\ Blockers(conn[t], StmtOf(t)) = {}
        /\ Changed(conn[t], StmtOf(t)) # StmtOf(t).rows
  /\ AfterFailure(t) /\ Failed(t)
  /\ UNCHANGED timedOut

\* innodb_lock_wait_timeout: only the statement is undone.
LockTimeout(t) ==
  /\ Waits(t)
  /\ AfterFailure(t) /\ Failed(t)
  /\ timedOut' = TRUE

\* Two transactions wait for each other: MySQL rolls one of them back.
Deadlock(t) ==
  /\ Waits(t)
  /\ \E o \in Threads : /\ Waits(o)
                        /\ conn[o] \in Blockers(conn[t], StmtOf(t))
                        /\ conn[t] \in Blockers(conn[o], StmtOf(o))
  /\ Rollback(conn[t]) /\ Failed(t)
  /\ UNCHANGED timedOut

\* checkConnection, on an idle connection that is gone: a new one takes its
\* place.  A good one it only pings.
CheckConnection(c) ==
  /\ ~session[c].alive /\ \E i \in 1 .. Len(pool) : pool[i] = c
  /\ session' = [session EXCEPT ![c] = Fresh]
  /\ UNCHANGED <<tables, pool, todo, conn, requests, lost, history>>

Step(t) == GetConnection(t) \/ Execute(t) \/ Succeed(t) \/ StatementFails(t) \/ LockTimeout(t)
             \/ Deadlock(t)

Next ==
  \/ \E t \in Threads, p \in Pairs : \/ BeginOther(t, AddFriendApplyHandler(p[1], p[2]))
                                     \/ BeginOther(t, AuthFriendApplyHandler(p[1], p[2]))
  \/ \E t \in Threads, m \in Msgs : BeginText(t, m)
  \/ \E t \in Threads : BeginOther(t, MarkMessagesRead) \/ BeginOther(t, LoginHandler)
  \/ \E t \in Threads : Step(t)
  \/ \E c \in Conns : Lose(c) \/ CheckConnection(c)

\* A thread that can go on does, and a wait for a lock ends at the latest with
\* its timeout of 50 s.  Nobody is obliged to send requests.
Spec == Init /\ [][Next]_vars /\ \A t \in Threads : WF_vars(Step(t))

-----------------------------------------------------------------------------
\* Friendship is mutual in what anybody can read: AddFriend's two rows become
\* visible together, whatever fails between them and although the connection
\* may carry statements of earlier requests in the same transaction.
FriendsBothWays ==
  \A p \in Pairs : db[Friend(p[1], p[2])] # 0 <=> db[Friend(p[2], p[1])] # 0

\* Whoever has been confirmed is a friend.  Two users who confirm each other at
\* once lock the two rows in opposite order; MySQL rolls one of them back,
\* whose failure is only logged, and the other one inserts the rows for both.
\* Excepted are lost connections and waits that timed out.
ConfirmedAreFriends ==
  lost = 0 /\ ~timedOut /\ (\A t \in Threads : Idle(t)) =>
    \A p \in confirmed : db[Friend(p[1], p[2])] # 0 /\ db[Friend(p[2], p[1])] # 0

\* No connection reads from the past: the transactions that stay open on
\* pooled connections see what others have committed since, because AddFriend
\* changes the isolation level as well.
FreshReads == \A c \in Conns : session[c].alive => Base(c) = db

\* Every request ends, although idle connections in the pool hold row locks.
RequestsEnd == \A t \in Threads : Busy(t) ~> Idle(t)

\* "1. save to the database" (LogicSystem.cpp:500): a message for which
\* SaveChatMessage has returned true is in the database.
SavedIsDurable == \A m \in saved : db[Msg(m)] # 0
=============================================================================
