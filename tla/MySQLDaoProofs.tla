--------------------------- MODULE MySQLDaoProofs ---------------------------
(***************************************************************************)
(* Proofs about the chat server's database access, for any users, messages *)
(* and threads, any finite number of connections, and any number of lost   *)
(* connections.                                                            *)
(*                                                                         *)
(* What the tables show at the end of AddFriend depends on where each      *)
(* thread is in its statements and on what earlier requests left on the    *)
(* connection.  The invariant therefore follows AddFriend through its five *)
(* statements (AddInv), says whose uncommitted friend rows a connection    *)
(* can carry (PendInv), and that a connection has one user at a time       *)
(* (OwnInv), who alone changes its isolation level and autocommit.         *)
(***************************************************************************)
EXTENDS MySQLDao, FiniteSetTheorems, SequenceTheorems, TLAPS

\* What is left of the statements q after the first k.
Left(q, k) == SubSeq(q, k + 1, Len(q))

Rev(p) == <<p[2], p[1]>>
FriendRow(p) == Friend(p[1], p[2])
FriendRows == {FriendRow(p) : p \in Pairs}

\* AddFriend for p, with k of its statements done.
AddCall(p, k) == Call("AddFriend", p, Left(AddFriend(p[1], p[2]).stmts, k))
AddCalls == {AddCall(p, k) : p \in Pairs, k \in 0 .. 5}

\* The other methods write no friend rows and leave the session alone.
OtherStmts ==
  {s \in [do: {"exists", "select", "insert", "update"}, rows: SUBSET Rows] :
     s.do \in {"insert", "update"} => s.rows \cap FriendRows = {}}

OtherCalls ==
  [op: {"AddFriendApply", "AuthFriendApply", "SaveChatMessage", "MarkMessagesAsRead",
        "GetRecords"},
   of: Pairs \cup {<<m>> : m \in Msgs} \cup {<<>>}, stmts: Seq(OtherStmts)]

\* Thread t runs AddFriend for p and has done k statements.
InAdd(t, p, k) == Busy(t) /\ conn[t] # None /\ CallOf(t) = AddCall(p, k)

Types ==
  /\ db \in [Rows -> 0 .. 2] /\ pend \in [Conns -> [Rows -> 0 .. 2]]
  /\ snap = [c \in Conns |-> NoSnap]
  /\ session \in [Conns -> [alive: BOOLEAN, auto: BOOLEAN, iso: {"RR", "RC"}]]
  /\ requests \in 0 .. MaxRequests /\ lost \in 0 .. MaxLost
  /\ timedOut \in BOOLEAN /\ sent \subseteq Msgs /\ saved \subseteq sent
  /\ confirmed \subseteq Pairs

\* Every connection is in the pool once, or with one thread.
OwnInv ==
  /\ pool \in Seq(Conns)
  /\ conn \in [Threads -> Conns \cup {None}]
  /\ \A i, j \in 1 .. Len(pool) : pool[i] = pool[j] => i = j
  /\ \A t \in Threads, i \in 1 .. Len(pool) : conn[t] # pool[i]
  /\ \A t, u \in Threads : conn[t] # None /\ conn[t] = conn[u] => t = u
  /\ \A c \in Conns : (\E i \in 1 .. Len(pool) : pool[i] = c) \/ (\E t \in Threads : conn[t] = c)

\* What is left to do: a method begins on a connection with its first
\* statement, and only AddFriend is called after another one.
TodoInv ==
  /\ todo \in [Threads -> Seq(OtherCalls \cup AddCalls)]
  /\ \A t \in Threads :
       /\ Idle(t) => conn[t] = None
       /\ \A i \in 2 .. Len(todo[t]) : \E p \in Pairs : todo[t][i] = AddCall(p, 0)
       /\ Busy(t) /\ conn[t] = None /\ CallOf(t) \in AddCalls =>
            \E p \in Pairs : CallOf(t) = AddCall(p, 0)
       /\ Busy(t) /\ CallOf(t).op = "SaveChatMessage" => CallOf(t).of[1] \in sent

\* Autocommit is off only under READ COMMITTED; with it, or on a connection
\* that is gone, nothing is pending.
SessionInv ==
  \A c \in Conns :
    /\ ~session[c].auto => session[c].iso = "RC"
    /\ session[c].auto \/ ~session[c].alive => \A r \in Rows : pend[c][r] = 0
    /\ lost = 0 => session[c].alive

LockInv == \A c, d \in Conns, r \in Rows : pend[c][r] # 0 /\ pend[d][r] # 0 => c = d

\* What AddFriend has achieved after k statements.
AddOf(t) ==
  \A p \in Pairs, k \in 0 .. 5 : InAdd(t, p, k) =>
    /\ k >= 1 => session[conn[t]].iso = "RC"
    /\ k >= 2 => ~session[conn[t]].auto
    /\ k \in {3, 4} /\ session[conn[t]].alive => Current(conn[t], FriendRow(p)) # 0
    /\ k = 4 /\ session[conn[t]].alive => Current(conn[t], FriendRow(Rev(p))) # 0
    /\ k = 5 => db[FriendRow(p)] # 0 /\ db[FriendRow(Rev(p))] # 0

AddInv == \A t \in Threads : AddOf(t)

\* Whose friend rows are pending.
Inserting(t, p) == InAdd(t, p, 3) \/ InAdd(t, p, 4) \/ InAdd(t, Rev(p), 4)

PendInv ==
  \A c \in Conns, p \in Pairs : pend[c][FriendRow(p)] # 0 =>
    \E t \in Threads : conn[t] = c /\ Inserting(t, p)

\* A pair that has been confirmed are friends, or somebody is about to make
\* them friends.
Adding(t, p) == Busy(t) /\ CallOf(t).op = "AddFriend" /\ CallOf(t).of \in {p, Rev(p)}

ConfirmedInv ==
  lost = 0 /\ ~timedOut => \A p \in confirmed :
    \/ db[FriendRow(p)] # 0 /\ db[FriendRow(Rev(p))] # 0
    \/ \E t \in Threads : Adding(t, p)

DaoInv ==
  /\ Types /\ OwnInv /\ TodoInv /\ SessionInv /\ LockInv /\ AddInv /\ PendInv
  /\ FriendsBothWays /\ ConfirmedInv

-----------------------------------------------------------------------------
(***************************************************************************)
(* Rows, pairs and the statements of the methods.                          *)
(***************************************************************************)
LEMMA PairFacts ==
  ASSUME NEW p \in Pairs
  PROVE  /\ p = <<p[1], p[2]>> /\ Rev(p) \in Pairs /\ Rev(Rev(p)) = p
         /\ FriendRow(p) \in Rows /\ FriendRow(p) \in FriendRows
         /\ Friend(p[2], p[1]) = FriendRow(Rev(p))
         /\ Apply(p[1], p[2]) \in Rows \ FriendRows
         /\ Apply(p[2], p[1]) \in Rows \ FriendRows
<1>1. p \in Users \X Users /\ p[1] # p[2]
  BY DEF Pairs
<1>2. p = <<p[1], p[2]>> /\ p[1] \in Users /\ p[2] \in Users
  BY <1>1
<1>3. Rev(p) \in Pairs /\ Rev(p)[1] = p[2] /\ Rev(p)[2] = p[1] /\ Rev(Rev(p)) = p
  BY <1>1, <1>2 DEF Rev, Pairs
<1>4. FriendRow(p) \in Rows /\ FriendRow(p) \in FriendRows
  BY DEF Rows, FriendRow, FriendRows
<1>5. Friend(p[2], p[1]) = FriendRow(Rev(p))
  BY <1>3 DEF FriendRow
<1>6. Apply(p[1], p[2]) \in Rows /\ Apply(Rev(p)[1], Rev(p)[2]) \in Rows
  BY <1>3 DEF Rows
<1>7. \A a, b : Apply(a, b) \notin FriendRows
  BY DEF FriendRows, FriendRow, Friend, Apply
<1> QED
  BY <1>2, <1>3, <1>4, <1>5, <1>6, <1>7

LEMMA FriendRowInjective ==
  ASSUME NEW p \in Pairs, NEW q \in Pairs, FriendRow(p) = FriendRow(q)
  PROVE  p = q
<1>1. p[1] = q[1] /\ p[2] = q[2]
  BY DEF FriendRow, Friend
<1> QED
  BY <1>1, PairFacts

LEMMA MessageRows ==
  ASSUME NEW m \in Msgs
  PROVE  Msg(m) \in Rows \ FriendRows /\ Relation(m) \in Rows \ FriendRows
<1>1. Msg(m) \in Rows /\ Relation(m) \in Rows
  BY DEF Rows
<1>2. ASSUME NEW q \in Pairs PROVE Msg(m) # FriendRow(q) /\ Relation(m) # FriendRow(q)
  <2>1. Msg(m)[1] = "msg" /\ Relation(m)[1] = "rel" /\ FriendRow(q)[1] = "friend"
    BY DEF Msg, Relation, FriendRow, Friend
  <2> QED
    BY <2>1
<1> QED
  BY <1>1, <1>2 DEF FriendRows

\* The five statements of AddFriend.
LEMMA AddScript ==
  ASSUME NEW p \in Pairs
  PROVE  LET q == AddFriend(p[1], p[2]).stmts IN
         /\ Len(q) = 5 /\ q \in Seq([do: {"isolation", "begin", "ignore", "commit"},
                                     rows: SUBSET Rows])
         /\ q[1] = Stmt("isolation", {}) /\ q[2] = Stmt("begin", {})
         /\ q[3] = Stmt("ignore", {FriendRow(p)}) /\ q[4] = Stmt("ignore", {FriendRow(Rev(p))})
         /\ q[5] = Stmt("commit", {})
<1> DEFINE S == [do: {"isolation", "begin", "ignore", "commit"}, rows: SUBSET Rows]
           q == AddFriend(p[1], p[2]).stmts
<1>1. q = <<Stmt("isolation", {}), Stmt("begin", {}), Stmt("ignore", {FriendRow(p)}),
            Stmt("ignore", {FriendRow(Rev(p))}), Stmt("commit", {})>>
  BY PairFacts DEF AddFriend, Call, FriendRow
<1>2. /\ Stmt("isolation", {}) \in S /\ Stmt("begin", {}) \in S /\ Stmt("commit", {}) \in S
      /\ Stmt("ignore", {FriendRow(p)}) \in S /\ Stmt("ignore", {FriendRow(Rev(p))}) \in S
  BY PairFacts DEF Stmt
<1> HIDE DEF S
<1>3. q \in Seq(S)
  BY <1>1, <1>2
<1> QED
  BY <1>1, <1>3 DEF S

\* Doing one statement of a sequence after the other.
LEMMA LeftSteps ==
  ASSUME NEW S, NEW q \in Seq(S), NEW k \in 0 .. Len(q)
  PROVE  /\ Left(q, k) \in Seq(S) /\ Len(Left(q, k)) = Len(q) - k
         /\ \A i \in 1 .. Len(q) - k : Left(q, k)[i] = q[k + i]
         /\ k = Len(q) => Left(q, k) = <<>>
         /\ k < Len(q) => /\ Left(q, k) # <<>>
                          /\ Head(Left(q, k)) = q[k + 1]
                          /\ Tail(Left(q, k)) = Left(q, k + 1)
<1>1. Len(q) \in Nat /\ k \in Nat /\ k <= Len(q)
  OBVIOUS
<1>2. /\ Left(q, k) \in Seq(S) /\ Len(Left(q, k)) = Len(q) - k
      /\ \A i \in 1 .. Len(q) - k : Left(q, k)[i] = q[k + i]
  BY <1>1 DEF Left
<1>3. ASSUME k = Len(q) PROVE Left(q, k) = <<>>
  <2>1. Len(Left(q, k)) = 0
    BY <1>1, <1>2, <1>3
  <2> QED
    BY <1>2, <2>1
<1>4. ASSUME k < Len(q)
      PROVE  /\ Left(q, k) # <<>>
             /\ Head(Left(q, k)) = q[k + 1]
             /\ Tail(Left(q, k)) = Left(q, k + 1)
  <2>1. Left(q, k) # <<>> /\ Head(Left(q, k)) = q[k + 1]
    BY <1>1, <1>2, <1>4
  <2>2. /\ Left(q, k + 1) \in Seq(S) /\ Len(Left(q, k + 1)) = Len(q) - (k + 1)
        /\ \A i \in 1 .. Len(q) - (k + 1) : Left(q, k + 1)[i] = q[k + 1 + i]
    BY <1>1, <1>4 DEF Left
  <2>3. /\ Tail(Left(q, k)) \in Seq(S) /\ Len(Tail(Left(q, k))) = Len(q) - (k + 1)
        /\ \A i \in 1 .. Len(q) - (k + 1) : Tail(Left(q, k))[i] = Left(q, k)[i + 1]
    BY <1>1, <1>2, <1>4, <2>1
  <2>4. \A i \in 1 .. Len(q) - (k + 1) : Tail(Left(q, k))[i] = Left(q, k + 1)[i]
    <3> TAKE i \in 1 .. Len(q) - (k + 1)
    <3>1. i + 1 \in 1 .. Len(q) - k /\ k + (i + 1) = k + 1 + i
      BY <1>1
    <3> QED
      BY <1>2, <2>2, <2>3, <3>1
  <2>5. Tail(Left(q, k)) = Left(q, k + 1)
    BY <2>2, <2>3, <2>4, SeqEqual
  <2> QED
    BY <2>1, <2>5
<1> QED
  BY <1>2, <1>3, <1>4

\* What is left of AddFriend and which statement comes next.
LEMMA AddCallFacts ==
  ASSUME NEW p \in Pairs, NEW k \in 0 .. 5
  PROVE  LET a == AddCall(p, k) IN
         /\ a = [op |-> "AddFriend", of |-> p, stmts |-> a.stmts]
         /\ a.op = "AddFriend" /\ a.of = p /\ Len(a.stmts) = 5 - k
         /\ k = 5 => a.stmts = <<>>
         /\ k < 5 => /\ a.stmts # <<>>
                     /\ [a EXCEPT !.stmts = Tail(a.stmts)] = AddCall(p, k + 1)
                     /\ AddCall(p, k + 1) \in AddCalls
         /\ k = 0 => Head(a.stmts) = Stmt("isolation", {})
         /\ k = 1 => Head(a.stmts) = Stmt("begin", {})
         /\ k = 2 => Head(a.stmts) = Stmt("ignore", {FriendRow(p)})
         /\ k = 3 => Head(a.stmts) = Stmt("ignore", {FriendRow(Rev(p))})
         /\ k = 4 => Head(a.stmts) = Stmt("commit", {})
         /\ a \in AddCalls
<1> DEFINE q == AddFriend(p[1], p[2]).stmts
           S == [do: {"isolation", "begin", "ignore", "commit"}, rows: SUBSET Rows]
           a == AddCall(p, k)
<1>1. /\ Len(q) = 5 /\ q \in Seq(S)
      /\ q[1] = Stmt("isolation", {}) /\ q[2] = Stmt("begin", {})
      /\ q[3] = Stmt("ignore", {FriendRow(p)}) /\ q[4] = Stmt("ignore", {FriendRow(Rev(p))})
      /\ q[5] = Stmt("commit", {})
  BY AddScript
<1> HIDE DEF q, S
<1>2. /\ Len(Left(q, k)) = 5 - k
      /\ k = 5 => Left(q, k) = <<>>
      /\ k < 5 => Left(q, k) # <<>> /\ Head(Left(q, k)) = q[k + 1]
                  /\ Tail(Left(q, k)) = Left(q, k + 1)
  <2>1. k \in 0 .. Len(q)
    BY <1>1
  <2>2. /\ Len(Left(q, k)) = Len(q) - k
        /\ k = Len(q) => Left(q, k) = <<>>
        /\ k < Len(q) => Left(q, k) # <<>> /\ Head(Left(q, k)) = q[k + 1]
                         /\ Tail(Left(q, k)) = Left(q, k + 1)
    BY <1>1, <2>1, LeftSteps
  <2> QED
    BY <1>1, <2>2
<1>3. a = [op |-> "AddFriend", of |-> p, stmts |-> Left(q, k)]
  BY DEF AddCall, Call, q
<1>4. AddCall(p, k + 1) = [op |-> "AddFriend", of |-> p, stmts |-> Left(q, k + 1)]
  BY DEF AddCall, Call, q
<1>5. a.op = "AddFriend" /\ a.of = p /\ a.stmts = Left(q, k)
  BY <1>3
<1>6. ASSUME k < 5
      PROVE  [a EXCEPT !.stmts = Tail(a.stmts)] = AddCall(p, k + 1) /\ AddCall(p, k + 1) \in AddCalls
  <2>1. k + 1 \in 0 .. 5
    BY <1>6
  <2> QED
    BY <1>2, <1>3, <1>4, <1>5, <1>6, <2>1 DEF AddCalls
<1>7. a \in AddCalls
  BY DEF AddCalls
<1> QED
  BY <1>1, <1>2, <1>3, <1>5, <1>6, <1>7

LEMMA AddStmt ==
  ASSUME NEW p \in Pairs, NEW k \in 0 .. 5, AddCall(p, k).stmts # <<>>
  PROVE  LET s == Head(AddCall(p, k).stmts) IN
         \/ k = 0 /\ s.do = "isolation" /\ s.rows = {}
         \/ k = 1 /\ s.do = "begin" /\ s.rows = {}
         \/ k = 2 /\ s.do = "ignore" /\ s.rows = {FriendRow(p)}
         \/ k = 3 /\ s.do = "ignore" /\ s.rows = {FriendRow(Rev(p))}
         \/ k = 4 /\ s.do = "commit" /\ s.rows = {}
<1> DEFINE s == Head(AddCall(p, k).stmts)
<1>1. k \in {0, 1, 2, 3, 4}
  <2>1. k = 5 => AddCall(p, k).stmts = <<>>
    BY AddCallFacts
  <2> QED
    BY <2>1
<1>2. /\ k = 0 => s = Stmt("isolation", {})
      /\ k = 1 => s = Stmt("begin", {})
      /\ k = 2 => s = Stmt("ignore", {FriendRow(p)})
      /\ k = 3 => s = Stmt("ignore", {FriendRow(Rev(p))})
      /\ k = 4 => s = Stmt("commit", {})
  BY AddCallFacts
<1> HIDE DEF s
<1>3. \A d, R : Stmt(d, R).do = d /\ Stmt(d, R).rows = R
  BY DEF Stmt
<1>4. \/ k = 0 /\ s.do = "isolation" /\ s.rows = {}
      \/ k = 1 /\ s.do = "begin" /\ s.rows = {}
      \/ k = 2 /\ s.do = "ignore" /\ s.rows = {FriendRow(p)}
      \/ k = 3 /\ s.do = "ignore" /\ s.rows = {FriendRow(Rev(p))}
      \/ k = 4 /\ s.do = "commit" /\ s.rows = {}
  BY <1>1, <1>2, <1>3
<1> QED
  BY <1>4 DEF s

LEMMA AddCallInjective ==
  ASSUME NEW p \in Pairs, NEW k \in 0 .. 5, NEW q \in Pairs, NEW j \in 0 .. 5,
         AddCall(p, k) = AddCall(q, j)
  PROVE  p = q /\ k = j
<1>1. AddCall(p, k).of = p /\ Len(AddCall(p, k).stmts) = 5 - k
  BY AddCallFacts
<1>2. AddCall(q, j).of = q /\ Len(AddCall(q, j).stmts) = 5 - j
  BY AddCallFacts
<1> QED
  BY <1>1, <1>2

\* A call is AddFriend or another one, as its name says.
LEMMA CallKinds ==
  ASSUME NEW a \in OtherCalls \cup AddCalls
  PROVE  /\ a.op = "AddFriend" => \E p \in Pairs, k \in 0 .. 5 : a = AddCall(p, k) /\ a.of = p
         /\ a.op # "AddFriend" => a \in OtherCalls
         /\ a \in OtherCalls => a.op # "AddFriend"
         /\ a \in AddCalls => a.op = "AddFriend"
<1>1. a \in OtherCalls => a.op # "AddFriend"
  BY DEF OtherCalls
<1>2. a \in AddCalls => a.op = "AddFriend" /\ \E p \in Pairs, k \in 0 .. 5 : a = AddCall(p, k) /\ a.of = p
  <2> SUFFICES ASSUME a \in AddCalls
               PROVE  a.op = "AddFriend" /\ \E p \in Pairs, k \in 0 .. 5 : a = AddCall(p, k) /\ a.of = p
    OBVIOUS
  <2>1. PICK p \in Pairs, k \in 0 .. 5 : a = AddCall(p, k)
    BY DEF AddCalls
  <2>2. AddCall(p, k).op = "AddFriend" /\ AddCall(p, k).of = p
    BY AddCallFacts
  <2> QED
    BY <2>1, <2>2
<1> QED
  BY <1>1, <1>2

-----------------------------------------------------------------------------
\* The handlers: first a method from its first statement, then at most
\* AddFriend.
Startable(calls) ==
  /\ calls \in Seq(OtherCalls \cup AddCalls) /\ calls # <<>>
  /\ Head(calls) \in OtherCalls
  /\ \A i \in 2 .. Len(calls) : \E p \in Pairs : calls[i] = AddCall(p, 0)

LEMMA Alone ==
  ASSUME NEW a \in OtherCalls
  PROVE  Startable(<<a>>) /\ Head(<<a>>) = a
BY DEF Startable

LEMMA Handlers ==
  /\ \A p \in Pairs : Startable(AddFriendApplyHandler(p[1], p[2]))
                      /\ Head(AddFriendApplyHandler(p[1], p[2])).op # "SaveChatMessage"
  /\ \A p \in Pairs : Startable(AuthFriendApplyHandler(p[1], p[2]))
                      /\ Head(AuthFriendApplyHandler(p[1], p[2])).op # "SaveChatMessage"
  /\ \A m \in Msgs : Startable(DealChatTextMsgHandler(m))
                     /\ Head(DealChatTextMsgHandler(m)).of[1] = m
  /\ Startable(MarkMessagesRead) /\ Head(MarkMessagesRead).op # "SaveChatMessage"
  /\ Startable(LoginHandler) /\ Head(LoginHandler).op # "SaveChatMessage"
<1>0. ASSUME NEW d \in {"exists", "select", "insert", "update"}, NEW R \in SUBSET Rows,
             R \cap FriendRows = {} \/ d \in {"exists", "select"}
      PROVE  Stmt(d, R) \in OtherStmts
  BY <1>0 DEF Stmt, OtherStmts
<1>1. ASSUME NEW p \in Pairs
      PROVE  Startable(AddFriendApplyHandler(p[1], p[2]))
             /\ Head(AddFriendApplyHandler(p[1], p[2])).op # "SaveChatMessage"
  <2> DEFINE r == Apply(p[1], p[2])
  <2>1. r \in Rows \ FriendRows /\ <<p[1], p[2]>> \in Pairs
    BY PairFacts
  <2>2. Stmt("exists", {r}) \in OtherStmts /\ Stmt("insert", {r}) \in OtherStmts
    BY <1>0, <2>1
  <2> HIDE DEF r
  <2>3. <<Stmt("exists", {r}), Stmt("insert", {r})>> \in Seq(OtherStmts)
    BY <2>2
  <2>4. AddFriendApply(p[1], p[2]) \in OtherCalls
    BY <2>1, <2>3 DEF AddFriendApply, Call, OtherCalls, r
  <2>5. AddFriendApply(p[1], p[2]).op # "SaveChatMessage"
    BY DEF AddFriendApply, Call
  <2> QED
    BY <2>4, <2>5, Alone DEF AddFriendApplyHandler
<1>2. ASSUME NEW p \in Pairs
      PROVE  Startable(AuthFriendApplyHandler(p[1], p[2]))
             /\ Head(AuthFriendApplyHandler(p[1], p[2])).op # "SaveChatMessage"
  <2> DEFINE r == Apply(p[2], p[1])
             a == AuthFriendApply(p[1], p[2])
             b == AddFriend(p[1], p[2])
  <2>1. r \in Rows \ FriendRows /\ <<p[1], p[2]>> = p
    BY PairFacts
  <2>2. Stmt("update", {r}) \in OtherStmts
    BY <1>0, <2>1
  <2> HIDE DEF r
  <2>3. <<Stmt("update", {r})>> \in Seq(OtherStmts)
    BY <2>2
  <2>4. a \in OtherCalls /\ a.op # "SaveChatMessage"
    BY <2>1, <2>3 DEF AuthFriendApply, Call, OtherCalls, r
  <2>5. b = AddCall(p, 0)
    <3> DEFINE q == AddFriend(p[1], p[2]).stmts
               S == [do: {"isolation", "begin", "ignore", "commit"}, rows: SUBSET Rows]
    <3>1. q \in Seq(S) /\ Len(q) = 5
      BY AddScript
    <3> HIDE DEF q, S
    <3>2. Left(q, 0) = q
      <4>1. /\ Left(q, 0) \in Seq(S) /\ Len(Left(q, 0)) = 5
            /\ \A i \in 1 .. 5 : Left(q, 0)[i] = q[i]
        <5>1. 0 \in 0 .. Len(q)
          BY <3>1
        <5>2. /\ Left(q, 0) \in Seq(S) /\ Len(Left(q, 0)) = Len(q) - 0
              /\ \A i \in 1 .. Len(q) - 0 : Left(q, 0)[i] = q[0 + i]
          BY <3>1, <5>1, LeftSteps
        <5> QED
          BY <3>1, <5>2
      <4> QED
        BY <3>1, <4>1, SeqEqual
    <3>3. b = [op |-> "AddFriend", of |-> <<p[1], p[2]>>, stmts |-> q]
      BY DEF AddFriend, Call, q
    <3> QED
      BY <2>1, <3>2, <3>3 DEF AddCall, Call, q
  <2>6. b \in AddCalls
    BY <2>5 DEF AddCalls
  <2> HIDE DEF a, b
  <2>7. /\ <<a, b>> \in Seq(OtherCalls \cup AddCalls) /\ Head(<<a, b>>) = a /\ <<a, b>> # <<>>
        /\ \A i \in 2 .. Len(<<a, b>>) : <<a, b>>[i] = b
    BY <2>4, <2>6
  <2>8. AuthFriendApplyHandler(p[1], p[2]) = <<a, b>>
    BY DEF AuthFriendApplyHandler, a, b
  <2> QED
    BY <2>4, <2>5, <2>7, <2>8 DEF Startable
<1>3. ASSUME NEW m \in Msgs
      PROVE  Startable(DealChatTextMsgHandler(m)) /\ Head(DealChatTextMsgHandler(m)).of[1] = m
  <2>1. Msg(m) \in Rows \ FriendRows /\ Relation(m) \in Rows \ FriendRows
    BY MessageRows
  <2>2. Stmt("insert", {Msg(m)}) \in OtherStmts /\ Stmt("insert", {Relation(m)}) \in OtherStmts
    BY <1>0, <2>1
  <2>3. <<Stmt("insert", {Msg(m)}), Stmt("insert", {Relation(m)})>> \in Seq(OtherStmts)
    BY <2>2
  <2>4. SaveChatMessage(m) \in OtherCalls /\ SaveChatMessage(m).of = <<m>>
    BY <2>3 DEF SaveChatMessage, Call, OtherCalls
  <2> QED
    BY <2>4, Alone DEF DealChatTextMsgHandler
<1>4. Startable(MarkMessagesRead) /\ Head(MarkMessagesRead).op # "SaveChatMessage"
  <2> DEFINE M == {Msg(m) : m \in Msgs}
             R == {Relation(m) : m \in Msgs}
  <2>1. M \subseteq Rows /\ M \cap FriendRows = {} /\ R \subseteq Rows /\ R \cap FriendRows = {}
    BY MessageRows
  <2> HIDE DEF M, R
  <2>2. Stmt("update", M) \in OtherStmts /\ Stmt("update", R) \in OtherStmts
    BY <1>0, <2>1
  <2>3. <<Stmt("update", M), Stmt("update", R)>> \in Seq(OtherStmts)
    BY <2>2
  <2>4. MarkMessagesAsRead \in OtherCalls /\ MarkMessagesAsRead.op # "SaveChatMessage"
    BY <2>3 DEF MarkMessagesAsRead, Call, OtherCalls, M, R
  <2> QED
    BY <2>4, Alone DEF MarkMessagesRead
<1>5. Startable(LoginHandler) /\ Head(LoginHandler).op # "SaveChatMessage"
  <2>1. Stmt("select", Rows) \in OtherStmts
    BY <1>0
  <2>2. <<Stmt("select", Rows)>> \in Seq(OtherStmts)
    BY <2>1
  <2>3. GetRecords \in OtherCalls /\ GetRecords.op # "SaveChatMessage"
    BY <2>2 DEF GetRecords, Call, OtherCalls
  <2> QED
    BY <2>3, Alone DEF LoginHandler
<1> QED
  BY <1>1, <1>2, <1>3, <1>4, <1>5

-----------------------------------------------------------------------------
(***************************************************************************)
(* What a step of one thread leaves to the others.                         *)
(***************************************************************************)

\* The step concerns thread t and the connections in C only, and no row
\* disappears.
Touches(t, C) ==
  /\ \A u \in Threads \ {t} : todo'[u] = todo[u] /\ conn'[u] = conn[u]
  /\ \A d \in Conns \ C : session'[d] = session[d] /\ pend'[d] = pend[d]
  /\ \A r \in Rows : db[r] # 0 => db'[r] # 0

LEMMA OthersCalls ==
  ASSUME NEW t \in Threads, NEW C, Touches(t, C), NEW u \in Threads \ {t}
  PROVE  /\ conn'[u] = conn[u] /\ (Busy(u)' <=> Busy(u))
         /\ \A p, k : InAdd(u, p, k)' <=> InAdd(u, p, k)
         /\ \A p : (Inserting(u, p)' <=> Inserting(u, p)) /\ (Adding(u, p)' <=> Adding(u, p))
<1>1. todo'[u] = todo[u] /\ conn'[u] = conn[u]
  BY DEF Touches
<1>2. (Busy(u)' <=> Busy(u)) /\ CallOf(u)' = CallOf(u)
  BY <1>1 DEF Busy, Idle, CallOf
<1>3. \A p, k : InAdd(u, p, k)' <=> InAdd(u, p, k)
  BY <1>1, <1>2 DEF InAdd
<1>4. \A p : Inserting(u, p)' <=> Inserting(u, p)
  BY <1>3 DEF Inserting
<1>5. \A p : Adding(u, p)' <=> Adding(u, p)
  BY <1>2 DEF Adding
<1> QED
  BY <1>1, <1>2, <1>3, <1>4, <1>5

LEMMA OthersKeep ==
  ASSUME DaoInv, NEW t \in Threads, NEW C \in SUBSET Conns, Touches(t, C),
         \A u \in Threads \ {t} : conn[u] \notin C,
         \A p \in Pairs, k \in 0 .. 5 : InAdd(t, p, k) => conn[t] \in C
  PROVE  /\ \A u \in Threads \ {t} : AddOf(u)'
         /\ \A d \in Conns \ C, p \in Pairs : pend'[d][FriendRow(p)] # 0 =>
              \E w \in Threads : conn'[w] = d /\ Inserting(w, p)'
<1>0. conn \in [Threads -> Conns \cup {None}] /\ AddInv /\ PendInv
  BY DEF DaoInv, OwnInv
<1>1. ASSUME NEW u \in Threads \ {t} PROVE AddOf(u)'
  <2> SUFFICES ASSUME NEW p \in Pairs, NEW k \in 0 .. 5, InAdd(u, p, k)'
               PROVE  /\ k >= 1 => session'[conn'[u]].iso = "RC"
                      /\ k >= 2 => ~session'[conn'[u]].auto
                      /\ k \in {3, 4} /\ session'[conn'[u]].alive =>
                           Current(conn[u], FriendRow(p))' # 0
                      /\ k = 4 /\ session'[conn'[u]].alive =>
                           Current(conn[u], FriendRow(Rev(p)))' # 0
                      /\ k = 5 => db'[FriendRow(p)] # 0 /\ db'[FriendRow(Rev(p))] # 0
    BY DEF AddOf
  <2>1. InAdd(u, p, k) /\ conn'[u] = conn[u]
    BY OthersCalls
  <2>2. conn[u] \in Conns \ C
    BY <1>0, <2>1 DEF InAdd
  <2>3. session'[conn[u]] = session[conn[u]] /\ pend'[conn[u]] = pend[conn[u]]
    BY <2>2 DEF Touches
  <2>4. FriendRow(p) \in Rows /\ FriendRow(Rev(p)) \in Rows
    BY PairFacts
  <2>5. \A r \in Rows : Current(conn[u], r) # 0 => Current(conn[u], r)' # 0
    BY <2>1, <2>3 DEF Touches, Current
  <2>6. /\ k >= 1 => session[conn[u]].iso = "RC"
        /\ k >= 2 => ~session[conn[u]].auto
        /\ k \in {3, 4} /\ session[conn[u]].alive => Current(conn[u], FriendRow(p)) # 0
        /\ k = 4 /\ session[conn[u]].alive => Current(conn[u], FriendRow(Rev(p))) # 0
        /\ k = 5 => db[FriendRow(p)] # 0 /\ db[FriendRow(Rev(p))] # 0
    BY <1>0, <2>1 DEF AddInv, AddOf
  <2>7. k = 5 => db'[FriendRow(p)] # 0 /\ db'[FriendRow(Rev(p))] # 0
    BY <2>4, <2>6 DEF Touches
  <2> QED
    BY <2>1, <2>3, <2>4, <2>5, <2>6, <2>7
<1>2. ASSUME NEW d \in Conns \ C, NEW p \in Pairs, pend'[d][FriendRow(p)] # 0
      PROVE  \E w \in Threads : conn'[w] = d /\ Inserting(w, p)'
  <2>1. pend[d][FriendRow(p)] # 0
    BY <1>2 DEF Touches
  <2>2. PICK w \in Threads : conn[w] = d /\ Inserting(w, p)
    BY <1>0, <2>1 DEF PendInv
  <2>3. w # t
    BY <2>2, PairFacts DEF Inserting
  <2> QED
    BY <2>2, <2>3, OthersCalls
<1> QED
  BY <1>1, <1>2

\* Whoever is said to be about to make two users friends still is, or they are.
LEMMA ConfirmedKept ==
  ASSUME DaoInv, NEW t \in Threads, NEW C, Touches(t, C), confirmed' = confirmed,
         lost' = 0 => lost = 0, timedOut => timedOut',
         \A p \in Pairs : Adding(t, p) => Adding(t, p)'
  PROVE  ConfirmedInv'
<1> SUFFICES ASSUME lost' = 0, ~timedOut', NEW p \in confirmed
             PROVE  \/ db'[FriendRow(p)] # 0 /\ db'[FriendRow(Rev(p))] # 0
                    \/ \E u \in Threads : Adding(u, p)'
  BY DEF ConfirmedInv
<1>1. p \in Pairs
  BY DEF DaoInv, Types
<1>2. \/ db[FriendRow(p)] # 0 /\ db[FriendRow(Rev(p))] # 0
      \/ \E u \in Threads : Adding(u, p)
  BY DEF DaoInv, ConfirmedInv
<1>3. FriendRow(p) \in Rows /\ FriendRow(Rev(p)) \in Rows
  BY <1>1, PairFacts
<1> QED
  BY <1>1, <1>2, <1>3, OthersCalls DEF Touches

-----------------------------------------------------------------------------
(***************************************************************************)
(* A request arrives; a thread gets a connection.                          *)
(***************************************************************************)
LEMMA BeginInv ==
  ASSUME DaoInv, NEW t \in Threads, NEW calls, Startable(calls), Begin(t, calls),
         sent \subseteq sent', sent' \subseteq Msgs,
         Head(calls).op = "SaveChatMessage" => Head(calls).of[1] \in sent'
  PROVE  DaoInv'
<1>0. /\ DaoInv /\ Types /\ OwnInv /\ TodoInv /\ SessionInv /\ LockInv /\ AddInv /\ PendInv
      /\ FriendsBothWays /\ ConfirmedInv
  BY DEF DaoInv
<1>1. /\ db' = db /\ pend' = pend /\ snap' = snap /\ session' = session /\ pool' = pool
      /\ conn' = conn /\ lost' = lost /\ timedOut' = timedOut /\ saved' = saved
      /\ confirmed' = confirmed /\ requests' = requests + 1 /\ requests < MaxRequests
      /\ Idle(t) /\ todo' = [todo EXCEPT ![t] = calls]
  BY DEF Begin, tables
<1>2. /\ todo \in [Threads -> Seq(OtherCalls \cup AddCalls)] /\ conn[t] = None
      /\ calls \in Seq(OtherCalls \cup AddCalls) /\ calls # <<>> /\ Head(calls) \in OtherCalls
  BY <1>0, <1>1 DEF TodoInv, Startable
<1>3. /\ todo' \in [Threads -> Seq(OtherCalls \cup AddCalls)]
      /\ todo'[t] = calls /\ \A u \in Threads \ {t} : todo'[u] = todo[u]
  BY <1>1, <1>2
<1>4. Types'
  BY <1>0, <1>1, MySQLDaoAssumption DEF Types
<1>5. OwnInv' /\ SessionInv' /\ LockInv' /\ FriendsBothWays'
  BY <1>0, <1>1 DEF OwnInv, SessionInv, LockInv, FriendsBothWays
<1>6. TodoInv'
  <2>1. ASSUME NEW u \in Threads \ {t}
        PROVE  /\ Idle(u)' => conn'[u] = None
               /\ \A i \in 2 .. Len(todo'[u]) : \E p \in Pairs : todo'[u][i] = AddCall(p, 0)
               /\ Busy(u)' /\ conn'[u] = None /\ CallOf(u)' \in AddCalls =>
                    \E p \in Pairs : CallOf(u)' = AddCall(p, 0)
               /\ Busy(u)' /\ CallOf(u)'.op = "SaveChatMessage" => CallOf(u)'.of[1] \in sent'
    BY <1>0, <1>1, <1>3 DEF TodoInv, Idle, Busy, CallOf
  <2>2. /\ Idle(t)' => conn'[t] = None
        /\ \A i \in 2 .. Len(todo'[t]) : \E p \in Pairs : todo'[t][i] = AddCall(p, 0)
        /\ CallOf(t)' \notin AddCalls
        /\ Busy(t)' /\ CallOf(t)'.op = "SaveChatMessage" => CallOf(t)'.of[1] \in sent'
    BY <1>1, <1>2, <1>3, CallKinds DEF Startable, CallOf
  <2> QED
    BY <1>3, <2>1, <2>2 DEF TodoInv
<1>7. Touches(t, {}) /\ \A p, k : ~InAdd(t, p, k) /\ ~InAdd(t, p, k)'
  BY <1>1, <1>2, <1>3 DEF Touches, InAdd
<1>8. /\ \A u \in Threads \ {t} : AddOf(u)'
      /\ \A d \in Conns, p \in Pairs : pend'[d][FriendRow(p)] # 0 =>
           \E w \in Threads : conn'[w] = d /\ Inserting(w, p)'
  <2>1. /\ \A u \in Threads \ {t} : AddOf(u)'
        /\ \A d \in Conns \ {}, p \in Pairs : pend'[d][FriendRow(p)] # 0 =>
             \E w \in Threads : conn'[w] = d /\ Inserting(w, p)'
    BY <1>0, <1>7, OthersKeep
  <2> QED
    BY <2>1
<1>9. AddInv' /\ PendInv'
  BY <1>7, <1>8 DEF AddInv, AddOf, PendInv
<1>10. ConfirmedInv'
  <2>1. \A p \in Pairs : ~Adding(t, p)
    BY <1>1 DEF Adding, Busy
  <2> QED
    BY <1>0, <1>1, <1>7, <2>1, ConfirmedKept
<1> QED
  BY <1>4, <1>5, <1>6, <1>9, <1>10 DEF DaoInv

LEMMA GetConnectionInv == \A t \in Threads : DaoInv /\ GetConnection(t) => DaoInv'
<1> SUFFICES ASSUME NEW t \in Threads, DaoInv, GetConnection(t) PROVE DaoInv'
  OBVIOUS
<1>0. /\ Types /\ OwnInv /\ TodoInv /\ SessionInv /\ LockInv /\ AddInv /\ PendInv
      /\ FriendsBothWays /\ ConfirmedInv
  BY DEF DaoInv
<1>1. /\ db' = db /\ pend' = pend /\ snap' = snap /\ session' = session /\ todo' = todo
      /\ requests' = requests /\ lost' = lost /\ sent' = sent /\ timedOut' = timedOut
      /\ saved' = saved /\ confirmed' = confirmed
      /\ Busy(t) /\ conn[t] = None /\ pool # <<>>
      /\ conn' = [conn EXCEPT ![t] = Head(pool)] /\ pool' = Tail(pool)
  BY DEF GetConnection, tables, history
<1>2. /\ pool \in Seq(Conns) /\ Len(pool) \in Nat /\ Len(pool) > 0 /\ Head(pool) = pool[1]
      /\ pool' \in Seq(Conns) /\ Len(pool') = Len(pool) - 1 /\ Head(pool) \in Conns
      /\ \A i \in 1 .. Len(pool) - 1 : pool'[i] = pool[i + 1]
  BY <1>0, <1>1 DEF OwnInv
<1>3. /\ conn \in [Threads -> Conns \cup {None}] /\ conn' \in [Threads -> Conns \cup {None}]
      /\ conn'[t] = pool[1] /\ \A u \in Threads \ {t} : conn'[u] = conn[u]
  BY <1>0, <1>1, <1>2 DEF OwnInv
<1>4. OwnInv'
  <2>1. \A i, j \in 1 .. Len(pool') : pool'[i] = pool'[j] => i = j
    BY <1>0, <1>2 DEF OwnInv
  <2>2. \A u \in Threads, i \in 1 .. Len(pool') : conn'[u] # pool'[i]
    <3> TAKE u \in Threads, i \in 1 .. Len(pool')
    <3>1. i + 1 \in 1 .. Len(pool) /\ i + 1 # 1 /\ pool'[i] = pool[i + 1] /\ 1 \in 1 .. Len(pool)
      BY <1>2
    <3> QED
      BY <1>0, <1>3, <3>1 DEF OwnInv
  <2>3. \A u, v \in Threads : conn'[u] # None /\ conn'[u] = conn'[v] => u = v
    <3>1. \A u \in Threads : conn[u] # pool[1]
      BY <1>0, <1>2 DEF OwnInv
    <3> QED
      BY <1>0, <1>3, <3>1 DEF OwnInv
  <2>4. ASSUME NEW c \in Conns
        PROVE  (\E i \in 1 .. Len(pool') : pool'[i] = c) \/ (\E u \in Threads : conn'[u] = c)
    <3>1. CASE \E u \in Threads : conn[u] = c
      <4>1. PICK u \in Threads : conn[u] = c
        BY <3>1
      <4>2. u # t
        BY <1>1, <4>1, MySQLDaoAssumption
      <4> QED
        BY <1>3, <4>1, <4>2
    <3>2. CASE \E i \in 1 .. Len(pool) : pool[i] = c
      <4>1. PICK i \in 1 .. Len(pool) : pool[i] = c
        BY <3>2
      <4>2. CASE i = 1
        BY <1>3, <4>1, <4>2
      <4>3. CASE i # 1
        <5>1. i - 1 \in 1 .. Len(pool') /\ pool'[i - 1] = c
          BY <1>2, <4>1, <4>3
        <5> QED
          BY <5>1
      <4> QED
        BY <4>2, <4>3
    <3> QED
      BY <1>0, <3>1, <3>2 DEF OwnInv
  <2> QED
    BY <1>2, <1>3, <2>1, <2>2, <2>3, <2>4 DEF OwnInv
<1>5. Types' /\ SessionInv' /\ LockInv' /\ FriendsBothWays'
  BY <1>0, <1>1 DEF Types, SessionInv, LockInv, FriendsBothWays
<1>6. conn'[t] # None
  BY <1>2, <1>3, MySQLDaoAssumption
<1>7. TodoInv'
  BY <1>0, <1>1, <1>3, <1>6 DEF TodoInv, Idle, Busy, CallOf
<1>8. /\ Touches(t, {}) /\ (\A p, k : ~InAdd(t, p, k))
      /\ \A p \in Pairs, k \in 0 .. 5 : InAdd(t, p, k)' => k = 0
  <2>1. Touches(t, {}) /\ \A p, k : ~InAdd(t, p, k)
    BY <1>1, <1>3 DEF Touches, InAdd
  <2>2. ASSUME NEW p \in Pairs, NEW k \in 0 .. 5, InAdd(t, p, k)' PROVE k = 0
    <3>1. CallOf(t) = AddCall(p, k)
      BY <1>1, <2>2 DEF InAdd, CallOf
    <3>2. CallOf(t) \in AddCalls
      BY <3>1, AddCallFacts
    <3>3. PICK q \in Pairs : CallOf(t) = AddCall(q, 0)
      BY <1>0, <1>1, <3>2 DEF TodoInv
    <3>4. AddCall(p, k) = AddCall(q, 0) /\ 0 \in 0 .. 5
      BY <3>1, <3>3
    <3> QED
      BY <3>4, AddCallInjective
  <2> QED
    BY <2>1, <2>2
<1>9. /\ \A u \in Threads \ {t} : AddOf(u)'
      /\ \A d \in Conns, p \in Pairs : pend'[d][FriendRow(p)] # 0 =>
           \E w \in Threads : conn'[w] = d /\ Inserting(w, p)'
  <2>1. /\ \A u \in Threads \ {t} : AddOf(u)'
        /\ \A d \in Conns \ {}, p \in Pairs : pend'[d][FriendRow(p)] # 0 =>
             \E w \in Threads : conn'[w] = d /\ Inserting(w, p)'
    BY <1>8, OthersKeep
  <2> QED
    BY <2>1
<1>10. AddOf(t)'
  BY <1>8 DEF AddOf
<1>11. AddInv' /\ PendInv'
  BY <1>9, <1>10 DEF AddInv, PendInv
<1>12. ConfirmedInv'
  <2>1. \A p \in Pairs : Adding(t, p) => Adding(t, p)'
    BY <1>1 DEF Adding, Busy, Idle, CallOf
  <2> QED
    BY <1>1, <1>8, <2>1, ConfirmedKept
<1> QED
  BY <1>4, <1>5, <1>7, <1>11, <1>12 DEF DaoInv

-----------------------------------------------------------------------------
(***************************************************************************)
(* The end of a method, however it ends.                                   *)
(***************************************************************************)

\* The statement a busy thread is at, and what it has still to do.
LEMMA BusyFacts ==
  ASSUME DaoInv, NEW t \in Threads, Busy(t)
  PROVE  /\ todo[t] \in Seq(OtherCalls \cup AddCalls) /\ Len(todo[t]) \in Nat /\ Len(todo[t]) > 0
         /\ CallOf(t) = todo[t][1] /\ CallOf(t) \in OtherCalls \cup AddCalls
         /\ Tail(todo[t]) \in Seq(OtherCalls \cup AddCalls)
         /\ Len(Tail(todo[t])) = Len(todo[t]) - 1
         /\ \A i \in 1 .. Len(todo[t]) - 1 : Tail(todo[t])[i] = todo[t][i + 1]
<1>1. todo[t] \in Seq(OtherCalls \cup AddCalls) /\ todo[t] # <<>>
  BY DEF DaoInv, TodoInv, Busy, Idle
<1> QED
  BY <1>1 DEF CallOf

LEMMA ConnFacts ==
  ASSUME DaoInv, NEW t \in Threads, conn[t] # None
  PROVE  /\ conn[t] \in Conns
         /\ session[conn[t]] \in [alive: BOOLEAN, auto: BOOLEAN, iso: {"RR", "RC"}]
         /\ pend[conn[t]] \in [Rows -> 0 .. 2]
         /\ \A u \in Threads \ {t} : conn[u] # conn[t]
BY DEF DaoInv, OwnInv, Types

\* A connection's pending friend rows are those of the thread that has it.
LEMMA OwnPend ==
  ASSUME DaoInv, NEW t \in Threads, conn[t] # None, NEW q \in Pairs,
         pend[conn[t]][FriendRow(q)] # 0
  PROVE  Inserting(t, q)
<1>1. conn[t] \in Conns /\ \A u \in Threads \ {t} : conn[u] # conn[t]
  BY ConnFacts
<1>2. \E u \in Threads : conn[u] = conn[t] /\ Inserting(u, q)
  BY <1>1 DEF DaoInv, PendInv
<1> QED
  BY <1>1, <1>2

\* The method is over: the connection goes back to the pool, without friend
\* rows pending, and the next method begins or the request is done.
Ends(t) ==
  /\ Busy(t) /\ conn[t] # None /\ Return(t)
  /\ \E rest \in {Tail(todo[t]), <<>>} : todo' = [todo EXCEPT ![t] = rest]
  /\ db' = db /\ snap' = snap /\ session' = session
  /\ pend' \in [Conns -> [Rows -> 0 .. 2]]
  /\ \A d \in Conns \ {conn[t]} : pend'[d] = pend[d]
  /\ \A r \in Rows : pend'[conn[t]][r] # 0 => pend[conn[t]][r] # 0
  /\ \A p \in Pairs : pend'[conn[t]][FriendRow(p)] = 0
  /\ requests' = requests /\ lost' = lost /\ sent' = sent
  /\ timedOut' \in BOOLEAN
  /\ CallOf(t).op # "SaveChatMessage" => saved' = saved
  /\ saved' \in {saved, saved \cup {CallOf(t).of[1]}}
  /\ confirmed' = IF CallOf(t).op = "AddFriend" THEN confirmed \cup {CallOf(t).of} ELSE confirmed

LEMMA EndsInv ==
  ASSUME DaoInv, NEW t \in Threads, Ends(t), ConfirmedInv'
  PROVE  DaoInv'
<1>0. /\ Types /\ OwnInv /\ TodoInv /\ SessionInv /\ LockInv /\ AddInv /\ PendInv
      /\ FriendsBothWays
  BY DEF DaoInv
<1> DEFINE c == conn[t]
<1>1. /\ Busy(t) /\ c # None /\ c \in Conns /\ \A u \in Threads \ {t} : conn[u] # c
  BY ConnFacts DEF Ends
<1>2. /\ conn \in [Threads -> Conns \cup {None}] /\ conn' \in [Threads -> Conns \cup {None}]
      /\ conn'[t] = None /\ \A u \in Threads \ {t} : conn'[u] = conn[u]
  BY <1>0 DEF OwnInv, Ends, Return
<1>3. PICK rest \in {Tail(todo[t]), <<>>} : todo' = [todo EXCEPT ![t] = rest]
  BY DEF Ends
<1>4. /\ rest \in Seq(OtherCalls \cup AddCalls)
      /\ \A i \in 1 .. Len(rest) : \E p \in Pairs : rest[i] = AddCall(p, 0)
  <2>1. CASE rest = <<>>
    BY <2>1
  <2>2. CASE rest = Tail(todo[t])
    <3>1. /\ rest \in Seq(OtherCalls \cup AddCalls) /\ Len(rest) = Len(todo[t]) - 1
          /\ Len(todo[t]) \in Nat
          /\ \A i \in 1 .. Len(todo[t]) - 1 : rest[i] = todo[t][i + 1]
      BY <1>1, <2>2, BusyFacts
    <3>2. \A i \in 2 .. Len(todo[t]) : \E p \in Pairs : todo[t][i] = AddCall(p, 0)
      BY <1>0 DEF TodoInv
    <3>3. ASSUME NEW i \in 1 .. Len(rest) PROVE \E p \in Pairs : rest[i] = AddCall(p, 0)
      <4>1. i + 1 \in 2 .. Len(todo[t]) /\ rest[i] = todo[t][i + 1]
        BY <3>1
      <4> QED
        BY <3>2, <4>1
    <3> QED
      BY <3>1, <3>3
  <2> QED
    BY <2>1, <2>2
<1>5. /\ todo \in [Threads -> Seq(OtherCalls \cup AddCalls)]
      /\ todo' \in [Threads -> Seq(OtherCalls \cup AddCalls)]
      /\ todo'[t] = rest /\ \A u \in Threads \ {t} : todo'[u] = todo[u]
  BY <1>0, <1>3, <1>4 DEF TodoInv
<1>6. TodoInv'
  <2>1. ASSUME NEW u \in Threads \ {t}
        PROVE  /\ Idle(u)' => conn'[u] = None
               /\ \A i \in 2 .. Len(todo'[u]) : \E p \in Pairs : todo'[u][i] = AddCall(p, 0)
               /\ Busy(u)' /\ conn'[u] = None /\ CallOf(u)' \in AddCalls =>
                    \E p \in Pairs : CallOf(u)' = AddCall(p, 0)
               /\ Busy(u)' /\ CallOf(u)'.op = "SaveChatMessage" => CallOf(u)'.of[1] \in sent'
    BY <1>0, <1>2, <1>5 DEF TodoInv, Idle, Busy, CallOf, Ends
  <2>2. \A i \in 2 .. Len(todo'[t]) : \E p \in Pairs : todo'[t][i] = AddCall(p, 0)
    BY <1>4, <1>5
  <2>3. Busy(t)' => \E p \in Pairs : CallOf(t)' = AddCall(p, 0)
    <3> SUFFICES ASSUME Busy(t)' PROVE \E p \in Pairs : CallOf(t)' = AddCall(p, 0)
      OBVIOUS
    <3>1. rest # <<>>
      BY <1>5 DEF Busy, Idle
    <3>2. 1 \in 1 .. Len(rest) /\ Head(rest) = rest[1]
      BY <1>4, <3>1
    <3> QED
      BY <1>4, <1>5, <3>2 DEF CallOf
  <2>4. Busy(t)' => CallOf(t)'.op # "SaveChatMessage"
    <3>1. 0 \in 0 .. 5
      OBVIOUS
    <3>2. \A p \in Pairs : AddCall(p, 0).op = "AddFriend"
      BY <3>1, AddCallFacts
    <3> QED
      BY <2>3, <3>2
  <2> QED
    BY <1>2, <1>5, <2>1, <2>2, <2>3, <2>4 DEF TodoInv
<1>7. OwnInv'
  <2>1. /\ pool \in Seq(Conns) /\ Len(pool) \in Nat /\ pool' = Append(pool, c)
    BY <1>0 DEF OwnInv, Ends, Return
  <2>2. /\ pool' \in Seq(Conns) /\ Len(pool') = Len(pool) + 1 /\ pool'[Len(pool) + 1] = c
        /\ \A i \in 1 .. Len(pool) : pool'[i] = pool[i]
    BY <1>1, <2>1
  <2>3. \A i \in 1 .. Len(pool) : pool[i] # c /\ \A u \in Threads : conn[u] # pool[i]
    BY <1>0 DEF OwnInv
  <2>4. \A i \in 1 .. Len(pool') : i = Len(pool) + 1 \/ i \in 1 .. Len(pool)
    BY <2>1, <2>2
  <2>5. \A i, j \in 1 .. Len(pool') : pool'[i] = pool'[j] => i = j
    BY <1>0, <2>2, <2>3, <2>4 DEF OwnInv
  <2>6. \A u \in Threads, i \in 1 .. Len(pool') : conn'[u] # pool'[i]
    <3> TAKE u \in Threads, i \in 1 .. Len(pool')
    <3>1. pool'[i] \in Conns
      BY <2>2
    <3>2. CASE u = t
      BY <1>2, <3>1, <3>2, MySQLDaoAssumption
    <3>3. CASE u # t
      BY <1>1, <1>2, <2>2, <2>3, <2>4, <3>3
    <3> QED
      BY <3>2, <3>3
  <2>7. \A u, v \in Threads : conn'[u] # None /\ conn'[u] = conn'[v] => u = v
    BY <1>0, <1>2 DEF OwnInv
  <2>8. ASSUME NEW d \in Conns
        PROVE  (\E i \in 1 .. Len(pool') : pool'[i] = d) \/ (\E u \in Threads : conn'[u] = d)
    <3>1. CASE d = c
      <4>1. Len(pool) + 1 \in 1 .. Len(pool')
        BY <2>1, <2>2
      <4> QED
        BY <2>2, <3>1, <4>1
    <3>2. CASE \E u \in Threads \ {t} : conn[u] = d
      BY <1>2, <3>2
    <3>3. CASE \E i \in 1 .. Len(pool) : pool[i] = d
      <4>1. \A i \in 1 .. Len(pool) : i \in 1 .. Len(pool')
        BY <2>1, <2>2
      <4> QED
        BY <2>2, <3>3, <4>1
    <3> QED
      BY <1>0, <3>1, <3>2, <3>3 DEF OwnInv
  <2> QED
    BY <1>2, <2>2, <2>5, <2>6, <2>7, <2>8 DEF OwnInv
<1>8. Types'
  <2>1. saved' \subseteq sent'
    <3>1. CASE CallOf(t).op = "SaveChatMessage"
      BY <1>0, <1>1, <3>1 DEF Types, TodoInv, Ends
    <3>2. CASE CallOf(t).op # "SaveChatMessage"
      BY <1>0, <3>2 DEF Types, Ends
    <3> QED
      BY <3>1, <3>2
  <2>2. confirmed' \subseteq Pairs
    <3>1. CallOf(t).op = "AddFriend" => CallOf(t).of \in Pairs
      BY <1>1, BusyFacts, CallKinds
    <3> QED
      BY <1>0, <3>1 DEF Types, Ends
  <2> QED
    BY <1>0, <2>1, <2>2 DEF Types, Ends
<1>9. SessionInv' /\ LockInv' /\ FriendsBothWays'
  <2>1. \A d \in Conns, r \in Rows : pend'[d][r] # 0 => pend[d][r] # 0
    BY DEF Ends
  <2> QED
    BY <1>0, <2>1 DEF SessionInv, LockInv, FriendsBothWays, Ends
<1>10. Touches(t, {c})
  BY <1>2, <1>5 DEF Touches, Ends
<1>11. /\ \A u \in Threads \ {t} : AddOf(u)'
       /\ \A d \in Conns \ {c}, p \in Pairs : pend'[d][FriendRow(p)] # 0 =>
            \E w \in Threads : conn'[w] = d /\ Inserting(w, p)'
  BY <1>1, <1>10, OthersKeep
<1>12. AddInv' /\ PendInv'
  <2>1. AddOf(t)'
    BY <1>2 DEF AddOf, InAdd
  <2>2. \A p \in Pairs : pend'[c][FriendRow(p)] = 0
    BY DEF Ends
  <2> QED
    BY <1>11, <2>1, <2>2 DEF AddInv, PendInv
<1> QED
  BY <1>6, <1>7, <1>8, <1>9, <1>12 DEF DaoInv

\* An AddFriend that is over has made its pair friends, or somebody else is
\* about to.
LEMMA ConfirmedEnds ==
  ASSUME DaoInv, NEW t \in Threads, Ends(t), timedOut => timedOut',
         lost = 0 /\ ~timedOut' /\ CallOf(t).op = "AddFriend" =>
           \/ db[FriendRow(CallOf(t).of)] # 0 /\ db[FriendRow(Rev(CallOf(t).of))] # 0
           \/ \E w \in Threads \ {t} : Adding(w, CallOf(t).of)
  PROVE  ConfirmedInv'
<1> SUFFICES ASSUME lost' = 0, ~timedOut', NEW q \in confirmed'
             PROVE  \/ db'[FriendRow(q)] # 0 /\ db'[FriendRow(Rev(q))] # 0
                    \/ \E u \in Threads : Adding(u, q)'
  BY DEF ConfirmedInv
<1>0. lost = 0 /\ ~timedOut /\ db' = db /\ Busy(t)
  BY DEF Ends
<1>1. confirmed \subseteq Pairs /\ todo \in [Threads -> Seq(OtherCalls \cup AddCalls)]
      /\ conn \in [Threads -> Conns \cup {None}]
  BY DEF DaoInv, Types, TodoInv, OwnInv
<1>2. \A u \in Threads \ {t} : todo'[u] = todo[u] /\ conn'[u] = conn[u]
  BY <1>1 DEF Ends, Return
<1>3. \A u \in Threads \ {t}, p \in Pairs : Adding(u, p) => Adding(u, p)'
  BY <1>2 DEF Adding, Busy, Idle, CallOf
<1>4. ASSUME CallOf(t).op = "AddFriend", CallOf(t).of \in {q, Rev(q)}, q \in Pairs
      PROVE  \/ db'[FriendRow(q)] # 0 /\ db'[FriendRow(Rev(q))] # 0
             \/ \E u \in Threads : Adding(u, q)'
  <2> DEFINE p == CallOf(t).of
  <2>1. Rev(q) \in Pairs /\ Rev(Rev(q)) = q
    BY <1>4, PairFacts
  <2>2. p \in {q, Rev(q)} /\ Rev(p) \in {q, Rev(q)} /\ {p, Rev(p)} = {q, Rev(q)} /\ p \in Pairs
    BY <1>4, <2>1
  <2> HIDE DEF p
  <2>3. CASE db[FriendRow(p)] # 0 /\ db[FriendRow(Rev(p))] # 0
    <3>1. p = q \/ (p = Rev(q) /\ Rev(p) = q)
      BY <2>1, <2>2
    <3> QED
      BY <1>0, <2>3, <3>1
  <2>4. CASE \E w \in Threads \ {t} : Adding(w, p)
    <3>1. PICK w \in Threads \ {t} : Adding(w, p)
      BY <2>4
    <3>2. Adding(w, q)
      BY <2>2, <3>1 DEF Adding
    <3> QED
      BY <1>3, <1>4, <3>2
  <2> QED
    BY <1>0, <1>4, <2>3, <2>4 DEF p
<1>5. CASE q \in confirmed
  <2>1. \/ db[FriendRow(q)] # 0 /\ db[FriendRow(Rev(q))] # 0
        \/ \E u \in Threads : Adding(u, q)
    BY <1>0, <1>5 DEF DaoInv, ConfirmedInv
  <2>2. q \in Pairs
    BY <1>1, <1>5
  <2>3. CASE \E u \in Threads \ {t} : Adding(u, q)
    BY <1>3, <2>2, <2>3
  <2>4. CASE Adding(t, q)
    BY <1>4, <2>2, <2>4 DEF Adding
  <2> QED
    BY <1>0, <2>1, <2>3, <2>4
<1>6. CASE q \notin confirmed
  <2>1. CallOf(t).op = "AddFriend" /\ q = CallOf(t).of
    BY <1>6 DEF Ends
  <2>2. q \in Pairs
    BY <1>0, <2>1, BusyFacts, CallKinds
  <2> QED
    BY <1>4, <2>1, <2>2
<1> QED
  BY <1>5, <1>6

LEMMA SucceedInv == \A t \in Threads : DaoInv /\ Succeed(t) => DaoInv'
<1> SUFFICES ASSUME NEW t \in Threads, DaoInv, Succeed(t) PROVE DaoInv'
  OBVIOUS
<1>0. /\ Busy(t) /\ conn[t] # None /\ CallOf(t).stmts = <<>> /\ conn[t] \in Conns
      /\ CallOf(t) \in OtherCalls \cup AddCalls
  BY BusyFacts, ConnFacts DEF Succeed
<1>1. ASSUME NEW p \in Pairs, NEW k \in 0 .. 5, InAdd(t, p, k) PROVE k = 5
  <2>1. Len(CallOf(t).stmts) = 5 - k
    BY <1>1, AddCallFacts DEF InAdd
  <2> QED
    BY <1>0, <2>1
<1>2. \A p \in Pairs : pend[conn[t]][FriendRow(p)] = 0
  <2>1. \A p \in Pairs : ~Inserting(t, p)
    BY <1>1, PairFacts DEF Inserting
  <2> QED
    BY <1>0, <2>1, OwnPend
<1>3. Ends(t)
  <2>1. /\ db' = db /\ pend' = pend /\ snap' = snap /\ session' = session
        /\ requests' = requests /\ lost' = lost /\ sent' = sent /\ timedOut' = timedOut
        /\ todo' = [todo EXCEPT ![t] = Tail(todo[t])] /\ Return(t) /\ Report(t, TRUE)
    BY DEF Succeed, tables
  <2>2. pend \in [Conns -> [Rows -> 0 .. 2]] /\ timedOut \in BOOLEAN
    BY DEF DaoInv, Types
  <2>3. /\ CallOf(t).op # "SaveChatMessage" => saved' = saved
        /\ saved' \in {saved, saved \cup {CallOf(t).of[1]}}
        /\ confirmed' = IF CallOf(t).op = "AddFriend" THEN confirmed \cup {CallOf(t).of} ELSE confirmed
    BY <2>1 DEF Report
  <2> QED
    BY <1>0, <1>2, <2>1, <2>2, <2>3 DEF Ends
<1>4. ConfirmedInv'
  <2>1. ASSUME CallOf(t).op = "AddFriend"
        PROVE  db[FriendRow(CallOf(t).of)] # 0 /\ db[FriendRow(Rev(CallOf(t).of))] # 0
    <3>1. PICK p \in Pairs, k \in 0 .. 5 : CallOf(t) = AddCall(p, k) /\ CallOf(t).of = p
      BY <1>0, <2>1, CallKinds
    <3>2. InAdd(t, p, k)
      BY <1>0, <3>1 DEF InAdd
    <3>3. k = 5
      BY <1>1, <3>2
    <3>4. AddOf(t)
      BY DEF DaoInv, AddInv
    <3> QED
      BY <3>1, <3>2, <3>3, <3>4 DEF AddOf
  <2>2. timedOut' = timedOut
    BY DEF Succeed
  <2> QED
    BY <1>3, <2>1, <2>2, ConfirmedEnds
<1> QED
  BY <1>3, <1>4, EndsInv

\* A failed method: AddFriend rolls back, the others leave their connection's
\* transaction as it is.
LEMMA FailedEnds ==
  ASSUME DaoInv, NEW t \in Threads, Runs(t), Failed(t), timedOut' \in BOOLEAN,
         AfterFailure(t) \/ Rollback(conn[t])
  PROVE  Ends(t)
<1>0. /\ Busy(t) /\ conn[t] # None /\ conn[t] \in Conns
      /\ CallOf(t) \in OtherCalls \cup AddCalls
  BY BusyFacts, ConnFacts DEF Runs
<1>1. /\ pend \in [Conns -> [Rows -> 0 .. 2]] /\ snap = [c \in Conns |-> NoSnap]
  BY DEF DaoInv, Types
<1>2. /\ session' = session /\ requests' = requests /\ lost' = lost /\ sent' = sent
      /\ Return(t) /\ Report(t, FALSE)
      /\ \E rest \in {Tail(todo[t]), <<>>} : todo' = [todo EXCEPT ![t] = rest]
  BY DEF Failed
<1>3. /\ CallOf(t).op # "SaveChatMessage" => saved' = saved
      /\ saved' \in {saved, saved \cup {CallOf(t).of[1]}}
      /\ confirmed' = IF CallOf(t).op = "AddFriend" THEN confirmed \cup {CallOf(t).of} ELSE confirmed
  BY <1>2 DEF Report
<1>4. /\ db' = db /\ snap' = snap
      /\ pend' \in [Conns -> [Rows -> 0 .. 2]]
      /\ \A d \in Conns \ {conn[t]} : pend'[d] = pend[d]
      /\ \A r \in Rows : pend'[conn[t]][r] # 0 => pend[conn[t]][r] # 0
      /\ \A p \in Pairs : pend'[conn[t]][FriendRow(p)] = 0
  <2>1. CASE Rollback(conn[t])
    <3>1. db' = db /\ pend' = [pend EXCEPT ![conn[t]] = NoRows] /\ snap' = [snap EXCEPT ![conn[t]] = NoSnap]
      BY <2>1 DEF Rollback
    <3>2. NoRows \in [Rows -> 0 .. 2] /\ \A r \in Rows : NoRows[r] = 0
      BY DEF NoRows
    <3>3. snap' = snap
      BY <1>0, <1>1, <3>1
    <3>4. \A p \in Pairs : FriendRow(p) \in Rows
      BY PairFacts
    <3>5. /\ pend' \in [Conns -> [Rows -> 0 .. 2]] /\ pend'[conn[t]] = NoRows
          /\ \A d \in Conns \ {conn[t]} : pend'[d] = pend[d]
      BY <1>0, <1>1, <3>1, <3>2
    <3> QED
      BY <3>1, <3>2, <3>3, <3>4, <3>5
  <2>2. CASE CallOf(t).op # "AddFriend" /\ UNCHANGED tables
    <3>1. \A p \in Pairs : ~Inserting(t, p)
      <4>1. ASSUME NEW p \in Pairs, NEW k \in 0 .. 5, InAdd(t, p, k) PROVE FALSE
        <5>1. AddCall(p, k).op = "AddFriend"
          BY AddCallFacts
        <5> QED
          BY <2>2, <4>1, <5>1 DEF InAdd
      <4> QED
        BY <4>1, PairFacts DEF Inserting
    <3>2. \A p \in Pairs : pend[conn[t]][FriendRow(p)] = 0
      BY <1>0, <3>1, OwnPend
    <3> QED
      BY <1>1, <2>2, <3>2 DEF tables
  <2> QED
    BY <2>1, <2>2 DEF AfterFailure
<1> QED
  BY <1>0, <1>2, <1>3, <1>4 DEF Ends

LEMMA StatementFailsInv == \A t \in Threads : DaoInv /\ StatementFails(t) => DaoInv'
<1> SUFFICES ASSUME NEW t \in Threads, DaoInv, StatementFails(t) PROVE DaoInv'
  OBVIOUS
<1>0. Runs(t) /\ Failed(t) /\ AfterFailure(t) /\ timedOut' = timedOut /\ timedOut' \in BOOLEAN
  BY DEF StatementFails, DaoInv, Types
<1>1. Ends(t)
  BY <1>0, FailedEnds
<1>2. ConfirmedInv'
  <2>1. ASSUME lost = 0, CallOf(t).op = "AddFriend" PROVE FALSE
    <3>1. Busy(t) /\ conn[t] \in Conns /\ CallOf(t).stmts # <<>>
          /\ CallOf(t) \in OtherCalls \cup AddCalls
      BY <1>0, BusyFacts, ConnFacts DEF Runs
    <3>2. session[conn[t]].alive
      BY <2>1, <3>1 DEF DaoInv, SessionInv
    <3>3. StmtOf(t).do = "insert"
      BY <3>2 DEF StatementFails
    <3>4. PICK p \in Pairs, k \in 0 .. 5 : CallOf(t) = AddCall(p, k)
      BY <2>1, <3>1, CallKinds
    <3>5. AddCall(p, k).stmts # <<>>
      BY <3>1, <3>4
    <3>6. Head(AddCall(p, k).stmts).do \in {"isolation", "begin", "ignore", "commit"}
      BY <3>5, AddStmt
    <3> QED
      BY <3>3, <3>4, <3>6 DEF StmtOf
  <2> QED
    BY <1>0, <1>1, <2>1, ConfirmedEnds
<1> QED
  BY <1>1, <1>2, EndsInv

LEMMA LockTimeoutInv == \A t \in Threads : DaoInv /\ LockTimeout(t) => DaoInv'
<1> SUFFICES ASSUME NEW t \in Threads, DaoInv, LockTimeout(t) PROVE DaoInv'
  OBVIOUS
<1>0. Runs(t) /\ Failed(t) /\ AfterFailure(t) /\ timedOut' = TRUE
  BY DEF LockTimeout, Waits
<1>1. Ends(t)
  BY <1>0, FailedEnds
<1>2. ConfirmedInv'
  BY <1>0 DEF ConfirmedInv
<1> QED
  BY <1>1, <1>2, EndsInv

\* The one that is rolled back waited for a row that only AddFriend inserts,
\* for the same two users: that one goes on.
LEMMA DeadlockInv == \A t \in Threads : DaoInv /\ Deadlock(t) => DaoInv'
<1> SUFFICES ASSUME NEW t \in Threads, DaoInv, Deadlock(t) PROVE DaoInv'
  OBVIOUS
<1>0. /\ Runs(t) /\ Failed(t) /\ Rollback(conn[t]) /\ timedOut' = timedOut /\ timedOut' \in BOOLEAN
      /\ Blockers(conn[t], StmtOf(t)) # {}
  BY DEF Deadlock, Waits, DaoInv, Types
<1>1. Ends(t)
  BY <1>0, FailedEnds
<1>2. ConfirmedInv'
  <2>1. ASSUME CallOf(t).op = "AddFriend"
        PROVE  \E w \in Threads \ {t} : Adding(w, CallOf(t).of)
    <3>1. Busy(t) /\ conn[t] \in Conns /\ CallOf(t).stmts # <<>>
          /\ CallOf(t) \in OtherCalls \cup AddCalls
      BY <1>0, BusyFacts, ConnFacts DEF Runs
    <3>2. PICK p \in Pairs, k \in 0 .. 5 : CallOf(t) = AddCall(p, k) /\ CallOf(t).of = p
      BY <2>1, <3>1, CallKinds
    <3>3. PICK d \in Conns \ {conn[t]}, r \in StmtOf(t).rows :
            StmtOf(t).do \in {"insert", "ignore", "update"} /\ pend[d][r] # 0
      BY <1>0 DEF Blockers
    <3>4. StmtOf(t).rows = {FriendRow(p)} \/ StmtOf(t).rows = {FriendRow(Rev(p))}
      <4>2. StmtOf(t) = Head(AddCall(p, k).stmts) /\ AddCall(p, k).stmts # <<>>
        BY <3>1, <3>2 DEF StmtOf
      <4>3. \/ Head(AddCall(p, k).stmts).do \in {"isolation", "begin", "commit"}
            \/ Head(AddCall(p, k).stmts).rows = {FriendRow(p)}
            \/ Head(AddCall(p, k).stmts).rows = {FriendRow(Rev(p))}
        BY <4>2, AddStmt
      <4> QED
        BY <3>3, <4>2, <4>3
    <3>5. PICK q \in {p, Rev(p)} : r = FriendRow(q)
      BY <3>3, <3>4
    <3>6. q \in Pairs /\ Rev(q) \in {p, Rev(p)} /\ p \in {q, Rev(q)} /\ Rev(q) \in Pairs
      BY <3>5, PairFacts
    <3>7. PICK w \in Threads : conn[w] = d /\ Inserting(w, q)
      BY <3>3, <3>5, <3>6 DEF DaoInv, PendInv
    <3>8. Busy(w) /\ CallOf(w).op = "AddFriend" /\ CallOf(w).of \in {q, Rev(q)}
      <4>1. \A k1 \in {3, 4} : k1 \in 0 .. 5
        OBVIOUS
      <4>2. /\ AddCall(q, 3).op = "AddFriend" /\ AddCall(q, 3).of = q
            /\ AddCall(q, 4).op = "AddFriend" /\ AddCall(q, 4).of = q
            /\ AddCall(Rev(q), 4).op = "AddFriend" /\ AddCall(Rev(q), 4).of = Rev(q)
        BY <3>6, <4>1, AddCallFacts
      <4> QED
        BY <3>7, <4>2 DEF Inserting, InAdd
    <3>9. CallOf(w).of \in {p, Rev(p)}
      BY <3>5, <3>6, <3>8
    <3> QED
      BY <3>2, <3>3, <3>7, <3>8, <3>9 DEF Adding
  <2> QED
    BY <1>0, <1>1, <2>1, ConfirmedEnds
<1> QED
  BY <1>1, <1>2, EndsInv

-----------------------------------------------------------------------------
(***************************************************************************)
(* Connections are lost and replaced.                                      *)
(***************************************************************************)

\* A lost connection has nothing pending; what its thread has inserted in
\* this AddFriend is gone, and its next statement will fail.
LEMMA LoseInv == \A c \in Conns : DaoInv /\ Lose(c) => DaoInv'
<1> SUFFICES ASSUME NEW c \in Conns, DaoInv, Lose(c) PROVE DaoInv'
  OBVIOUS
<1>0. /\ Types /\ OwnInv /\ TodoInv /\ SessionInv /\ LockInv /\ AddInv /\ PendInv
      /\ FriendsBothWays
  BY DEF DaoInv
<1>1. /\ pool' = pool /\ todo' = todo /\ conn' = conn /\ requests' = requests /\ sent' = sent
      /\ timedOut' = timedOut /\ saved' = saved /\ confirmed' = confirmed /\ db' = db
      /\ lost < MaxLost /\ lost' = lost + 1
      /\ session' = [session EXCEPT ![c].alive = FALSE]
      /\ pend' = [pend EXCEPT ![c] = NoRows] /\ snap' = [snap EXCEPT ![c] = NoSnap]
  BY DEF Lose, Rollback, history
<1>2. /\ session \in [Conns -> [alive: BOOLEAN, auto: BOOLEAN, iso: {"RR", "RC"}]]
      /\ pend \in [Conns -> [Rows -> 0 .. 2]] /\ snap = [d \in Conns |-> NoSnap]
      /\ lost \in 0 .. MaxLost
  BY <1>0 DEF Types
<1>3. /\ session' \in [Conns -> [alive: BOOLEAN, auto: BOOLEAN, iso: {"RR", "RC"}]]
      /\ ~session'[c].alive /\ (session'[c].auto <=> session[c].auto) /\ session'[c].iso = session[c].iso
      /\ \A d \in Conns \ {c} : session'[d] = session[d]
  <2>1. session[c] \in [alive: BOOLEAN, auto: BOOLEAN, iso: {"RR", "RC"}]
    BY <1>2
  <2>2. /\ [session[c] EXCEPT !.alive = FALSE] \in [alive: BOOLEAN, auto: BOOLEAN, iso: {"RR", "RC"}]
        /\ ~[session[c] EXCEPT !.alive = FALSE].alive
        /\ [session[c] EXCEPT !.alive = FALSE].auto <=> session[c].auto
        /\ [session[c] EXCEPT !.alive = FALSE].iso = session[c].iso
    BY <2>1
  <2> QED
    BY <1>1, <1>2, <2>2
<1>4. /\ pend' \in [Conns -> [Rows -> 0 .. 2]] /\ snap' = snap
      /\ \A r \in Rows : pend'[c][r] = 0
      /\ \A d \in Conns \ {c} : pend'[d] = pend[d]
  <2>1. NoRows \in [Rows -> 0 .. 2] /\ \A r \in Rows : NoRows[r] = 0
    BY DEF NoRows
  <2> QED
    BY <1>1, <1>2, <2>1
<1>5. Types'
  <2>1. lost' \in 0 .. MaxLost
    BY <1>1, <1>2, MySQLDaoAssumption
  <2> QED
    BY <1>0, <1>1, <1>3, <1>4, <2>1 DEF Types
<1>6. OwnInv' /\ FriendsBothWays'
  BY <1>0, <1>1 DEF OwnInv, FriendsBothWays
<1>7. TodoInv'
  BY <1>0, <1>1 DEF TodoInv, Idle, Busy, CallOf
<1>8. lost' # 0
  BY <1>1, <1>2, MySQLDaoAssumption
<1>9. SessionInv' /\ LockInv'
  <2>1. ASSUME NEW d \in Conns
        PROVE  /\ ~session'[d].auto => session'[d].iso = "RC"
               /\ session'[d].auto \/ ~session'[d].alive => \A r \in Rows : pend'[d][r] = 0
    <3>1. CASE d = c
      BY <1>0, <1>3, <1>4, <3>1 DEF SessionInv
    <3>2. CASE d # c
      BY <1>0, <1>3, <1>4, <3>2 DEF SessionInv
    <3> QED
      BY <3>1, <3>2
  <2>2. LockInv'
    BY <1>0, <1>4 DEF LockInv
  <2> QED
    BY <1>8, <2>1, <2>2 DEF SessionInv
<1>10. \A t \in Threads : \A p, k : InAdd(t, p, k)' <=> InAdd(t, p, k)
  BY <1>1 DEF InAdd, Busy, Idle, CallOf
<1>11. AddInv'
  <2> SUFFICES ASSUME NEW t \in Threads, NEW p \in Pairs, NEW k \in 0 .. 5, InAdd(t, p, k)
               PROVE  /\ k >= 1 => session'[conn[t]].iso = "RC"
                      /\ k >= 2 => ~session'[conn[t]].auto
                      /\ k \in {3, 4} /\ session'[conn[t]].alive =>
                           Current(conn[t], FriendRow(p))' # 0
                      /\ k = 4 /\ session'[conn[t]].alive =>
                           Current(conn[t], FriendRow(Rev(p)))' # 0
                      /\ k = 5 => db'[FriendRow(p)] # 0 /\ db'[FriendRow(Rev(p))] # 0
    BY <1>1, <1>10 DEF AddInv, AddOf
  <2>1. conn[t] \in Conns
    BY ConnFacts DEF InAdd
  <2>2. /\ k >= 1 => session[conn[t]].iso = "RC"
        /\ k >= 2 => ~session[conn[t]].auto
        /\ k \in {3, 4} /\ session[conn[t]].alive => Current(conn[t], FriendRow(p)) # 0
        /\ k = 4 /\ session[conn[t]].alive => Current(conn[t], FriendRow(Rev(p))) # 0
        /\ k = 5 => db[FriendRow(p)] # 0 /\ db[FriendRow(Rev(p))] # 0
    BY <1>0 DEF AddInv, AddOf
  <2>3. CASE conn[t] = c
    BY <1>1, <1>3, <2>2, <2>3
  <2>4. CASE conn[t] # c
    BY <1>1, <1>3, <1>4, <2>1, <2>2, <2>4 DEF Current
  <2> QED
    BY <2>3, <2>4
<1>12. PendInv'
  <2>1. \A t \in Threads, p \in Pairs : Inserting(t, p)' <=> Inserting(t, p)
    BY <1>10 DEF Inserting
  <2>2. \A p \in Pairs : FriendRow(p) \in Rows
    BY PairFacts
  <2>3. \A d \in Conns, p \in Pairs : pend'[d][FriendRow(p)] # 0 => pend[d][FriendRow(p)] # 0
    BY <1>4, <2>2
  <2> QED
    BY <1>0, <1>1, <2>1, <2>3 DEF PendInv
<1>13. ConfirmedInv'
  BY <1>8 DEF ConfirmedInv
<1> QED
  BY <1>5, <1>6, <1>7, <1>9, <1>11, <1>12, <1>13 DEF DaoInv

\* Only connections in the pool are replaced: nobody is using them.
LEMMA CheckConnectionInv == \A c \in Conns : DaoInv /\ CheckConnection(c) => DaoInv'
<1> SUFFICES ASSUME NEW c \in Conns, DaoInv, CheckConnection(c) PROVE DaoInv'
  OBVIOUS
<1>0. /\ Types /\ OwnInv /\ TodoInv /\ SessionInv /\ LockInv /\ AddInv /\ PendInv
      /\ FriendsBothWays /\ ConfirmedInv
  BY DEF DaoInv
<1>1. /\ pool' = pool /\ todo' = todo /\ conn' = conn /\ requests' = requests /\ sent' = sent
      /\ timedOut' = timedOut /\ saved' = saved /\ confirmed' = confirmed /\ lost' = lost
      /\ db' = db /\ pend' = pend /\ snap' = snap
      /\ ~session[c].alive /\ session' = [session EXCEPT ![c] = Fresh]
  BY DEF CheckConnection, tables, history
<1>2. /\ session' \in [Conns -> [alive: BOOLEAN, auto: BOOLEAN, iso: {"RR", "RC"}]]
      /\ session'[c].alive /\ session'[c].auto
      /\ \A d \in Conns \ {c} : session'[d] = session[d]
  <2>1. Fresh \in [alive: BOOLEAN, auto: BOOLEAN, iso: {"RR", "RC"}] /\ Fresh.alive /\ Fresh.auto
    BY DEF Fresh
  <2> QED
    BY <1>0, <1>1, <2>1 DEF Types
<1>3. \A t \in Threads : conn[t] # c
  BY <1>0 DEF OwnInv, CheckConnection
<1>4. Types' /\ OwnInv' /\ LockInv' /\ FriendsBothWays'
  BY <1>0, <1>1, <1>2 DEF Types, OwnInv, LockInv, FriendsBothWays
<1>5. TodoInv'
  BY <1>0, <1>1 DEF TodoInv, Idle, Busy, CallOf
<1>6. SessionInv'
  BY <1>0, <1>1, <1>2 DEF SessionInv
<1>7. \A t \in Threads : \A p, k : InAdd(t, p, k)' <=> InAdd(t, p, k)
  BY <1>1 DEF InAdd, Busy, Idle, CallOf
<1>8. AddInv'
  <2>1. \A t \in Threads : conn[t] # None => session'[conn[t]] = session[conn[t]]
    BY <1>2, <1>3, ConnFacts
  <2>2. \A t \in Threads : \A p, k : InAdd(t, p, k) => conn[t] # None
    BY DEF InAdd
  <2> QED
    BY <1>0, <1>1, <1>7, <2>1, <2>2 DEF AddInv, AddOf, Current
<1>9. PendInv'
  BY <1>0, <1>1, <1>7 DEF PendInv, Inserting
<1>10. ConfirmedInv'
  BY <1>0, <1>1 DEF ConfirmedInv, Adding, Busy, Idle, CallOf
<1> QED
  BY <1>4, <1>5, <1>6, <1>8, <1>9, <1>10 DEF DaoInv

-----------------------------------------------------------------------------
(***************************************************************************)
(* A statement is executed.                                                *)
(***************************************************************************)

\* The thread is one statement further in the same call.
LEMMA ExecuteTodo ==
  ASSUME DaoInv, NEW t \in Threads, Execute(t)
  PROVE  /\ TodoInv' /\ Busy(t)' /\ conn'[t] = conn[t]
         /\ \A u \in Threads \ {t} : todo'[u] = todo[u] /\ conn'[u] = conn[u]
         /\ \/ /\ CallOf(t) \in OtherCalls /\ CallOf(t)' \in OtherCalls
               /\ StmtOf(t) \in OtherStmts
            \/ \E p \in Pairs, k \in 0 .. 4 :
                 /\ InAdd(t, p, k) /\ InAdd(t, p, k + 1)'
                 /\ StmtOf(t) = Head(AddCall(p, k).stmts) /\ AddCall(p, k).stmts # <<>>
         /\ \A p : Adding(t, p) => Adding(t, p)'
<1> DEFINE a == CallOf(t)
           found == StmtOf(t).do = "exists" /\ \A r \in StmtOf(t).rows : View(conn[t], r) # 0
           b == [a EXCEPT !.stmts = IF found THEN <<>> ELSE Tail(a.stmts)]
<1>0. /\ Busy(t) /\ conn[t] # None /\ a.stmts # <<>>
      /\ conn' = conn /\ sent' = sent
      /\ todo' = [todo EXCEPT ![t][1].stmts = IF found THEN <<>> ELSE Tail(@)]
  BY DEF Execute, Runs, history
<1>1. /\ todo[t] \in Seq(OtherCalls \cup AddCalls) /\ Len(todo[t]) \in Nat /\ Len(todo[t]) > 0
      /\ a = todo[t][1] /\ a \in OtherCalls \cup AddCalls
      /\ todo \in [Threads -> Seq(OtherCalls \cup AddCalls)]
  BY <1>0, BusyFacts DEF DaoInv, TodoInv
<1>2. todo' = [todo EXCEPT ![t] = [todo[t] EXCEPT ![1] = b]]
  BY <1>0, <1>1
<1>3. \/ /\ a \in OtherCalls /\ b \in OtherCalls /\ StmtOf(t) \in OtherStmts
      \/ \E p \in Pairs, k \in 0 .. 4 :
           /\ a = AddCall(p, k) /\ b = AddCall(p, k + 1) /\ k + 1 \in 0 .. 5
           /\ StmtOf(t) = Head(AddCall(p, k).stmts) /\ AddCall(p, k).stmts # <<>>
  <2>1. CASE a \in OtherCalls
    <3>1. a.stmts \in Seq(OtherStmts)
      BY <2>1 DEF OtherCalls
    <3>2. Head(a.stmts) \in OtherStmts /\ Tail(a.stmts) \in Seq(OtherStmts) /\ <<>> \in Seq(OtherStmts)
      BY <1>0, <3>1
    <3>3. b \in OtherCalls
      <4>1. ASSUME NEW q \in Seq(OtherStmts) PROVE [a EXCEPT !.stmts = q] \in OtherCalls
        BY <2>1 DEF OtherCalls
      <4> QED
        BY <3>2, <4>1
    <3> QED
      BY <2>1, <3>2, <3>3 DEF StmtOf
  <2>2. CASE a \in AddCalls
    <3>1. PICK p \in Pairs, k \in 0 .. 5 : a = AddCall(p, k)
      BY <2>2 DEF AddCalls
    <3>2. k = 5 => AddCall(p, k).stmts = <<>>
      BY AddCallFacts
    <3>3. k \in 0 .. 4 /\ k + 1 \in 0 .. 5 /\ k < 5
      BY <1>0, <3>1, <3>2
    <3>4. [a EXCEPT !.stmts = Tail(a.stmts)] = AddCall(p, k + 1)
      BY <3>1, <3>3, AddCallFacts
    <3>5. StmtOf(t) = Head(AddCall(p, k).stmts) /\ AddCall(p, k).stmts # <<>>
      BY <1>0, <3>1 DEF StmtOf
    <3>6. StmtOf(t).do # "exists"
      BY <3>5, AddStmt
    <3>7. b = AddCall(p, k + 1)
      BY <3>4, <3>6
    <3> QED
      BY <3>1, <3>3, <3>5, <3>7
  <2> QED
    BY <1>1, <2>1, <2>2
<1>4. b \in OtherCalls \cup AddCalls /\ b.op = a.op /\ b.of = a.of
  <2>1. b \in OtherCalls \cup AddCalls
    BY <1>3 DEF AddCalls
  <2>2. a = [op |-> a.op, of |-> a.of, stmts |-> a.stmts]
    <3>1. CASE a \in OtherCalls
      BY <3>1 DEF OtherCalls
    <3>2. CASE a \in AddCalls
      <4>1. PICK p \in Pairs, k \in 0 .. 5 : a = AddCall(p, k)
        BY <3>2 DEF AddCalls
      <4>2. AddCall(p, k) = [op |-> "AddFriend", of |-> p, stmts |-> AddCall(p, k).stmts]
            /\ AddCall(p, k).op = "AddFriend" /\ AddCall(p, k).of = p
        BY AddCallFacts
      <4> QED
        BY <4>1, <4>2
    <3> QED
      BY <1>1, <3>1, <3>2
  <2>3. \A x : [a EXCEPT !.stmts = x].op = a.op /\ [a EXCEPT !.stmts = x].of = a.of
    BY <2>2
  <2> QED
    BY <2>1, <2>3
<1> HIDE DEF b, a
<1>5. /\ todo' \in [Threads -> Seq(OtherCalls \cup AddCalls)]
      /\ Len(todo'[t]) = Len(todo[t]) /\ todo'[t][1] = b /\ todo'[t] # <<>>
      /\ \A i \in 2 .. Len(todo[t]) : todo'[t][i] = todo[t][i]
      /\ \A u \in Threads \ {t} : todo'[u] = todo[u]
  <2> DEFINE T == [todo[t] EXCEPT ![1] = b]
  <2>1. /\ T \in Seq(OtherCalls \cup AddCalls) /\ Len(T) = Len(todo[t]) /\ T[1] = b
        /\ \A i \in 2 .. Len(todo[t]) : T[i] = todo[t][i]
    BY <1>1, <1>4
  <2> HIDE DEF T
  <2>2. todo'[t] = T /\ (\A u \in Threads \ {t} : todo'[u] = todo[u])
        /\ todo' \in [Threads -> Seq(OtherCalls \cup AddCalls)]
    BY <1>1, <1>2, <2>1 DEF T
  <2>3. T # <<>>
    BY <1>1, <2>1
  <2> QED
    BY <2>1, <2>2, <2>3
<1>6. Busy(t)' /\ CallOf(t)' = b
  <2>1. todo'[t] \in Seq(OtherCalls \cup AddCalls)
    BY <1>5
  <2>2. Head(todo'[t]) = todo'[t][1]
    BY <1>5, <2>1
  <2> QED
    BY <1>5, <2>2 DEF Busy, Idle, CallOf
<1>7. TodoInv'
  <2>1. ASSUME NEW u \in Threads \ {t}
        PROVE  /\ Idle(u)' => conn'[u] = None
               /\ \A i \in 2 .. Len(todo'[u]) : \E p \in Pairs : todo'[u][i] = AddCall(p, 0)
               /\ Busy(u)' /\ conn'[u] = None /\ CallOf(u)' \in AddCalls =>
                    \E p \in Pairs : CallOf(u)' = AddCall(p, 0)
               /\ Busy(u)' /\ CallOf(u)'.op = "SaveChatMessage" => CallOf(u)'.of[1] \in sent'
    BY <1>0, <1>5 DEF DaoInv, TodoInv, Idle, Busy, CallOf
  <2>2. \A i \in 2 .. Len(todo'[t]) : \E p \in Pairs : todo'[t][i] = AddCall(p, 0)
    BY <1>5 DEF DaoInv, TodoInv
  <2>3. CallOf(t)'.op = "SaveChatMessage" => CallOf(t)'.of[1] \in sent'
    BY <1>0, <1>4, <1>6 DEF DaoInv, TodoInv, a
  <2>4. ~Idle(t)' /\ conn'[t] # None
    BY <1>0, <1>6 DEF Busy
  <2> QED
    BY <1>5, <2>1, <2>2, <2>3, <2>4 DEF TodoInv
<1>8. \/ CallOf(t) \in OtherCalls /\ CallOf(t)' \in OtherCalls /\ StmtOf(t) \in OtherStmts
      \/ \E p \in Pairs, k \in 0 .. 4 :
           /\ InAdd(t, p, k) /\ InAdd(t, p, k + 1)'
           /\ StmtOf(t) = Head(AddCall(p, k).stmts) /\ AddCall(p, k).stmts # <<>>
  <2>1. CASE a \in OtherCalls /\ b \in OtherCalls /\ StmtOf(t) \in OtherStmts
    BY <1>6, <2>1 DEF a
  <2>2. CASE \E p \in Pairs, k \in 0 .. 4 :
           /\ a = AddCall(p, k) /\ b = AddCall(p, k + 1) /\ k + 1 \in 0 .. 5
           /\ StmtOf(t) = Head(AddCall(p, k).stmts) /\ AddCall(p, k).stmts # <<>>
    <3>1. PICK p \in Pairs, k \in 0 .. 4 :
           /\ a = AddCall(p, k) /\ b = AddCall(p, k + 1)
           /\ StmtOf(t) = Head(AddCall(p, k).stmts) /\ AddCall(p, k).stmts # <<>>
      BY <2>2
    <3>2. InAdd(t, p, k) /\ InAdd(t, p, k + 1)'
      BY <1>0, <1>6, <3>1 DEF InAdd, a
    <3> QED
      BY <3>1, <3>2
  <2> QED
    BY <1>3, <2>1, <2>2
<1>9. \A p : Adding(t, p) => Adding(t, p)'
  BY <1>4, <1>6 DEF Adding, a
<1> QED
  BY <1>0, <1>5, <1>6, <1>7, <1>8, <1>9

\* What a statement does to the tables.
Reads(c, s) == /\ s.do \in {"select", "exists", "isolation", "begin"}
               /\ db' = db /\ pend' = pend
Commits(c, s) == /\ s.do = "commit"
                 /\ db' = Merge(pend[c], db) /\ pend' = [pend EXCEPT ![c] = NoRows]
WritesNow(c, s) == /\ s.do \in {"insert", "ignore", "update"} /\ session[c].auto
                   /\ db' = Put(Changed(c, s), s, db) /\ pend' = pend
WritesLater(c, s) == /\ s.do \in {"insert", "ignore", "update"} /\ ~session[c].auto
                     /\ pend' = [pend EXCEPT ![c] = Put(Changed(c, s), s, pend[c])] /\ db' = db

LEMMA EffectCases ==
  ASSUME DaoInv, NEW c \in Conns, NEW s, Effect(c, s),
         s.do \in {"select", "exists", "isolation", "begin", "commit", "insert", "ignore", "update"}
  PROVE  snap' = snap /\ (Reads(c, s) \/ Commits(c, s) \/ WritesNow(c, s) \/ WritesLater(c, s))
<1>0. /\ snap = [d \in Conns |-> NoSnap] /\ (~session[c].auto => session[c].iso = "RC")
  BY DEF DaoInv, Types, SessionInv
<1>1. CASE s.do = "commit"
  <2>1. /\ db' = Merge(pend[c], db)
        /\ pend' = [pend EXCEPT ![c] = NoRows] /\ snap' = [snap EXCEPT ![c] = NoSnap]
    BY <1>1 DEF Effect
  <2>2. snap' = snap
    BY <1>0, <2>1
  <2> QED
    BY <1>1, <2>1, <2>2 DEF Commits
<1>2. CASE s.do \in {"select", "exists"}
  <2>1. /\ snap' = [snap EXCEPT ![c] =
              IF ~session[c].auto /\ session[c].iso = "RR" /\ snap[c] = NoSnap THEN db ELSE snap[c]]
        /\ db' = db /\ pend' = pend
    BY <1>2 DEF Effect
  <2>2. ~(~session[c].auto /\ session[c].iso = "RR" /\ snap[c] = NoSnap)
    BY <1>0
  <2>3. snap' = [snap EXCEPT ![c] = snap[c]]
    BY <2>1, <2>2
  <2>4. snap' = snap
    BY <1>0, <2>3
  <2> QED
    BY <1>2, <2>1, <2>4 DEF Reads
<1>3. CASE s.do \in {"isolation", "begin"}
  <2>1. UNCHANGED tables
    BY <1>3 DEF Effect
  <2> QED
    BY <1>3, <2>1 DEF Reads, tables
<1>4. CASE s.do \in {"insert", "ignore", "update"} /\ session[c].auto
  <2>1. db' = Put(Changed(c, s), s, db) /\ pend' = pend /\ snap' = snap
    BY <1>4 DEF Effect
  <2> QED
    BY <1>4, <2>1 DEF WritesNow
<1>5. CASE s.do \in {"insert", "ignore", "update"} /\ ~session[c].auto
  <2>1. /\ pend' = [pend EXCEPT ![c] = Put(Changed(c, s), s, pend[c])]
        /\ db' = db /\ snap' = snap
    BY <1>5 DEF Effect
  <2> QED
    BY <1>5, <2>1 DEF WritesLater
<1> QED
  BY <1>1, <1>2, <1>3, <1>4, <1>5

\* The tables after a statement that did not wait: types, locks, and what
\* concerns the other connections.
LEMMA EffectTables ==
  ASSUME DaoInv, NEW c \in Conns, NEW s, s.rows \subseteq Rows,
         Reads(c, s) \/ Commits(c, s) \/ WritesNow(c, s) \/ WritesLater(c, s),
         Blockers(c, s) = {}
  PROVE  /\ db' \in [Rows -> 0 .. 2] /\ pend' \in [Conns -> [Rows -> 0 .. 2]]
         /\ LockInv'
         /\ \A d \in Conns \ {c} : pend'[d] = pend[d]
         /\ \A r \in Rows : db[r] # 0 => db'[r] # 0
         /\ (\A r \in Rows : pend[c][r] = 0) /\ session[c].auto => \A r \in Rows : pend'[c][r] = 0
         /\ \A r \in Rows : pend'[c][r] # 0 => pend[c][r] # 0 \/ r \in s.rows
<1>0. /\ db \in [Rows -> 0 .. 2] /\ pend \in [Conns -> [Rows -> 0 .. 2]] /\ pend[c] \in [Rows -> 0 .. 2]
      /\ LockInv
  BY DEF DaoInv, Types
<1>1. CASE Reads(c, s)
  BY <1>0, <1>1 DEF Reads, LockInv
<1>2. CASE Commits(c, s)
  <2>1. NoRows \in [Rows -> 0 .. 2] /\ \A r \in Rows : NoRows[r] = 0
    BY DEF NoRows
  <2>2. /\ db' \in [Rows -> 0 .. 2]
        /\ \A r \in Rows : db'[r] = IF pend[c][r] # 0 THEN pend[c][r] ELSE db[r]
    BY <1>0, <1>2 DEF Commits, Merge
  <2>3. /\ pend' \in [Conns -> [Rows -> 0 .. 2]] /\ pend'[c] = NoRows
        /\ \A d \in Conns \ {c} : pend'[d] = pend[d]
    BY <1>0, <1>2, <2>1 DEF Commits
  <2>4. LockInv'
    BY <1>0, <2>1, <2>3 DEF LockInv
  <2>5. \A r \in Rows : db[r] # 0 => db'[r] # 0
    BY <2>2
  <2> QED
    BY <2>1, <2>2, <2>3, <2>4, <2>5
<1>3. CASE WritesNow(c, s)
  <2>1. \A r \in Rows : db'[r] \in {1, 2} \/ db'[r] = db[r]
    BY <1>3 DEF WritesNow, Put
  <2>2. db' \in [Rows -> 0 .. 2]
    BY <1>0, <1>3 DEF WritesNow, Put
  <2>3. pend' = pend
    BY <1>3 DEF WritesNow
  <2> QED
    BY <1>0, <2>1, <2>2, <2>3 DEF LockInv
<1>4. CASE WritesLater(c, s)
  <2> DEFINE P == Put(Changed(c, s), s, pend[c])
  <2>1. P \in [Rows -> 0 .. 2]
    BY <1>0 DEF Put
  <2>2. \A r \in Rows : P[r] # 0 => pend[c][r] # 0 \/ r \in Changed(c, s)
    BY DEF Put
  <2> HIDE DEF P
  <2>3. /\ pend' \in [Conns -> [Rows -> 0 .. 2]] /\ pend'[c] = P /\ db' = db
        /\ \A d \in Conns \ {c} : pend'[d] = pend[d]
    BY <1>0, <1>4, <2>1 DEF WritesLater, P
  <2>4. Changed(c, s) \subseteq s.rows
    BY DEF Changed
  <2>5. ASSUME NEW r \in Changed(c, s), NEW d \in Conns \ {c}, pend[d][r] # 0
        PROVE  FALSE
    <3>1. r \in s.rows /\ r \in Rows
      BY <2>4
    <3>2. s.do = "update" /\ session[c].iso = "RC" /\ db[r] = 0
      BY <1>4, <2>5, <3>1 DEF WritesLater, Blockers
    <3>3. pend[c][r] # 0
      BY <3>2 DEF Changed, Current
    <3> QED
      BY <1>0, <2>5, <3>1, <3>3 DEF LockInv
  <2>6. LockInv'
    <3> SUFFICES ASSUME NEW e \in Conns, NEW d \in Conns, NEW r \in Rows,
                        pend'[e][r] # 0, pend'[d][r] # 0, e # d
                 PROVE  FALSE
      BY DEF LockInv
    <3>1. ASSUME NEW x \in Conns, pend'[x][r] # 0
          PROVE  pend[x][r] # 0 \/ (x = c /\ r \in Changed(c, s))
      BY <2>2, <2>3, <3>1
    <3>2. ~(pend[e][r] # 0 /\ pend[d][r] # 0)
      BY <1>0 DEF LockInv
    <3> QED
      BY <2>5, <3>1, <3>2
  <2>7. ~session[c].auto
    BY <1>4 DEF WritesLater
  <2> QED
    BY <1>0, <2>2, <2>3, <2>4, <2>6, <2>7
<1> QED
  BY <1>1, <1>2, <1>3, <1>4

\* InAdd says for which pair and how far, at most once.
LEMMA InAddUnique ==
  ASSUME NEW t, NEW p \in Pairs, NEW k \in 0 .. 5, NEW q \in Pairs, NEW j \in 0 .. 5
  PROVE  /\ InAdd(t, p, k) /\ InAdd(t, q, j) => p = q /\ k = j
         /\ InAdd(t, p, k)' /\ InAdd(t, q, j)' => p = q /\ k = j
<1>1. AddCall(p, k) = AddCall(q, j) => p = q /\ k = j
  BY AddCallInjective
<1> QED
  BY <1>1 DEF InAdd

\* Methods other than AddFriend: no friend row is touched.
LEMMA OtherExecutes ==
  ASSUME DaoInv, NEW t \in Threads, conn[t] \in Conns, CallOf(t) \in OtherCalls, CallOf(t)' \in OtherCalls,
         NEW s \in OtherStmts,
         Reads(conn[t], s) \/ Commits(conn[t], s) \/ WritesNow(conn[t], s) \/ WritesLater(conn[t], s)
  PROVE  /\ AddOf(t)'
         /\ \A p \in Pairs : pend'[conn[t]][FriendRow(p)] = 0
         /\ \A p \in Pairs : db'[FriendRow(p)] = db[FriendRow(p)]
<1> DEFINE c == conn[t]
<1>0. c # None
  BY MySQLDaoAssumption
<1>1. \A p \in Pairs, k \in 0 .. 5 : AddCall(p, k) \notin OtherCalls
  BY AddCallFacts, CallKinds
<1>2. AddOf(t)' /\ \A p \in Pairs, k \in 0 .. 5 : ~InAdd(t, p, k)
  BY <1>1 DEF AddOf, InAdd
<1>3. \A p \in Pairs : pend[c][FriendRow(p)] = 0
  <2>1. \A p \in Pairs : ~Inserting(t, p)
    BY <1>2, PairFacts DEF Inserting
  <2> QED
    BY <1>0, <2>1, OwnPend
<1>4. s.do \in {"exists", "select", "insert", "update"}
      /\ (s.do \in {"insert", "update"} => s.rows \cap FriendRows = {})
  BY DEF OtherStmts
<1>5. \A p \in Pairs : FriendRow(p) \in Rows /\ FriendRow(p) \in FriendRows
  BY PairFacts
<1>6. pend \in [Conns -> [Rows -> 0 .. 2]]
  BY DEF DaoInv, Types
<1>7. CASE Reads(c, s)
  BY <1>2, <1>3, <1>7 DEF Reads
<1>8. CASE Commits(c, s)
  BY <1>4, <1>8 DEF Commits
<1>9. CASE WritesNow(c, s) \/ WritesLater(c, s)
  <2>1. s.do \in {"insert", "update"}
    BY <1>4, <1>9 DEF WritesNow, WritesLater
  <2>2. \A p \in Pairs : FriendRow(p) \notin Changed(c, s)
    BY <1>4, <1>5, <2>1 DEF Changed
  <2>3. ASSUME NEW p \in Pairs
        PROVE  db'[FriendRow(p)] = db[FriendRow(p)] /\ pend'[c][FriendRow(p)] = pend[c][FriendRow(p)]
    BY <1>5, <1>6, <1>9, <2>2 DEF WritesNow, WritesLater, Put
  <2> QED
    BY <1>2, <1>3, <2>3
<1> QED
  BY <1>7, <1>8, <1>9

\* AddFriend, statement by statement.
LEMMA AddExecutes ==
  ASSUME DaoInv, NEW t \in Threads, conn[t] \in Conns, conn'[t] = conn[t], session[conn[t]].alive,
         NEW p \in Pairs, NEW k \in 0 .. 4, InAdd(t, p, k), InAdd(t, p, k + 1)', NEW s,
         s = Head(AddCall(p, k).stmts), AddCall(p, k).stmts # <<>>,
         Reads(conn[t], s) \/ Commits(conn[t], s) \/ WritesNow(conn[t], s) \/ WritesLater(conn[t], s),
         s.do = "isolation" => session'[conn[t]].iso = "RC",
         s.do # "isolation" => session'[conn[t]].iso = session[conn[t]].iso,
         s.do = "begin" => ~session'[conn[t]].auto,
         s.do # "begin" => (session'[conn[t]].auto <=> session[conn[t]].auto)
  PROVE  /\ AddOf(t)'
         /\ \A q \in Pairs : pend'[conn[t]][FriendRow(q)] # 0 => Inserting(t, q)'
         /\ \A q \in Pairs : db'[FriendRow(q)] # 0 <=> db'[FriendRow(Rev(q))] # 0
         /\ s.do = "begin" => session[conn[t]].iso = "RC"
<1> DEFINE c == conn[t]
           F == FriendRow(p)
           G == FriendRow(Rev(p))
<1>0. /\ k \in 0 .. 5 /\ k + 1 \in 0 .. 5 /\ c # None
      /\ pend \in [Conns -> [Rows -> 0 .. 2]] /\ db \in [Rows -> 0 .. 2]
      /\ F \in Rows /\ G \in Rows /\ Rev(p) \in Pairs /\ Rev(Rev(p)) = p
  BY PairFacts, MySQLDaoAssumption DEF DaoInv, Types
<1>1. /\ k >= 1 => session[c].iso = "RC"
      /\ k >= 2 => ~session[c].auto
      /\ k \in {3, 4} => Current(c, F) # 0
      /\ k = 4 => Current(c, G) # 0
  BY <1>0 DEF DaoInv, AddInv, AddOf
<1>2. \/ k = 0 /\ s.do = "isolation"
      \/ k = 1 /\ s.do = "begin"
      \/ k = 2 /\ s.do = "ignore" /\ s.rows = {F}
      \/ k = 3 /\ s.do = "ignore" /\ s.rows = {G}
      \/ k = 4 /\ s.do = "commit"
  BY <1>0, AddStmt
<1>3. /\ k >= 0 => session'[c].iso = "RC"
      /\ k >= 1 => ~session'[c].auto
      /\ s.do = "begin" => session[c].iso = "RC"
  BY <1>1, <1>2
\* the friend rows pending before the statement
<1>4. ASSUME NEW q \in Pairs, pend[c][FriendRow(q)] # 0
      PROVE  (k = 3 /\ q = p) \/ (k = 4 /\ q \in {p, Rev(p)})
  <2>1. Inserting(t, q)
    BY <1>0, <1>4, OwnPend
  <2>2. 3 \in 0 .. 5 /\ 4 \in 0 .. 5 /\ Rev(q) \in Pairs /\ Rev(Rev(q)) = q
    BY PairFacts
  <2>3. CASE InAdd(t, q, 3)
    <3>1. p = q /\ k = 3
      BY <1>0, <2>2, <2>3, InAddUnique
    <3> QED
      BY <3>1
  <2>4. CASE InAdd(t, q, 4)
    <3>1. p = q /\ k = 4
      BY <1>0, <2>2, <2>4, InAddUnique
    <3> QED
      BY <3>1
  <2>5. CASE InAdd(t, Rev(q), 4)
    <3>1. p = Rev(q) /\ k = 4
      BY <1>0, <2>2, <2>5, InAddUnique
    <3> QED
      BY <2>2, <3>1
  <2> QED
    BY <2>1, <2>3, <2>4, <2>5 DEF Inserting
<1>5. \A q \in Pairs : FriendRow(q) \in Rows
  BY PairFacts
<1>6. \A q \in Pairs : db[FriendRow(q)] # 0 <=> db[FriendRow(Rev(q))] # 0
  BY PairFacts DEF DaoInv, FriendsBothWays, FriendRow
\* the statement
<1>7. ASSUME k \in {0, 1}
      PROVE  db' = db /\ \A q \in Pairs : pend'[c][FriendRow(q)] = 0
  <2>1. db' = db /\ pend' = pend
    BY <1>2, <1>7 DEF Reads, Commits, WritesNow, WritesLater
  <2> QED
    BY <1>4, <1>7, <2>1
<1>8. ASSUME k \in {2, 3}
      PROVE  /\ db' = db
             /\ \A r \in Rows : Current(c, r) # 0 \/ r \in s.rows => Current(c, r)' # 0
             /\ \A r \in Rows : pend'[c][r] # 0 => pend[c][r] # 0 \/ r \in s.rows
  <2>1. WritesLater(c, s)
    BY <1>1, <1>2, <1>8 DEF Reads, Commits, WritesNow
  <2>2. db' = db /\ pend'[c] = Put(Changed(c, s), s, pend[c]) /\ s.do = "ignore"
    BY <1>0, <1>2, <1>8, <2>1 DEF WritesLater
  <2>3. \A r \in Rows : pend'[c][r] = IF r \in Changed(c, s) THEN 1 ELSE pend[c][r]
    BY <2>2 DEF Put
  <2>4. \A r \in Rows : r \in Changed(c, s) <=> r \in s.rows /\ Current(c, r) = 0
    BY <2>2 DEF Changed
  <2>5. \A r \in Rows : Current(c, r) # 0 \/ r \in s.rows => Current(c, r)' # 0
    BY <2>2, <2>3, <2>4 DEF Current
  <2> QED
    BY <2>2, <2>3, <2>4, <2>5
<1>9. ASSUME k = 4
      PROVE  /\ \A r \in Rows : db'[r] = Current(c, r) /\ pend'[c][r] = 0
             /\ db'[F] # 0 /\ db'[G] # 0
  <2>1. Commits(c, s)
    BY <1>2, <1>9 DEF Reads, WritesNow, WritesLater
  <2>2. /\ \A r \in Rows : db'[r] = Current(c, r)
        /\ pend'[c] = NoRows
    BY <1>0, <2>1 DEF Commits, Merge, Current
  <2>3. \A r \in Rows : pend'[c][r] = 0
    BY <2>2 DEF NoRows
  <2> QED
    BY <1>0, <1>1, <1>9, <2>2, <2>3
\* the three claims
<1>10. AddOf(t)'
  <2> SUFFICES ASSUME NEW q \in Pairs, NEW j \in 0 .. 5, InAdd(t, q, j)'
               PROVE  /\ j >= 1 => session'[c].iso = "RC"
                      /\ j >= 2 => ~session'[c].auto
                      /\ j \in {3, 4} => Current(c, FriendRow(q))' # 0
                      /\ j = 4 => Current(c, FriendRow(Rev(q)))' # 0
                      /\ j = 5 => db'[FriendRow(q)] # 0 /\ db'[FriendRow(Rev(q))] # 0
    BY DEF AddOf
  <2>1. q = p /\ j = k + 1
    BY <1>0, InAddUnique
  <2> HIDE DEF F, G
  <2>2. /\ j = 3 => Current(c, F)' # 0
        /\ j = 4 => Current(c, F)' # 0 /\ Current(c, G)' # 0
    <3>1. k = 2 => Current(c, F)' # 0
      BY <1>0, <1>2, <1>8
    <3>2. k = 3 => Current(c, F)' # 0 /\ Current(c, G)' # 0
      BY <1>0, <1>1, <1>2, <1>8
    <3> QED
      BY <2>1, <3>1, <3>2
  <2>3. j = 5 => db'[F] # 0 /\ db'[G] # 0
    BY <1>9, <2>1
  <2> QED
    BY <1>3, <2>1, <2>2, <2>3 DEF F, G
<1>11. ASSUME NEW q \in Pairs, pend'[c][FriendRow(q)] # 0 PROVE Inserting(t, q)'
  <2>1. k \in {2, 3}
    BY <1>5, <1>7, <1>9, <1>11
  <2>2. pend[c][FriendRow(q)] # 0 \/ FriendRow(q) \in s.rows
    BY <1>5, <1>8, <1>11, <2>1
  <2>3. (k = 2 /\ q = p) \/ (k = 3 /\ q \in {p, Rev(p)})
    BY <1>0, <1>2, <1>4, <2>1, <2>2, FriendRowInjective
  <2>4. CASE k = 2 /\ q = p
    BY <2>4 DEF Inserting
  <2>5. CASE k = 3 /\ q \in {p, Rev(p)}
    <3>1. q = p \/ Rev(q) = p
      BY <1>0, <2>5
    <3> QED
      BY <2>5, <3>1 DEF Inserting
  <2> QED
    BY <2>3, <2>4, <2>5
<1>12. ASSUME NEW q \in Pairs PROVE db'[FriendRow(q)] # 0 <=> db'[FriendRow(Rev(q))] # 0
  <2>1. CASE k # 4
    <3>1. k \in {0, 1} \/ k \in {2, 3}
      BY <1>2, <2>1
    <3>2. db' = db
      BY <1>7, <1>8, <3>1
    <3> QED
      BY <1>6, <3>2
  <2>2. CASE k = 4 /\ q \in {p, Rev(p)}
    BY <1>0, <1>9, <2>2
  <2>3. CASE k = 4 /\ q \notin {p, Rev(p)}
    <3>1. Rev(q) \in Pairs /\ Rev(Rev(q)) = q
      BY PairFacts
    <3>2. Rev(q) \notin {p, Rev(p)}
      BY <1>0, <2>3, <3>1
    <3>3. pend[c][FriendRow(q)] = 0 /\ pend[c][FriendRow(Rev(q))] = 0
      BY <1>4, <2>3, <3>1, <3>2
    <3>4. db'[FriendRow(q)] = db[FriendRow(q)] /\ db'[FriendRow(Rev(q))] = db[FriendRow(Rev(q))]
      BY <1>5, <1>9, <2>3, <3>1, <3>3 DEF Current
    <3> QED
      BY <1>6, <3>4
  <2> QED
    BY <2>1, <2>2, <2>3
<1> QED
  BY <1>3, <1>10, <1>11, <1>12

LEMMA ExecuteInv == \A t \in Threads : DaoInv /\ Execute(t) => DaoInv'
<1> SUFFICES ASSUME NEW t \in Threads, DaoInv, Execute(t) PROVE DaoInv'
  OBVIOUS
<1> DEFINE c == conn[t]
           s == StmtOf(t)
<1>0. /\ Types /\ OwnInv /\ SessionInv /\ AddInv /\ PendInv /\ FriendsBothWays /\ ConfirmedInv
  BY DEF DaoInv
<1>1. /\ Busy(t) /\ c # None /\ c \in Conns /\ session[c].alive /\ Blockers(c, s) = {}
      /\ session[c] \in [alive: BOOLEAN, auto: BOOLEAN, iso: {"RR", "RC"}]
      /\ \A u \in Threads \ {t} : conn[u] # c
      /\ Effect(c, s)
      /\ pool' = pool /\ conn' = conn /\ requests' = requests /\ lost' = lost /\ sent' = sent
      /\ timedOut' = timedOut /\ saved' = saved /\ confirmed' = confirmed
  BY ConnFacts DEF Execute, Runs, history
<1>2. /\ TodoInv' /\ Busy(t)' /\ conn'[t] = conn[t]
      /\ \A u \in Threads \ {t} : todo'[u] = todo[u] /\ conn'[u] = conn[u]
      /\ \A p : Adding(t, p) => Adding(t, p)'
  BY ExecuteTodo
<1>3. \/ /\ CallOf(t) \in OtherCalls /\ CallOf(t)' \in OtherCalls
         /\ s \in OtherStmts
      \/ \E p \in Pairs, k \in 0 .. 4 :
           /\ InAdd(t, p, k) /\ InAdd(t, p, k + 1)'
           /\ s = Head(AddCall(p, k).stmts) /\ AddCall(p, k).stmts # <<>>
  BY ExecuteTodo
<1>4. /\ s.do = "isolation" => session' = [session EXCEPT ![c].iso = "RC"]
      /\ s.do = "begin" => session' = [session EXCEPT ![c].auto = FALSE]
      /\ s.do \notin {"isolation", "begin"} => session' = session
  BY DEF Execute
<1> HIDE DEF s, c
<1>5. /\ s.rows \subseteq Rows
      /\ s.do \in {"select", "exists", "isolation", "begin", "commit", "insert", "ignore", "update"}
  <2>1. CASE s \in OtherStmts
    BY <2>1 DEF OtherStmts
  <2>2. ASSUME NEW p \in Pairs, NEW k \in 0 .. 4,
               s = Head(AddCall(p, k).stmts), AddCall(p, k).stmts # <<>>
        PROVE  /\ s.rows \subseteq Rows
               /\ s.do \in {"isolation", "begin", "commit", "ignore"}
    <3>1. k \in 0 .. 5 /\ FriendRow(p) \in Rows /\ FriendRow(Rev(p)) \in Rows
      BY PairFacts
    <3>2. \/ s.do = "isolation" /\ s.rows = {}
          \/ s.do = "begin" /\ s.rows = {}
          \/ s.do = "ignore" /\ s.rows = {FriendRow(p)}
          \/ s.do = "ignore" /\ s.rows = {FriendRow(Rev(p))}
          \/ s.do = "commit" /\ s.rows = {}
      BY <2>2, <3>1, AddStmt
    <3> QED
      BY <3>1, <3>2
  <2> QED
    BY <1>3, <2>1, <2>2
<1>6. snap' = snap /\ (Reads(c, s) \/ Commits(c, s) \/ WritesNow(c, s) \/ WritesLater(c, s))
  BY <1>1, <1>5, EffectCases
<1>7. /\ db' \in [Rows -> 0 .. 2] /\ pend' \in [Conns -> [Rows -> 0 .. 2]]
      /\ LockInv'
      /\ \A d \in Conns \ {c} : pend'[d] = pend[d]
      /\ \A r \in Rows : db[r] # 0 => db'[r] # 0
      /\ (\A r \in Rows : pend[c][r] = 0) /\ session[c].auto => \A r \in Rows : pend'[c][r] = 0
  BY <1>1, <1>5, <1>6, EffectTables
<1>8. /\ session' \in [Conns -> [alive: BOOLEAN, auto: BOOLEAN, iso: {"RR", "RC"}]]
      /\ \A d \in Conns \ {c} : session'[d] = session[d]
      /\ session'[c].alive
      /\ s.do = "isolation" => session'[c].iso = "RC"
      /\ s.do # "isolation" => session'[c].iso = session[c].iso
      /\ s.do = "begin" => ~session'[c].auto
      /\ s.do # "begin" => (session'[c].auto <=> session[c].auto)
  <2> DEFINE S == [alive: BOOLEAN, auto: BOOLEAN, iso: {"RR", "RC"}]
             x == [session[c] EXCEPT !.iso = "RC"]
             y == [session[c] EXCEPT !.auto = FALSE]
  <2>0. session \in [Conns -> S] /\ session[c] \in S
    BY <1>0, <1>1 DEF Types
  <2>1. x \in S /\ x.iso = "RC" /\ (x.auto <=> session[c].auto) /\ (x.alive <=> session[c].alive)
    BY <2>0
  <2>2. y \in S /\ y.iso = session[c].iso /\ ~y.auto /\ (y.alive <=> session[c].alive)
    BY <2>0
  <2>3. CASE s.do = "isolation"
    <3>1. session' = [session EXCEPT ![c] = x]
      BY <1>4, <2>3
    <3> HIDE DEF x, S
    <3>2. session' \in [Conns -> S] /\ session'[c] = x /\ \A d \in Conns \ {c} : session'[d] = session[d]
      BY <1>1, <2>0, <2>1, <3>1
    <3> QED
      BY <1>1, <2>1, <2>3, <3>2 DEF S
  <2>4. CASE s.do = "begin"
    <3>1. session' = [session EXCEPT ![c] = y]
      BY <1>4, <2>4
    <3> HIDE DEF y, S
    <3>2. session' \in [Conns -> S] /\ session'[c] = y /\ \A d \in Conns \ {c} : session'[d] = session[d]
      BY <1>1, <2>0, <2>2, <3>1
    <3> QED
      BY <1>1, <2>2, <2>4, <3>2 DEF S
  <2>5. CASE s.do \notin {"isolation", "begin"}
    BY <1>1, <1>4, <2>0, <2>5
  <2> QED
    BY <2>3, <2>4, <2>5
<1>9. /\ AddOf(t)'
      /\ \A p \in Pairs : pend'[c][FriendRow(p)] # 0 => Inserting(t, p)'
      /\ \A p \in Pairs : db'[FriendRow(p)] # 0 <=> db'[FriendRow(Rev(p))] # 0
      /\ s.do = "begin" => session[c].iso = "RC"
  <2>1. CASE CallOf(t) \in OtherCalls /\ CallOf(t)' \in OtherCalls /\ s \in OtherStmts
    <3>1. /\ AddOf(t)'
          /\ \A p \in Pairs : pend'[c][FriendRow(p)] = 0
          /\ \A p \in Pairs : db'[FriendRow(p)] = db[FriendRow(p)]
      BY <1>1, <1>6, <2>1, OtherExecutes DEF c
    <3>2. \A p \in Pairs : db[FriendRow(p)] # 0 <=> db[FriendRow(Rev(p))] # 0
      BY <1>0, PairFacts DEF FriendsBothWays, FriendRow
    <3>3. \A p \in Pairs : Rev(p) \in Pairs
      BY PairFacts
    <3>4. s.do # "begin"
      BY <2>1 DEF OtherStmts
    <3> QED
      BY <3>1, <3>2, <3>3, <3>4
  <2>2. ASSUME NEW p \in Pairs, NEW k \in 0 .. 4,
               InAdd(t, p, k), InAdd(t, p, k + 1)',
               s = Head(AddCall(p, k).stmts), AddCall(p, k).stmts # <<>>
        PROVE  /\ AddOf(t)'
               /\ \A q \in Pairs : pend'[c][FriendRow(q)] # 0 => Inserting(t, q)'
               /\ \A q \in Pairs : db'[FriendRow(q)] # 0 <=> db'[FriendRow(Rev(q))] # 0
               /\ s.do = "begin" => session[c].iso = "RC"
    BY <1>1, <1>2, <1>6, <1>8, <2>2, AddExecutes DEF c
  <2> QED
    BY <1>3, <2>1, <2>2
<1>10. Touches(t, {c})
  BY <1>2, <1>7, <1>8 DEF Touches
<1>11. /\ \A u \in Threads \ {t} : AddOf(u)'
       /\ \A d \in Conns \ {c}, p \in Pairs : pend'[d][FriendRow(p)] # 0 =>
            \E w \in Threads : conn'[w] = d /\ Inserting(w, p)'
  BY <1>1, <1>10, OthersKeep DEF c
<1>12. Types'
  BY <1>0, <1>1, <1>6, <1>7, <1>8 DEF Types
<1>13. OwnInv'
  BY <1>0, <1>1 DEF OwnInv
<1>14. SessionInv'
  <2> SUFFICES ASSUME NEW d \in Conns
               PROVE  /\ ~session'[d].auto => session'[d].iso = "RC"
                      /\ session'[d].auto \/ ~session'[d].alive => \A r \in Rows : pend'[d][r] = 0
                      /\ lost' = 0 => session'[d].alive
    BY DEF SessionInv
  <2>1. CASE d # c
    BY <1>0, <1>1, <1>7, <1>8, <2>1 DEF SessionInv
  <2>2. CASE d = c
    <3>1. ~session'[c].auto => session'[c].iso = "RC"
      BY <1>0, <1>1, <1>8, <1>9 DEF SessionInv
    <3>2. session'[c].auto => \A r \in Rows : pend'[c][r] = 0
      BY <1>0, <1>1, <1>7, <1>8 DEF SessionInv
    <3> QED
      BY <1>8, <2>2, <3>1, <3>2
  <2> QED
    BY <2>1, <2>2
<1>15. AddInv' /\ PendInv'
  <2>1. AddInv'
    BY <1>9, <1>11 DEF AddInv
  <2>2. \A p \in Pairs : pend'[c][FriendRow(p)] # 0 => conn'[t] = c /\ Inserting(t, p)'
    BY <1>2, <1>9 DEF c
  <2> QED
    BY <1>11, <2>1, <2>2 DEF PendInv
<1>16. FriendsBothWays'
  <2>1. \A p \in Pairs : FriendRow(Rev(p)) = Friend(p[2], p[1]) /\ FriendRow(p) = Friend(p[1], p[2])
    BY PairFacts DEF FriendRow
  <2> QED
    BY <1>9, <2>1 DEF FriendsBothWays
<1>17. ConfirmedInv'
  BY <1>1, <1>2, <1>10, ConfirmedKept
<1> QED
  BY <1>2, <1>7, <1>12, <1>13, <1>14, <1>15, <1>16, <1>17 DEF DaoInv

-----------------------------------------------------------------------------
LEMMA InitInv == Init => DaoInv
<1> SUFFICES ASSUME Init PROVE DaoInv
  OBVIOUS
<1>0. /\ db = NoRows /\ pend = [c \in Conns |-> NoRows] /\ snap = [c \in Conns |-> NoSnap]
      /\ session = [c \in Conns |-> Fresh]
      /\ todo = [t \in Threads |-> <<>>] /\ conn = [t \in Threads |-> None]
      /\ requests = 0 /\ lost = 0
      /\ timedOut = FALSE /\ sent = {} /\ saved = {} /\ confirmed = {}
  BY DEF Init
<1>1. /\ NoRows \in [Rows -> 0 .. 2] /\ \A r \in Rows : NoRows[r] = 0
  BY DEF NoRows
<1>2. Fresh \in [alive: BOOLEAN, auto: BOOLEAN, iso: {"RR", "RC"}] /\ Fresh.auto /\ Fresh.alive
  BY DEF Fresh
<1>3. \A t \in Threads : Idle(t) /\ conn[t] = None /\ todo[t] = <<>>
  BY <1>0 DEF Idle
<1>4. \A t \in Threads : \A p, k : ~InAdd(t, p, k)
  BY <1>3 DEF InAdd
<1>5. Types
  <2>1. db \in [Rows -> 0 .. 2] /\ pend \in [Conns -> [Rows -> 0 .. 2]]
    BY <1>0, <1>1
  <2>2. session \in [Conns -> [alive: BOOLEAN, auto: BOOLEAN, iso: {"RR", "RC"}]]
    BY <1>0, <1>2
  <2>3. requests \in 0 .. MaxRequests /\ lost \in 0 .. MaxLost
    BY <1>0, MySQLDaoAssumption
  <2>4. timedOut \in BOOLEAN /\ sent \subseteq Msgs /\ saved \subseteq sent /\ confirmed \subseteq Pairs
    BY <1>0
  <2> QED
    BY <1>0, <2>1, <2>2, <2>3, <2>4 DEF Types
<1>6. OwnInv
  <2> DEFINE n == Cardinality(Conns)
  <2>1. IsFiniteSet(Conns) /\ n \in Nat
    BY MySQLDaoAssumption, FS_CardinalityType
  <2>2. pool \in [1 .. n -> Conns] /\ \A i, j \in DOMAIN pool : pool[i] = pool[j] => i = j
    BY DEF Init
  <2> HIDE DEF n
  <2>3. pool \in Seq(Conns) /\ Len(pool) = n /\ DOMAIN pool = 1 .. n
    BY <2>1, <2>2
  <2>4. pool \in Surjection(1 .. n, Conns)
    <3>1. pool \in Injection(1 .. n, Conns)
      BY <2>2 DEF Injection, IsInjective
    <3>2. Cardinality(1 .. n) = n
      BY <2>1, FS_Interval
    <3> QED
      BY <2>1, <3>1, <3>2, FS_Injection DEF n
  <2>5. \A c \in Conns : \E i \in 1 .. Len(pool) : pool[i] = c
    BY <2>3, <2>4 DEF Surjection
  <2>6. \A t \in Threads, i \in 1 .. Len(pool) : conn[t] # pool[i]
    BY <1>3, <2>2, <2>3, MySQLDaoAssumption
  <2>7. \A i, j \in 1 .. Len(pool) : pool[i] = pool[j] => i = j
    BY <2>2, <2>3
  <2> QED
    BY <1>0, <1>3, <2>3, <2>5, <2>6, <2>7 DEF OwnInv
<1>7. TodoInv
  BY <1>0, <1>3 DEF TodoInv, Busy
<1>8. SessionInv /\ LockInv
  BY <1>0, <1>1, <1>2 DEF SessionInv, LockInv
<1>9. AddInv /\ PendInv
  <2>1. \A p \in Pairs : FriendRow(p) \in Rows
    BY PairFacts
  <2> QED
    BY <1>0, <1>1, <1>4, <2>1 DEF AddInv, AddOf, PendInv
<1>10. FriendsBothWays
  <2>1. \A p \in Pairs : Friend(p[1], p[2]) \in Rows /\ Friend(p[2], p[1]) \in Rows
    BY PairFacts DEF FriendRow
  <2> QED
    BY <1>0, <1>1, <2>1 DEF FriendsBothWays
<1>11. ConfirmedInv
  BY <1>0 DEF ConfirmedInv
<1> QED
  BY <1>5, <1>6, <1>7, <1>8, <1>9, <1>10, <1>11 DEF DaoInv

LEMMA StepInv == DaoInv /\ [Next]_vars => DaoInv'
<1> SUFFICES ASSUME DaoInv, [Next]_vars PROVE DaoInv'
  OBVIOUS
<1>0. sent \subseteq Msgs
  BY DEF DaoInv, Types
<1>1. ASSUME NEW t \in Threads, NEW p \in Pairs,
             \/ BeginOther(t, AddFriendApplyHandler(p[1], p[2]))
             \/ BeginOther(t, AuthFriendApplyHandler(p[1], p[2]))
      PROVE  DaoInv'
  <2>1. PICK calls \in {AddFriendApplyHandler(p[1], p[2]), AuthFriendApplyHandler(p[1], p[2])} :
          Begin(t, calls) /\ sent' = sent
    BY <1>1 DEF BeginOther
  <2>2. Startable(calls) /\ Head(calls).op # "SaveChatMessage"
    BY Handlers
  <2> QED
    BY <1>0, <2>1, <2>2, BeginInv
<1>2. ASSUME NEW t \in Threads, NEW m \in Msgs, BeginText(t, m) PROVE DaoInv'
  <2>1. Begin(t, DealChatTextMsgHandler(m)) /\ sent' = sent \cup {m}
    BY <1>2 DEF BeginText
  <2>2. Startable(DealChatTextMsgHandler(m)) /\ Head(DealChatTextMsgHandler(m)).of[1] = m
    BY Handlers
  <2> QED
    BY <1>0, <2>1, <2>2, BeginInv
<1>3. ASSUME NEW t \in Threads, BeginOther(t, MarkMessagesRead) \/ BeginOther(t, LoginHandler)
      PROVE  DaoInv'
  <2>1. PICK calls \in {MarkMessagesRead, LoginHandler} : Begin(t, calls) /\ sent' = sent
    BY <1>3 DEF BeginOther
  <2>2. Startable(calls) /\ Head(calls).op # "SaveChatMessage"
    BY Handlers
  <2> QED
    BY <1>0, <2>1, <2>2, BeginInv
<1>4. ASSUME NEW t \in Threads, Step(t) PROVE DaoInv'
  BY <1>4, GetConnectionInv, ExecuteInv, SucceedInv, StatementFailsInv, LockTimeoutInv, DeadlockInv
     DEF Step
<1>5. ASSUME NEW c \in Conns, Lose(c) \/ CheckConnection(c) PROVE DaoInv'
  BY <1>5, LoseInv, CheckConnectionInv
<1>6. ASSUME UNCHANGED vars PROVE DaoInv'
  <2>1. /\ db' = db /\ pend' = pend /\ snap' = snap /\ session' = session /\ pool' = pool
        /\ todo' = todo /\ conn' = conn /\ requests' = requests /\ lost' = lost /\ sent' = sent
        /\ timedOut' = timedOut /\ saved' = saved /\ confirmed' = confirmed
    BY <1>6 DEF vars, tables, history
  <2>2. Types' /\ OwnInv' /\ SessionInv' /\ LockInv' /\ FriendsBothWays'
    BY <2>1 DEF DaoInv, Types, OwnInv, SessionInv, LockInv, FriendsBothWays
  <2>3. TodoInv'
    BY <2>1 DEF DaoInv, TodoInv, Idle, Busy, CallOf
  <2>4. \A t \in Threads : \A p, k : InAdd(t, p, k)' <=> InAdd(t, p, k)
    BY <2>1 DEF InAdd, Busy, Idle, CallOf
  <2>5. AddInv' /\ PendInv'
    BY <2>1, <2>4 DEF DaoInv, AddInv, AddOf, Current, PendInv, Inserting
  <2>6. ConfirmedInv'
    BY <2>1 DEF DaoInv, ConfirmedInv, Adding, Busy, Idle, CallOf
  <2> QED
    BY <2>2, <2>3, <2>5, <2>6 DEF DaoInv
<1> QED
  BY <1>1, <1>2, <1>3, <1>4, <1>5, <1>6 DEF Next

LEMMA CardinalityZeroOne == Cardinality({}) = 0 /\ \A x : Cardinality({x}) = 1
<1>1. Cardinality({}) = 0
  BY FS_EmptySet
<1>2. \A x : Cardinality({x}) = 1
  BY FS_Singleton
<1> QED
  BY <1>1, <1>2

LEMMA SpecInv == Spec => []DaoInv
BY InitInv, StepInv, PTL DEF Spec

\* Types; every connection is in the pool once or with one thread; a row is
\* locked by at most one transaction (getConnection, Defer, InnoDB's locks).
THEOREM TypeCorrect == Spec => []TypeOK
<1>1. DaoInv => TypeOK
  <2> SUFFICES ASSUME DaoInv PROVE TypeOK
    OBVIOUS
  <2>0. Types /\ OwnInv /\ TodoInv /\ SessionInv /\ LockInv
    BY DEF DaoInv
  <2>1. ASSUME NEW c \in Conns
        PROVE  Cardinality({i \in 1 .. Len(pool) : pool[i] = c})
                 + Cardinality({t \in Threads : conn[t] = c}) = 1
    <3> DEFINE I == {i \in 1 .. Len(pool) : pool[i] = c}
               T == {t \in Threads : conn[t] = c}
    <3>1. CASE \E i \in 1 .. Len(pool) : pool[i] = c
      <4>1. PICK i \in 1 .. Len(pool) : pool[i] = c
        BY <3>1
      <4>2. I = {i} /\ T = {}
        BY <2>0, <4>1 DEF OwnInv
      <4>3. Cardinality({i}) = 1 /\ Cardinality({}) = 0
        BY CardinalityZeroOne
      <4> HIDE DEF I, T
      <4>4. Cardinality(I) + Cardinality(T) = 1
        BY <4>2, <4>3
      <4> QED
        BY <4>4 DEF I, T
    <3>2. CASE ~\E i \in 1 .. Len(pool) : pool[i] = c
      <4>1. PICK t \in Threads : conn[t] = c
        BY <2>0, <3>2 DEF OwnInv
      <4>2. \A u \in Threads : conn[u] = c => u = t
        BY <2>0, <4>1, MySQLDaoAssumption DEF OwnInv
      <4>3. I = {} /\ T = {t}
        BY <3>2, <4>1, <4>2
      <4>4. Cardinality({t}) = 1 /\ Cardinality({}) = 0
        BY CardinalityZeroOne
      <4> HIDE DEF I, T
      <4>5. Cardinality(I) + Cardinality(T) = 1
        BY <4>3, <4>4
      <4> QED
        BY <4>5 DEF I, T
    <3> QED
      BY <3>1, <3>2
  <2>2. ASSUME NEW r \in Rows PROVE Cardinality({c \in Conns : pend[c][r] # 0}) <= 1
    <3> DEFINE L == {c \in Conns : pend[c][r] # 0}
    <3>1. CASE L = {}
      <4>1. Cardinality({}) <= 1
        BY CardinalityZeroOne
      <4> HIDE DEF L
      <4>2. Cardinality(L) <= 1
        BY <3>1, <4>1
      <4> QED
        BY <4>2 DEF L
    <3>2. CASE L # {}
      <4>1. PICK c \in L : TRUE
        BY <3>2
      <4>2. L = {c}
        BY <2>0, <4>1 DEF LockInv
      <4>3. Cardinality({c}) <= 1
        BY CardinalityZeroOne
      <4> HIDE DEF L
      <4>4. Cardinality(L) <= 1
        BY <4>2, <4>3
      <4> QED
        BY <4>4 DEF L
    <3> QED
      BY <3>1, <3>2
  <2>3. \A c \in Conns : session[c].auto => pend[c] = NoRows
    <3> SUFFICES ASSUME NEW c \in Conns, session[c].auto PROVE pend[c] = NoRows
      OBVIOUS
    <3>1. pend[c] \in [Rows -> 0 .. 2] /\ \A r \in Rows : pend[c][r] = 0
      BY <2>0 DEF Types, SessionInv
    <3> QED
      BY <3>1 DEF NoRows
  <2>4. snap \in [Conns -> [Rows -> 0 .. 2] \cup {NoSnap}]
    BY <2>0 DEF Types
  <2>5. \A t \in Threads : Idle(t) => conn[t] = None
    BY <2>0 DEF TodoInv
  <2>6. conn \in [Threads -> Conns \cup {None}]
    BY <2>0 DEF OwnInv
  <2> QED
    BY <2>0, <2>1, <2>2, <2>3, <2>4, <2>5, <2>6 DEF Types, TypeOK
<1> QED
  BY <1>1, SpecInv, PTL

\* The two rows of AddFriend become visible together: friendship is mutual in
\* the database, whatever fails between the statements (MySQLDao::AddFriend).
THEOREM FriendshipMutual == Spec => []FriendsBothWays
BY SpecInv, PTL DEF DaoInv

\* Connections that AddFriend left without autocommit read the present, since
\* it has set READ COMMITTED before (MySQLDao::AddFriend).
THEOREM ReadsAreFresh == Spec => []FreshReads
<1>1. DaoInv => FreshReads
  BY DEF DaoInv, Types, FreshReads, Base
<1> QED
  BY <1>1, SpecInv, PTL

\* Users who confirm each other at once end up as friends although MySQL rolls
\* one of them back (MySQLDao::AddFriend, LogicSystem::AuthFriendApplyHandler).
THEOREM ConfirmedBecomeFriends == Spec => []ConfirmedAreFriends
<1>1. DaoInv => ConfirmedAreFriends
  <2> SUFFICES ASSUME DaoInv, lost = 0, ~timedOut, \A t \in Threads : Idle(t), NEW p \in confirmed
               PROVE  db[Friend(p[1], p[2])] # 0 /\ db[Friend(p[2], p[1])] # 0
    BY DEF ConfirmedAreFriends
  <2>1. p \in Pairs
    BY DEF DaoInv, Types
  <2>2. \A t \in Threads : ~Adding(t, p)
    BY DEF Adding, Busy
  <2>3. db[FriendRow(p)] # 0 /\ db[FriendRow(Rev(p))] # 0
    BY <2>2 DEF DaoInv, ConfirmedInv
  <2> QED
    BY <2>1, <2>3, PairFacts DEF FriendRow
<1> QED
  BY <1>1, SpecInv, PTL
=============================================================================
