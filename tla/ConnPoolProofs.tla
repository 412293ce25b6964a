--------------------------- MODULE ConnPoolProofs ---------------------------
(***************************************************************************)
(* Proofs about the connection pool, for any finite sets of connections    *)
(* and threads, every mix of requests, and with or without close().        *)
(*                                                                         *)
(* OneOwner is inductive together with the types.  NoLostWakeup is not: it *)
(* needs that nothing is queued between a thread's evaluation of the       *)
(* predicate of wait and its sleep, which is what the mutex is for.        *)
(***************************************************************************)
EXTENDS ConnPool, FiniteSetTheorems, SequenceTheorems, TLAPS

\* The thread that has seen an empty queue holds the mutex until it sleeps.
SleepyInv == \A t \in Threads : pc[t] = "sleepy" /\ ~isStop => pool = <<>>

PoolInv == TypeOK /\ OneOwner /\ SleepyInv /\ NoLostWakeup

-----------------------------------------------------------------------------
\* Taking the front of a queue without duplicates.
LEMMA TakeFront ==
  ASSUME NEW S, NEW q \in Seq(S), q # <<>>, IsInjective(q)
  PROVE  /\ Head(q) \in S /\ Tail(q) \in Seq(S) /\ Len(Tail(q)) = Len(q) - 1
         /\ IsInjective(Tail(q))
         /\ Range(Tail(q)) = Range(q) \ {Head(q)} /\ Head(q) \in Range(q)
<1>1. /\ Len(q) \in Nat /\ Len(q) > 0 /\ DOMAIN q = 1 .. Len(q) /\ Head(q) = q[1]
      /\ Tail(q) \in Seq(S) /\ Len(Tail(q)) = Len(q) - 1
      /\ DOMAIN Tail(q) = 1 .. Len(q) - 1
      /\ \A i \in 1 .. Len(q) - 1 : Tail(q)[i] = q[i + 1]
  OBVIOUS
<1>2. Head(q) \in S
  BY <1>1
<1>3. IsInjective(Tail(q))
  BY <1>1 DEF IsInjective
<1>4. ASSUME NEW c PROVE c \in Range(Tail(q)) <=> c \in Range(q) /\ c # Head(q)
  <2>1. ASSUME NEW i \in 1 .. Len(q) - 1, c = Tail(q)[i] PROVE c \in Range(q) /\ c # Head(q)
    BY <1>1, <2>1 DEF Range, IsInjective
  <2>2. ASSUME NEW i \in 1 .. Len(q), c = q[i], c # Head(q) PROVE c \in Range(Tail(q))
    <3>1. i - 1 \in 1 .. Len(q) - 1 /\ Tail(q)[i - 1] = c
      BY <1>1, <2>2
    <3> QED
      BY <1>1, <3>1 DEF Range
  <2> QED
    BY <1>1, <2>1, <2>2 DEF Range
<1>5. Head(q) \in Range(q)
  BY <1>1 DEF Range
<1> QED
  BY <1>1, <1>2, <1>3, <1>4, <1>5

\* Queueing a connection at the back.
LEMMA PutBack ==
  ASSUME NEW S, NEW q \in Seq(S), NEW c \in S, IsInjective(q), c \notin Range(q)
  PROVE  /\ Append(q, c) \in Seq(S) /\ Len(Append(q, c)) = Len(q) + 1
         /\ IsInjective(Append(q, c))
         /\ Range(Append(q, c)) = Range(q) \cup {c}
<1>1. /\ Len(q) \in Nat /\ DOMAIN q = 1 .. Len(q)
      /\ Append(q, c) \in Seq(S) /\ Len(Append(q, c)) = Len(q) + 1
      /\ DOMAIN Append(q, c) = 1 .. Len(q) + 1
      /\ Append(q, c)[Len(q) + 1] = c
      /\ \A i \in 1 .. Len(q) : Append(q, c)[i] = q[i]
  OBVIOUS
<1>2. IsInjective(Append(q, c))
  <2> SUFFICES ASSUME NEW i \in 1 .. Len(q) + 1, NEW j \in 1 .. Len(q) + 1,
                      Append(q, c)[i] = Append(q, c)[j]
               PROVE  i = j
    BY <1>1 DEF IsInjective
  <2>1. \A k \in 1 .. Len(q) : q[k] # c
    BY <1>1 DEF Range
  <2> QED
    BY <1>1, <2>1 DEF IsInjective
<1>3. Range(Append(q, c)) = Range(q) \cup {c}
  <2>1. ASSUME NEW i \in 1 .. Len(q) + 1 PROVE Append(q, c)[i] \in Range(q) \cup {c}
    BY <1>1 DEF Range
  <2>2. ASSUME NEW i \in 1 .. Len(q) PROVE q[i] \in Range(Append(q, c))
    BY <1>1 DEF Range
  <2>3. c \in Range(Append(q, c))
    BY <1>1 DEF Range
  <2> QED
    BY <1>1, <2>1, <2>2, <2>3 DEF Range
<1> QED
  BY <1>1, <1>2, <1>3

\* Giving up the innermost connection.
LEMMA GiveUp ==
  ASSUME NEW S, NEW q \in Seq(S), q # <<>>, IsInjective(q)
  PROVE  LET r == SubSeq(q, 1, Len(q) - 1) IN
         /\ q[Len(q)] \in S /\ r \in Seq(S)
         /\ IsInjective(r)
         /\ Range(r) = Range(q) \ {q[Len(q)]} /\ q[Len(q)] \in Range(q)
<1> DEFINE r == SubSeq(q, 1, Len(q) - 1)
<1>1. /\ Len(q) \in Nat /\ Len(q) > 0 /\ DOMAIN q = 1 .. Len(q)
      /\ r \in Seq(S) /\ Len(r) = Len(q) - 1 /\ DOMAIN r = 1 .. Len(q) - 1
      /\ \A i \in 1 .. Len(q) - 1 : r[i] = q[i]
  OBVIOUS
<1> HIDE DEF r
<1>2. q[Len(q)] \in S /\ q[Len(q)] \in Range(q)
  BY <1>1 DEF Range
<1>3. IsInjective(r)
  BY <1>1 DEF IsInjective
<1>4. ASSUME NEW c PROVE c \in Range(r) <=> c \in Range(q) /\ c # q[Len(q)]
  <2>1. ASSUME NEW i \in 1 .. Len(q) - 1, c = r[i] PROVE c \in Range(q) /\ c # q[Len(q)]
    BY <1>1, <2>1 DEF Range, IsInjective
  <2>2. ASSUME NEW i \in 1 .. Len(q), c = q[i], c # q[Len(q)] PROVE c \in Range(r)
    BY <1>1, <2>2 DEF Range
  <2> QED
    BY <1>1, <2>1, <2>2 DEF Range
<1> QED
  BY <1>1, <1>2, <1>3, <1>4 DEF r

-----------------------------------------------------------------------------
\* Threads awake inside getConnection are finitely many; one more or one less
\* is counted as such.
LEMMA GettingCounts ==
  ASSUME PoolInv, NEW t \in Threads
  PROVE  /\ Cardinality(Getting) \in Nat
         /\ pc[t] = "get" => Cardinality(Getting \ {t}) = Cardinality(Getting) - 1
         /\ pc[t] # "get" => Cardinality(Getting \cup {t}) = Cardinality(Getting) + 1
<1>1. IsFiniteSet(Threads)
  BY ConnPoolAssumption
<1>2. IsFiniteSet(Getting)
  <2>1. Getting \subseteq Threads
    BY DEF Getting
  <2> QED
    BY <1>1, <2>1, FS_Subset
<1>3. Cardinality(Getting) \in Nat
  BY <1>2, FS_CardinalityType
<1>4. ASSUME pc[t] = "get" PROVE Cardinality(Getting \ {t}) = Cardinality(Getting) - 1
  <2>1. t \in Getting
    BY <1>4 DEF Getting
  <2> QED
    BY <1>2, <2>1, FS_RemoveElement
<1>5. ASSUME pc[t] # "get" PROVE Cardinality(Getting \cup {t}) = Cardinality(Getting) + 1
  <2>1. t \notin Getting
    BY <1>5 DEF Getting
  <2> QED
    BY <1>2, <2>1, FS_AddElement
<1> QED
  BY <1>3, <1>4, <1>5

\* The types a step of a thread leaves alone.
LEMMA PoolTypes ==
  ASSUME PoolInv
  PROVE  /\ pool \in Seq(Conns) /\ Len(pool) \in Nat /\ IsInjective(pool)
         /\ pc \in [Threads -> {"idle", "get", "sleepy", "waiting", "use"}]
         /\ held \in [Threads -> Seq(Conns)]
         /\ \A t \in Threads : held[t] \in Seq(Conns) /\ IsInjective(held[t])
         /\ lock = NoThread => \A t \in Threads : pc[t] # "sleepy"
BY ConnPoolAssumption DEF PoolInv, TypeOK, OneOwner

\* A step that leaves the connections where they are disturbs no owner.
LEMMA NobodyMoves ==
  ASSUME OneOwner, UNCHANGED <<pool, held, leaked>>
  PROVE  OneOwner'
BY DEF OneOwner, InPool, HeldBy, IsInjective, Range

-----------------------------------------------------------------------------
\* The constructor queues every connection once.
LEMMA InitInv == Init => PoolInv
<1> SUFFICES ASSUME Init PROVE PoolInv
  OBVIOUS
<1>0. IsFiniteSet(Conns) /\ Cardinality(Conns) \in Nat
  BY ConnPoolAssumption, FS_CardinalityType
<1>1. pool \in Seq(Conns) /\ IsInjective(pool)
  <2>1. pool \in [1 .. Cardinality(Conns) -> Conns] /\ IsInjective(pool)
    BY DEF Init
  <2> QED
    BY <1>0, <2>1
<1>2. \A t \in Threads : held[t] = <<>> /\ pc[t] = "idle"
  BY DEF Init
<1>3. TypeOK
  <2>1. held \in [Threads -> Seq(Conns)]
    BY DEF Init
  <2>2. nested \in [Threads -> 0 .. MaxNested]
    BY ConnPoolAssumption DEF Init
  <2>3. kind \in [Threads -> Kinds \cup {"none"}] /\ leaked \subseteq Conns
    BY DEF Init
  <2>4. /\ isStop \in BOOLEAN /\ notified \in BOOLEAN
        /\ lock \in Threads \cup {NoThread}
        /\ pc \in [Threads -> {"idle", "get", "sleepy", "waiting", "use"}]
        /\ \A t \in Threads : pc[t] = "sleepy" <=> lock = t
    BY ConnPoolAssumption DEF Init
  <2> QED
    BY <1>1, <2>1, <2>2, <2>3, <2>4 DEF TypeOK
<1>4. OneOwner
  <2>1. \A t \in Threads : IsInjective(held[t]) /\ HeldBy(t) = {}
    BY <1>2 DEF IsInjective, HeldBy, Range
  <2>2. leaked = {}
    BY DEF Init
  <2> QED
    BY <1>1, <2>1, <2>2 DEF OneOwner
<1>5. SleepyInv /\ NoLostWakeup
  BY <1>2 DEF SleepyInv, NoLostWakeup, Waiting
<1> QED
  BY <1>3, <1>4, <1>5 DEF PoolInv

-----------------------------------------------------------------------------
(***************************************************************************)
(* One lemma per action.                                                   *)
(***************************************************************************)

\* nullptr is answered only after close(): nobody will sleep for a connection.
LEMMA GetNullInv == \A t \in Threads : PoolInv /\ GetNull(t) => PoolInv'
<1> SUFFICES ASSUME NEW t \in Threads, PoolInv, GetNull(t) PROVE PoolInv'
  OBVIOUS
<1> USE DEF GetNull
<1>1. TypeOK'
  BY ConnPoolAssumption DEF PoolInv, TypeOK
<1>2. OneOwner'
  BY NobodyMoves DEF PoolInv
<1>3. SleepyInv' /\ NoLostWakeup'
  BY DEF SleepyInv, NoLostWakeup
<1> QED
  BY <1>1, <1>2, <1>3 DEF PoolInv

\* One connection less, one thread less on its way to it.
LEMMA GetFrontInv == \A t \in Threads : PoolInv /\ GetFront(t) => PoolInv'
<1> SUFFICES ASSUME NEW t \in Threads, PoolInv, GetFront(t) PROVE PoolInv'
  OBVIOUS
<1>0. /\ pool \in Seq(Conns) /\ Len(pool) \in Nat /\ IsInjective(pool)
      /\ pc \in [Threads -> {"idle", "get", "sleepy", "waiting", "use"}]
      /\ held \in [Threads -> Seq(Conns)]
      /\ held[t] \in Seq(Conns) /\ IsInjective(held[t])
      /\ \A u \in Threads : pc[u] # "sleepy"
  BY PoolTypes DEF GetFront
<1>1. /\ Head(pool) \in Conns /\ pool' \in Seq(Conns) /\ Len(pool') = Len(pool) - 1
      /\ IsInjective(pool')
      /\ InPool' = InPool \ {Head(pool)} /\ Head(pool) \in InPool
  BY <1>0, TakeFront DEF GetFront, InPool
<1>2. /\ held'[t] \in Seq(Conns) /\ IsInjective(held'[t])
      /\ HeldBy(t)' = HeldBy(t) \cup {Head(pool)}
      /\ \A u \in Threads \ {t} : held'[u] = held[u]
      /\ held' \in [Threads -> Seq(Conns)]
  <2>1. Head(pool) \notin Range(held[t])
    BY <1>1 DEF PoolInv, OneOwner, HeldBy
  <2>2. held'[t] = Append(held[t], Head(pool)) /\ \A u \in Threads \ {t} : held'[u] = held[u]
    BY <1>0 DEF GetFront
  <2>3. /\ Append(held[t], Head(pool)) \in Seq(Conns)
        /\ IsInjective(Append(held[t], Head(pool)))
        /\ Range(Append(held[t], Head(pool))) = Range(held[t]) \cup {Head(pool)}
    BY <1>0, <1>1, <2>1, PutBack
  <2>4. held' = [held EXCEPT ![t] = Append(held[t], Head(pool))]
    BY DEF GetFront
  <2>5. held' \in [Threads -> Seq(Conns)]
    BY <1>0, <2>3, <2>4
  <2> QED
    BY <2>2, <2>3, <2>5 DEF HeldBy
<1>3. pc'[t] = "use" /\ \A u \in Threads \ {t} : pc'[u] = pc[u]
  BY <1>0 DEF GetFront
<1>4. TypeOK'
  <2>1. /\ isStop' \in BOOLEAN /\ notified' \in BOOLEAN
        /\ lock' \in Threads \cup {NoThread}
        /\ kind' \in [Threads -> Kinds \cup {"none"}]
        /\ nested' \in [Threads -> 0 .. MaxNested]
        /\ leaked' \subseteq Conns
    BY DEF PoolInv, TypeOK, GetFront
  <2>2. pc' \in [Threads -> {"idle", "get", "sleepy", "waiting", "use"}]
    BY <1>0 DEF GetFront
  <2>3. \A u \in Threads : pc'[u] = "sleepy" <=> lock' = u
    BY <1>0, <1>3, ConnPoolAssumption DEF GetFront
  <2> QED
    BY <1>1, <1>2, <2>1, <2>2, <2>3 DEF TypeOK
<1>5. OneOwner'
  <2>1. \A u \in Threads \ {t} : HeldBy(u)' = HeldBy(u) /\ IsInjective(held'[u])
    BY <1>2 DEF HeldBy, PoolInv, OneOwner
  <2>2. leaked' = leaked
    BY DEF GetFront
  <2> QED
    BY <1>1, <1>2, <2>1, <2>2 DEF PoolInv, OneOwner
<1>6. SleepyInv'
  BY <1>0, <1>3 DEF SleepyInv
<1>7. NoLostWakeup'
  <2>1. Waiting' = Waiting /\ Getting' = Getting \ {t} /\ pc[t] = "get" /\ isStop' = isStop
    BY <1>3 DEF GetFront, Waiting, Getting
  <2>2. Cardinality(Getting) \in Nat /\ Cardinality(Getting') = Cardinality(Getting) - 1
    BY <2>1, GettingCounts
  <2> QED
    BY <1>0, <1>1, <2>1, <2>2 DEF PoolInv, NoLostWakeup
<1> QED
  BY <1>4, <1>5, <1>6, <1>7 DEF PoolInv

\* The queue is empty, and the mutex keeps it so until the thread sleeps.
LEMMA GetWillWaitInv == \A t \in Threads : PoolInv /\ GetWillWait(t) => PoolInv'
<1> SUFFICES ASSUME NEW t \in Threads, PoolInv, GetWillWait(t) PROVE PoolInv'
  OBVIOUS
<1>1. TypeOK'
  BY ConnPoolAssumption DEF PoolInv, TypeOK, GetWillWait
<1>2. OneOwner'
  BY NobodyMoves DEF PoolInv, GetWillWait
<1>3. SleepyInv'
  BY DEF SleepyInv, GetWillWait
<1>4. NoLostWakeup'
  <2>1. Getting' = Getting \ {t} /\ pc[t] = "get"
    BY PoolTypes DEF Getting, GetWillWait
  <2>2. Cardinality(Getting') = Cardinality(Getting) - 1 /\ Cardinality(Getting) \in Nat
    BY <2>1, GettingCounts
  <2>3. Cardinality(Getting') \in Nat
    <3>1. IsFiniteSet(Getting')
      <4>1. Getting' \subseteq Threads
        BY DEF Getting
      <4> QED
        BY <4>1, ConnPoolAssumption, FS_Subset
    <3> QED
      BY <3>1, FS_CardinalityType
  <2>4. Len(pool') = 0
    BY DEF GetWillWait
  <2> QED
    BY <2>3, <2>4 DEF NoLostWakeup
<1> QED
  BY <1>1, <1>2, <1>3, <1>4 DEF PoolInv

\* A thread falls asleep on an empty queue, or after close().
LEMMA SleepInv == \A t \in Threads : PoolInv /\ Sleep(t) => PoolInv'
<1> SUFFICES ASSUME NEW t \in Threads, PoolInv, Sleep(t) PROVE PoolInv'
  OBVIOUS
<1>1. TypeOK'
  BY ConnPoolAssumption DEF PoolInv, TypeOK, Sleep
<1>2. OneOwner'
  BY NobodyMoves DEF PoolInv, Sleep
<1>3. SleepyInv'
  BY PoolTypes DEF PoolInv, SleepyInv, Sleep
<1>4. NoLostWakeup'
  <2>1. ~isStop' => Len(pool') = 0
    BY DEF PoolInv, SleepyInv, Sleep
  <2>2. Getting' = Getting
    BY PoolTypes DEF Getting, Sleep
  <2>3. Cardinality(Getting) \in Nat
    BY GettingCounts
  <2> QED
    BY <2>1, <2>2, <2>3 DEF NoLostWakeup
<1> QED
  BY <1>1, <1>2, <1>3, <1>4 DEF PoolInv

\* A thread that enters getConnection again only adds to those awake in it.
LEMMA EnterInv ==
  ASSUME PoolInv, NEW t \in Threads, pc[t] \notin {"get", "sleepy"},
         pc' = [pc EXCEPT ![t] = "get"],
         UNCHANGED <<pool, isStop, held, leaked>>
  PROVE  OneOwner' /\ SleepyInv' /\ NoLostWakeup'
<1>1. pc'[t] = "get" /\ \A u \in Threads \ {t} : pc'[u] = pc[u]
  BY PoolTypes
<1>2. OneOwner'
  BY NobodyMoves DEF PoolInv
<1>3. SleepyInv'
  BY <1>1 DEF PoolInv, SleepyInv
<1>4. NoLostWakeup'
  <2>1. Waiting' \subseteq Waiting /\ Getting' = Getting \cup {t}
    BY <1>1 DEF Waiting, Getting
  <2>2. Cardinality(Getting) \in Nat /\ Cardinality(Getting') = Cardinality(Getting) + 1
    BY <2>1, GettingCounts
  <2>3. Len(pool) \in Nat
    BY PoolTypes
  <2> QED
    BY <2>1, <2>2, <2>3 DEF PoolInv, NoLostWakeup
<1> QED
  BY <1>2, <1>3, <1>4

LEMMA SpuriousWakeupInv == \A t \in Threads : PoolInv /\ SpuriousWakeup(t) => PoolInv'
<1> SUFFICES ASSUME NEW t \in Threads, PoolInv, SpuriousWakeup(t) PROVE PoolInv'
  OBVIOUS
<1>1. TypeOK'
  BY DEF PoolInv, TypeOK, SpuriousWakeup
<1>2. OneOwner' /\ SleepyInv' /\ NoLostWakeup'
  BY EnterInv DEF SpuriousWakeup
<1> QED
  BY <1>1, <1>2 DEF PoolInv

LEMMA BeginInv == \A t \in Threads : PoolInv /\ Begin(t) => PoolInv'
<1> SUFFICES ASSUME NEW t \in Threads, PoolInv, Begin(t) PROVE PoolInv'
  OBVIOUS
<1>1. TypeOK'
  <2>1. CASE "plain" \in Kinds /\ BeginPlain(t)
    BY <2>1 DEF PoolInv, TypeOK, BeginPlain
  <2>2. CASE "nested" \in Kinds /\ BeginGetFriendList(t)
    BY <2>2 DEF PoolInv, TypeOK, BeginGetFriendList
  <2>3. CASE "leaky" \in Kinds /\ BeginLeaky(t)
    BY <2>3 DEF PoolInv, TypeOK, BeginLeaky
  <2> QED
    BY <2>1, <2>2, <2>3 DEF Begin
<1>2. OneOwner' /\ SleepyInv' /\ NoLostWakeup'
  BY EnterInv DEF Begin, BeginPlain, BeginGetFriendList, BeginLeaky
<1> QED
  BY <1>1, <1>2 DEF PoolInv

LEMMA GetUserInv == \A t \in Threads : PoolInv /\ GetUser(t) => PoolInv'
<1> SUFFICES ASSUME NEW t \in Threads, PoolInv, GetUser(t) PROVE PoolInv'
  OBVIOUS
<1>1. TypeOK'
  <2>1. nested[t] \in 0 .. MaxNested /\ nested[t] > 0
    BY DEF PoolInv, TypeOK, GetUser
  <2>2. nested[t] - 1 \in 0 .. MaxNested
    BY <2>1, ConnPoolAssumption
  <2> QED
    BY <2>2 DEF PoolInv, TypeOK, GetUser
<1>2. OneOwner' /\ SleepyInv' /\ NoLostWakeup'
  BY EnterInv DEF GetUser
<1> QED
  BY <1>1, <1>2 DEF PoolInv

\* What giving up the innermost connection does to its owner.
LEMMA InnermostLeaves ==
  ASSUME PoolInv, NEW t \in Threads, held[t] # <<>>,
         held' = [held EXCEPT ![t] = Outer(t)]
  PROVE  /\ held' \in [Threads -> Seq(Conns)]
         /\ Innermost(t) \in Conns /\ Innermost(t) \in HeldBy(t)
         /\ IsInjective(held'[t]) /\ HeldBy(t)' = HeldBy(t) \ {Innermost(t)}
         /\ \A u \in Threads \ {t} : /\ IsInjective(held'[u])
                                     /\ HeldBy(u)' = HeldBy(u)
<1>1. /\ held \in [Threads -> Seq(Conns)]
      /\ \A u \in Threads : held[u] \in Seq(Conns) /\ IsInjective(held[u])
  BY PoolTypes
<1>2. /\ Innermost(t) \in Conns /\ Outer(t) \in Seq(Conns) /\ IsInjective(Outer(t))
      /\ Range(Outer(t)) = Range(held[t]) \ {Innermost(t)} /\ Innermost(t) \in Range(held[t])
  BY <1>1, GiveUp DEF Innermost, Outer
<1>3. held'[t] = Outer(t) /\ \A u \in Threads \ {t} : held'[u] = held[u]
  BY <1>1
<1>4. held' \in [Threads -> Seq(Conns)]
  BY <1>1, <1>2
<1> QED
  BY <1>1, <1>2, <1>3, <1>4 DEF HeldBy

\* After close() a connection that comes back is not queued.
LEMMA ReturnStoppedInv == \A t \in Threads : PoolInv /\ ReturnStopped(t) => PoolInv'
<1> SUFFICES ASSUME NEW t \in Threads, PoolInv, ReturnStopped(t) PROVE PoolInv'
  OBVIOUS
<1>1. /\ held' \in [Threads -> Seq(Conns)]
      /\ IsInjective(held'[t]) /\ HeldBy(t)' = HeldBy(t) \ {Innermost(t)}
      /\ \A u \in Threads \ {t} : IsInjective(held'[u]) /\ HeldBy(u)' = HeldBy(u)
  BY InnermostLeaves DEF ReturnStopped
<1>2. TypeOK'
  <2>1. AfterReturn(t) \in {"idle", "use"}
    BY DEF AfterReturn
  <2> QED
    BY <1>1, <2>1, ConnPoolAssumption DEF PoolInv, TypeOK, ReturnStopped
<1>3. OneOwner'
  <2>1. pool' = pool /\ leaked' = leaked /\ InPool' = InPool
    BY DEF ReturnStopped, InPool
  <2> QED
    BY <1>1, <2>1 DEF PoolInv, OneOwner
<1>4. SleepyInv' /\ NoLostWakeup'
  BY DEF SleepyInv, NoLostWakeup, ReturnStopped
<1> QED
  BY <1>2, <1>3, <1>4 DEF PoolInv

\* One connection more in the queue: whoever sleeps, one of them is woken.
LEMMA ReturnInv == \A t \in Threads : PoolInv /\ Return(t) => PoolInv'
<1> SUFFICES ASSUME NEW t \in Threads, PoolInv, Return(t) PROVE PoolInv'
  OBVIOUS
<1>0. /\ pool \in Seq(Conns) /\ Len(pool) \in Nat /\ IsInjective(pool)
      /\ pc \in [Threads -> {"idle", "get", "sleepy", "waiting", "use"}]
      /\ \A u \in Threads : pc[u] # "sleepy"
      /\ pc[t] = "use"
  BY PoolTypes DEF Return
<1>1. /\ held' \in [Threads -> Seq(Conns)]
      /\ Innermost(t) \in Conns /\ Innermost(t) \in HeldBy(t)
      /\ IsInjective(held'[t]) /\ HeldBy(t)' = HeldBy(t) \ {Innermost(t)}
      /\ \A u \in Threads \ {t} : IsInjective(held'[u]) /\ HeldBy(u)' = HeldBy(u)
  BY InnermostLeaves DEF Return
<1>2. /\ pool' \in Seq(Conns) /\ Len(pool') = Len(pool) + 1
      /\ IsInjective(pool') /\ InPool' = InPool \cup {Innermost(t)}
  <2>1. Innermost(t) \notin Range(pool)
    BY <1>1 DEF PoolInv, OneOwner, InPool
  <2> QED
    BY <1>0, <1>1, <2>1, PutBack DEF Return, InPool
<1>3. AfterReturn(t) \in {"idle", "use"}
  BY DEF AfterReturn
<1>4. PICK W \in SUBSET Waiting :
        /\ W = {} => Waiting = {}
        /\ pc' \in [Threads -> {"idle", "get", "sleepy", "waiting", "use"}]
        /\ pc'[t] \in {"idle", "use"}
        /\ \A w \in W : pc'[w] = "get" /\ W = {w}
        /\ \A u \in Threads \ (W \cup {t}) : pc'[u] = pc[u]
  <2>1. CASE Waiting = {} /\ pc' = [pc EXCEPT ![t] = AfterReturn(t)]
    <3>1. /\ pc' \in [Threads -> {"idle", "get", "sleepy", "waiting", "use"}]
          /\ pc'[t] \in {"idle", "use"}
          /\ \A u \in Threads \ {t} : pc'[u] = pc[u]
      BY <1>0, <1>3, <2>1
    <3> WITNESS {} \in SUBSET Waiting
    <3> QED
      BY <2>1, <3>1
  <2>2. CASE \E w \in Waiting : pc' = [pc EXCEPT ![t] = AfterReturn(t), ![w] = "get"]
    <3>1. PICK w \in Waiting : pc' = [pc EXCEPT ![t] = AfterReturn(t), ![w] = "get"]
      BY <2>2
    <3>2. w \in Threads /\ w # t
      BY <1>0 DEF Waiting
    <3>3. /\ pc' \in [Threads -> {"idle", "get", "sleepy", "waiting", "use"}]
          /\ pc'[t] \in {"idle", "use"} /\ pc'[w] = "get"
          /\ \A u \in Threads \ {w, t} : pc'[u] = pc[u]
      BY <1>0, <1>3, <3>1, <3>2
    <3> WITNESS {w} \in SUBSET Waiting
    <3> QED
      BY <3>3
  <2> QED
    BY <2>1, <2>2 DEF Return
<1>5. \A u \in Threads : pc'[u] # "sleepy"
  BY <1>0, <1>4
<1>6. TypeOK'
  <2>1. /\ isStop' \in BOOLEAN /\ notified' \in BOOLEAN /\ lock' = NoThread
        /\ kind' \in [Threads -> Kinds \cup {"none"}]
        /\ nested' \in [Threads -> 0 .. MaxNested]
        /\ leaked' \subseteq Conns
    BY DEF PoolInv, TypeOK, Return
  <2> QED
    BY <1>1, <1>2, <1>4, <1>5, <2>1, ConnPoolAssumption DEF TypeOK
<1>7. OneOwner'
  <2>1. leaked' = leaked
    BY DEF Return
  <2> QED
    BY <1>1, <1>2, <2>1 DEF PoolInv, OneOwner
<1>8. SleepyInv'
  BY <1>5 DEF SleepyInv
<1>9. NoLostWakeup'
  <2>1. CASE W = {}
    <3>1. Waiting' = {}
      BY <1>4, <2>1 DEF Waiting
    <3> QED
      BY <3>1 DEF NoLostWakeup
  <2>2. CASE W # {}
    <3>1. PICK w \in W : W = {w} /\ pc'[w] = "get"
      BY <1>4, <2>2
    <3>2. w \in Threads /\ pc[w] = "waiting"
      BY <1>4, <3>1 DEF Waiting
    <3>3. Getting' = Getting \cup {w}
      BY <1>0, <1>4, <3>1, <3>2 DEF Getting
    <3>4. Cardinality(Getting) \in Nat /\ Cardinality(Getting') = Cardinality(Getting) + 1
      BY <3>2, <3>3, GettingCounts
    <3>5. ~isStop /\ Waiting # {}
      BY <1>4, <3>1 DEF Return
    <3>6. Len(pool) <= Cardinality(Getting)
      BY <3>5 DEF PoolInv, NoLostWakeup
    <3> QED
      BY <1>0, <1>2, <3>4, <3>6 DEF NoLostWakeup
  <2> QED
    BY <2>1, <2>2
<1> QED
  BY <1>6, <1>7, <1>8, <1>9 DEF PoolInv

\* A connection nobody gives back is lost, but has no second owner.
LEMMA ReplyIsNullInv == \A t \in Threads : PoolInv /\ ReplyIsNull(t) => PoolInv'
<1> SUFFICES ASSUME NEW t \in Threads, PoolInv, ReplyIsNull(t) PROVE PoolInv'
  OBVIOUS
<1>0. /\ pc \in [Threads -> {"idle", "get", "sleepy", "waiting", "use"}]
      /\ held \in [Threads -> Seq(Conns)] /\ held[t] \in Seq(Conns)
  BY PoolTypes
<1>1. held'[t] = <<>> /\ \A u \in Threads \ {t} : held'[u] = held[u]
  BY <1>0 DEF ReplyIsNull
<1>2. pc'[t] = "idle" /\ pc[t] = "use" /\ \A u \in Threads \ {t} : pc'[u] = pc[u]
  BY <1>0 DEF ReplyIsNull
<1>3. TypeOK'
  <2>1. HeldBy(t) \subseteq Conns
    BY <1>0 DEF HeldBy, Range
  <2>2. held' \in [Threads -> Seq(Conns)]
    BY <1>0 DEF ReplyIsNull
  <2> QED
    BY <2>1, <2>2 DEF PoolInv, TypeOK, ReplyIsNull
<1>4. OneOwner'
  <2>1. IsInjective(held'[t]) /\ HeldBy(t)' = {}
    BY <1>1 DEF HeldBy, Range, IsInjective
  <2>2. \A u \in Threads \ {t} : HeldBy(u)' = HeldBy(u) /\ IsInjective(held'[u])
    BY <1>1 DEF HeldBy, PoolInv, OneOwner
  <2>3. pool' = pool /\ InPool' = InPool /\ leaked' = leaked \cup HeldBy(t)
    BY DEF ReplyIsNull, InPool
  <2> QED
    BY <2>1, <2>2, <2>3 DEF PoolInv, OneOwner
<1>5. SleepyInv'
  BY <1>2 DEF PoolInv, SleepyInv, ReplyIsNull
<1>6. NoLostWakeup'
  <2>1. Waiting' = Waiting /\ Getting' = Getting
    BY <1>2 DEF Waiting, Getting
  <2> QED
    BY <2>1 DEF PoolInv, NoLostWakeup, ReplyIsNull
<1> QED
  BY <1>3, <1>4, <1>5, <1>6 DEF PoolInv

LEMMA CloseInv == PoolInv /\ (CloseStores \/ CloseNotifies) => PoolInv'
<1>1. ASSUME PoolInv, CloseStores PROVE PoolInv'
  <2>1. TypeOK'
    BY <1>1 DEF PoolInv, TypeOK, CloseStores
  <2>2. OneOwner'
    BY <1>1, NobodyMoves DEF PoolInv, CloseStores
  <2>3. SleepyInv' /\ NoLostWakeup'
    BY <1>1 DEF SleepyInv, NoLostWakeup, CloseStores
  <2> QED
    BY <2>1, <2>2, <2>3 DEF PoolInv
<1>2. ASSUME PoolInv, CloseNotifies PROVE PoolInv'
  <2>1. TypeOK'
    BY <1>2 DEF PoolInv, TypeOK, CloseNotifies
  <2>2. OneOwner'
    BY <1>2, NobodyMoves DEF PoolInv, CloseNotifies
  <2>3. SleepyInv' /\ NoLostWakeup'
    BY <1>2 DEF SleepyInv, NoLostWakeup, CloseNotifies
  <2> QED
    BY <2>1, <2>2, <2>3 DEF PoolInv
<1> QED
  BY <1>1, <1>2

-----------------------------------------------------------------------------
LEMMA StepInv == PoolInv /\ [Next]_vars => PoolInv'
<1> SUFFICES ASSUME PoolInv, [Next]_vars PROVE PoolInv'
  OBVIOUS
<1>1. ASSUME NEW t \in Threads, Begin(t) \/ Step(t) \/ SpuriousWakeup(t) PROVE PoolInv'
  BY <1>1, BeginInv, SpuriousWakeupInv, GetNullInv, GetFrontInv, GetWillWaitInv, SleepInv,
     ReturnStoppedInv, ReturnInv, GetUserInv, ReplyIsNullInv DEF Step
<1>2. ASSUME CloseStores \/ CloseNotifies PROVE PoolInv'
  BY <1>2, CloseInv
<1>3. ASSUME UNCHANGED vars PROVE PoolInv'
  <2>1. OneOwner'
    BY <1>3, NobodyMoves DEF PoolInv, vars
  <2>2. TypeOK' /\ SleepyInv'
    BY <1>3 DEF PoolInv, TypeOK, SleepyInv, vars
  <2>3. NoLostWakeup'
    BY <1>3 DEF PoolInv, NoLostWakeup, Waiting, Getting, vars
  <2> QED
    BY <2>1, <2>2, <2>3 DEF PoolInv
<1> QED
  BY <1>1, <1>2, <1>3 DEF Next

LEMMA SpecInv == Spec => []PoolInv
BY InitInv, StepInv, PTL DEF Spec

\* Types, and the mutex held across a step by the thread about to sleep only
\* (getConnection).
THEOREM TypeCorrect == Spec => []TypeOK
BY SpecInv, PTL DEF PoolInv

\* Every connection is queued once, held by one thread or lost, for any number
\* of connections and threads and any nesting of requests (getConnection,
\* returnConnection).
THEOREM OwnersDistinct == Spec => []OneOwner
BY SpecInv, PTL DEF PoolInv

\* notify_one wakes enough: while threads sleep, at least as many are awake in
\* getConnection as connections are free (returnConnection).
THEOREM WakeupsSuffice == Spec => []NoLostWakeup
BY SpecInv, PTL DEF PoolInv
=============================================================================
