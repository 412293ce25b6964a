------------------------ MODULE ChatCacheManagerProofs ------------------------
(***************************************************************************)
(* Proofs about the cache of messages, for any finite sets of messages and *)
(* history requests, any set of markings, any limit and any number of      *)
(* failures.  None of the invariants is inductive as it stands:            *)
(*                                                                         *)
(*   BoundInv   counts the pushes still to come, so that the number HGET   *)
(*              read, plus one, stays within the pushes there can be;      *)
(*   QueueInv   counts the runs between RPUSH and HGET: an HSET may lose   *)
(*              an increment but writes no more than was queued, and the   *)
(*              run that will make the count positive is known;            *)
(*   UnreadInv  says where an unread message is while it is not queued;    *)
(*   ReplyInv   says that a history request has all that was stored from   *)
(*              its reading of the table on.                               *)
(***************************************************************************)
EXTENDS ChatCacheManager, FiniteSetTheorems, TLAPS

Cachers == Msgs \cup Histories   \* the runs that call CacheNewMessage
Steps == CacheSteps \cup {"idle", "read", "del", "zero", "done"}
Run == [at: Steps, msg: Msgs \cup {None}, n: 0 .. MaxPushes, todo: SUBSET Msgs,
        hit: SUBSET Msgs, rows: SUBSET Msgs, start: SUBSET Msgs, failed: BOOLEAN]

\* Types without the bounds, which BoundInv is about.
Types ==
  /\ table \in [Msgs -> {"absent", "unread", "read"}]
  /\ unread \in Seq(Msgs) /\ count \in Nat
  /\ run \in [Runs -> Run] /\ fails \in 0 .. MaxFails
  /\ tangled \in BOOLEAN /\ overlapped \in BOOLEAN /\ recached \in BOOLEAN

\* What every handler works on has been stored; a message's handler caches the
\* message, a history's one row after the other.
CacherOf(r) ==
  /\ run[r].at \notin {"del", "zero"}
  /\ run[r].at \in CacheSteps => run[r].msg \in Stored /\ run[r].msg \notin run[r].todo
  /\ run[r].todo \subseteq Stored /\ run[r].start \subseteq Stored
  /\ r \in Msgs => /\ run[r].todo = {} /\ run[r].at # "read"
                   /\ run[r].at \in CacheSteps => run[r].msg = r
MarkOf(k) == run[k].at \in {"idle", "del", "zero", "done"}

ShapeInv ==
  /\ details \subseteq Stored /\ listed \subseteq Stored
  /\ \A r \in Cachers : CacherOf(r)
  /\ \A k \in Marks : MarkOf(k)

\* The messages that run r, with record p, may still push.
Ahead(r, p) ==
  (IF p.at \in {"idle", "read"} THEN IF r \in Msgs THEN {r} ELSE Msgs ELSE p.todo)
    \cup (IF p.at \in {"details", "lists", "push"} THEN {p.msg} ELSE {})
ToPush == {x \in Cachers \X Msgs : x[2] \in Ahead(x[1], run[x[1]])}

\* The runs that have pushed and not read the count.
Pushed == {r \in Cachers : run[r].at = "hget"}

\* No number outgrows the pushes there can be.
BoundInv ==
  /\ Len(unread) + Cardinality(ToPush) <= MaxPushes
  /\ count + Cardinality(Pushed) + Cardinality(ToPush) <= MaxPushes
  /\ \A r \in Cachers : run[r].at = "hset" =>
       run[r].n + 1 + Cardinality(Pushed) + Cardinality(ToPush) <= MaxPushes

\* While a marking is between DEL and HSET, nothing is queued and nobody
\* counts.  Otherwise what is counted, and will be, is queued; and a queue
\* with no count has somebody about to count it.
Zeroing == \E k \in Marks : run[k].at = "zero"
QueueInv ==
  fails = 0 /\ ~tangled =>
    /\ Zeroing => unread = <<>> /\ ~Uncounted
    /\ ~Zeroing =>
         /\ count + Cardinality(Pushed) <= Len(unread)
         /\ \A r \in Cachers : run[r].at = "hset" =>
              run[r].n + 1 + Cardinality(Pushed) <= Len(unread)
         /\ count = 0 /\ unread # <<>> => Uncounted

\* Where an unread message is, and that nothing else is queued until a history
\* request caches old messages.
Queued(m) == \E i \in 1 .. Len(unread) : unread[i] = m
Open(m) == table[m] = "unread"
UnreadInv ==
  fails = 0 /\ ~overlapped =>
    /\ ~tangled /\ ~(ActiveMark /\ ActiveOther)
    /\ \A m \in Msgs : Open(m) => /\ ~ActiveMark
                                  /\ Queued(m) \/ run[m].at \in {"details", "lists", "push"}
    /\ ~recached =>
         /\ \A h \in Histories : run[h].at \in {"idle", "read", "done"}
         /\ ~ActiveMark => \A m \in Msgs : Queued(m) \/ Active(m) => Open(m)

\* From the reading of the table on, a history request has what it promises.
ReplyInv ==
  \A h \in Histories :
    /\ run[h].at \notin {"idle", "read"} /\ ~run[h].failed
    /\ Cardinality(run[h].hit) + Cardinality(Stored) <= LIMIT
    => run[h].start \subseteq run[h].hit \cup run[h].rows

\* The inductive invariant of the cache.
CacheInv == Types /\ ShapeInv /\ BoundInv /\ QueueInv /\ UnreadInv /\ ReplyInv

-----------------------------------------------------------------------------
(***************************************************************************)
(* What the steps do to the records of the runs.                           *)
(***************************************************************************)

\* Only run r changes.
Only(r) == run' \in [Runs -> Run] /\ \A s \in Runs \ {r} : run'[s] = run[s]

\* Run r goes to a step and keeps everything else, but perhaps its number.
Moved(r, step) ==
  /\ Only(r)
  /\ run'[r].at = step /\ run'[r].msg = run[r].msg
  /\ run'[r].todo = run[r].todo /\ run'[r].hit = run[r].hit /\ run'[r].rows = run[r].rows
  /\ run'[r].start = run[r].start /\ run'[r].failed = run[r].failed

\* Run r, with record p, is done or takes the next of its rows.
Resumed(r, p) ==
  /\ Only(r)
  /\ run'[r].hit = p.hit /\ run'[r].rows = p.rows
  /\ run'[r].start = p.start /\ run'[r].failed = p.failed
  /\ \/ p.todo = {} /\ run'[r].at = "done" /\ run'[r].todo = {}
     \/ /\ run'[r].at = "details" /\ run'[r].msg \in p.todo
        /\ run'[r].todo = p.todo \ {run'[r].msg}

\* The sorts of runs, and that everything counted is finite.
LEMMA Sorts ==
  /\ Msgs \subseteq Cachers /\ Histories \subseteq Cachers
  /\ Cachers \subseteq Runs /\ Marks \subseteq Runs
  /\ \A r \in Cachers : r \notin Marks
  /\ \A h \in Histories : h \notin Msgs
  /\ \A r \in Runs : r \in Cachers \/ r \in Marks
  /\ LIMIT \in Nat /\ MaxFails \in Nat /\ None \notin Msgs
  BY ChatCacheManagerAssumption DEF Cachers, Runs

LEMMA Finite ==
  /\ IsFiniteSet(Msgs) /\ IsFiniteSet(Histories) /\ IsFiniteSet(Cachers)
  /\ IsFiniteSet(Cachers \X Msgs)
  /\ MaxPushes \in Nat
<1>1. IsFiniteSet(Msgs) /\ IsFiniteSet(Histories)
  BY ChatCacheManagerAssumption
<1>2. IsFiniteSet(Cachers)
  BY <1>1, FS_Union DEF Cachers
<1>3. IsFiniteSet(Cachers \X Msgs)
  BY <1>1, <1>2, FS_Product
<1>4. Cardinality(Msgs) \in Nat /\ Cardinality(Histories) \in Nat
  BY <1>1, FS_CardinalityType
<1>5. MaxPushes \in Nat
  BY <1>4 DEF MaxPushes
<1> QED
  BY <1>1, <1>2, <1>3, <1>5

LEMMA IdleRun == Idle \in Run
  BY Finite DEF Idle, Run, Steps

\* The fields of a record have their types.
LEMMA RunFields ==
  ASSUME NEW p \in Run
  PROVE  /\ p.at \in Steps /\ p.msg \in Msgs \cup {None} /\ p.n \in 0 .. MaxPushes
         /\ p.todo \subseteq Msgs /\ p.hit \subseteq Msgs /\ p.rows \subseteq Msgs
         /\ p.start \subseteq Msgs /\ p.failed \in BOOLEAN
  BY DEF Run

LEMMA GoesMoves ==
  ASSUME run \in [Runs -> Run], NEW r \in Runs, NEW step \in Steps, Goes(r, step)
  PROVE  Moved(r, step)
<1>1. run' = [run EXCEPT ![r].at = step]
  BY DEF Goes
<1>2. run[r] \in Run
  OBVIOUS
<1> DEFINE new == [run[r] EXCEPT !.at = step]
<1>3. new \in Run
  BY <1>2 DEF Run
<1>4. /\ new.at = step /\ new.msg = run[r].msg
      /\ new.todo = run[r].todo /\ new.hit = run[r].hit /\ new.rows = run[r].rows
      /\ new.start = run[r].start /\ new.failed = run[r].failed
  BY <1>2 DEF Run
<1>5. run' = [run EXCEPT ![r] = new]
  BY <1>1
<1> HIDE DEF new
<1>6. run' \in [Runs -> Run] /\ run'[r] = new /\ \A s \in Runs \ {r} : run'[s] = run[s]
  BY <1>3, <1>5
<1> QED
  BY <1>4, <1>6 DEF Moved, Only

LEMMA ContinuesResumes ==
  ASSUME run \in [Runs -> Run], NEW r \in Runs, NEW p \in Run, Continues(r, p)
  PROVE  Resumed(r, p)
<1>1. PICK q \in NextOf(p) : run' = [run EXCEPT ![r] = q]
  BY DEF Continues
<1>2. 0 \in 0 .. MaxPushes
  BY Finite
<1>3. /\ q \in Run
      /\ q.hit = p.hit /\ q.rows = p.rows /\ q.start = p.start /\ q.failed = p.failed
      /\ \/ p.todo = {} /\ q.at = "done" /\ q.todo = {}
         \/ q.at = "details" /\ q.msg \in p.todo /\ q.todo = p.todo \ {q.msg}
  <2>1. CASE p.todo = {}
    <3>1. q = [p EXCEPT !.at = "done", !.msg = None, !.n = 0]
      BY <2>1 DEF NextOf
    <3> QED
      BY <2>1, <3>1, <1>2 DEF Run, Steps
  <2>2. CASE p.todo # {}
    <3>1. PICK m \in p.todo : q = [p EXCEPT !.at = "details", !.msg = m, !.todo = @ \ {m}, !.n = 0]
      BY <2>2 DEF NextOf
    <3> QED
      BY <3>1, <1>2 DEF Run, Steps, CacheSteps
  <2> QED
    BY <2>1, <2>2
<1>4. run' \in [Runs -> Run] /\ run'[r] = q /\ \A s \in Runs \ {r} : run'[s] = run[s]
  BY <1>1, <1>3
<1> QED
  BY <1>3, <1>4 DEF Resumed, Only

-----------------------------------------------------------------------------
(***************************************************************************)
(* What a step leaves alone.                                               *)
(***************************************************************************)

\* Messages are never deleted from the table.
LEMMA StoredGrows ==
  ASSUME \A m \in Msgs : table[m] # "absent" => table'[m] # "absent"
  PROVE  /\ Stored \subseteq Stored'
         /\ Cardinality(Stored) \in Nat /\ Cardinality(Stored') \in Nat
         /\ Cardinality(Stored) <= Cardinality(Stored')
<1>1. Stored \subseteq Stored' /\ Stored' \subseteq Msgs
  BY DEF Stored
<1>2. IsFiniteSet(Stored')
  BY <1>1, Finite, FS_Subset
<1>3. IsFiniteSet(Stored) /\ Cardinality(Stored) <= Cardinality(Stored')
  BY <1>1, <1>2, FS_Subset
<1> QED
  BY <1>1, <1>2, <1>3, FS_CardinalityType

\* The counted sets are finite.
LEMMA CountsAreNat ==
  /\ IsFiniteSet(ToPush) /\ Cardinality(ToPush) \in Nat
  /\ IsFiniteSet(Pushed) /\ Cardinality(Pushed) \in Nat
<1>1. ToPush \subseteq Cachers \X Msgs /\ Pushed \subseteq Cachers
  BY DEF ToPush, Pushed
<1>2. IsFiniteSet(ToPush) /\ IsFiniteSet(Pushed)
  BY <1>1, Finite, FS_Subset
<1> QED
  BY <1>2, FS_CardinalityType

LEMMA CountsAreNatNext ==
  /\ IsFiniteSet(ToPush') /\ Cardinality(ToPush') \in Nat
  /\ IsFiniteSet(Pushed') /\ Cardinality(Pushed') \in Nat
<1>1. ToPush' \subseteq Cachers \X Msgs /\ Pushed' \subseteq Cachers
  BY DEF ToPush, Pushed
<1>2. IsFiniteSet(ToPush') /\ IsFiniteSet(Pushed')
  BY <1>1, Finite, FS_Subset
<1> QED
  BY <1>2, FS_CardinalityType

\* A run that has no more to push than before adds nothing.
LEMMA PushesShrink ==
  ASSUME NEW r \in Runs, Only(r),
         r \in Cachers => Ahead(r, run'[r]) \subseteq Ahead(r, run[r])
  PROVE  ToPush' \subseteq ToPush /\ Cardinality(ToPush') <= Cardinality(ToPush)
<1>1. ASSUME NEW x \in ToPush' PROVE x \in ToPush
  <2>1. x \in Cachers \X Msgs /\ x[2] \in Ahead(x[1], run'[x[1]])
    BY <1>1 DEF ToPush
  <2>2. x[1] \in Cachers /\ x[1] \in Runs
    BY <2>1, Sorts
  <2>3. Ahead(x[1], run'[x[1]]) \subseteq Ahead(x[1], run[x[1]])
    <3>1. CASE x[1] = r
      BY <3>1, <2>2
    <3>2. CASE x[1] # r
      <4>1. run'[x[1]] = run[x[1]]
        BY <3>2, <2>2 DEF Only
      <4> QED
        BY <4>1
    <3> QED
      BY <3>1, <3>2
  <2> QED
    BY <2>1, <2>3 DEF ToPush
<1>2. ToPush' \subseteq ToPush
  BY <1>1
<1> QED
  BY <1>2, CountsAreNat, FS_Subset

\* Pushing one takes it away.
LEMMA PushTakes ==
  ASSUME NEW r \in Cachers, Only(r), NEW m \in Msgs,
         m \in Ahead(r, run[r]), Ahead(r, run'[r]) \subseteq Ahead(r, run[r]) \ {m}
  PROVE  Cardinality(ToPush') + 1 <= Cardinality(ToPush)
<1>1. ToPush' \subseteq ToPush
  BY PushesShrink, Sorts
<1>2. <<r, m>> \in ToPush
  BY DEF ToPush
<1>3. <<r, m>> \notin ToPush'
  BY DEF ToPush
<1>4. ToPush' \subseteq ToPush \ {<<r, m>>}
  BY <1>1, <1>3
<1>5. /\ IsFiniteSet(ToPush \ {<<r, m>>})
      /\ Cardinality(ToPush \ {<<r, m>>}) = Cardinality(ToPush) - 1
  BY <1>2, CountsAreNat, FS_RemoveElement
<1>6. Cardinality(ToPush') <= Cardinality(ToPush \ {<<r, m>>})
  BY <1>4, <1>5, FS_Subset
<1> QED
  BY <1>5, <1>6, CountsAreNat, CountsAreNatNext

\* The runs between RPUSH and HGET.
LEMMA PushedSame ==
  ASSUME NEW r \in Runs, Only(r),
         r \in Cachers => run[r].at # "hget" /\ run'[r].at # "hget"
  PROVE  Pushed' = Pushed
<1>1. ASSUME NEW s \in Cachers PROVE run'[s].at = "hget" <=> run[s].at = "hget"
  <2>1. CASE s = r
    BY <2>1
  <2>2. CASE s # r
    BY <2>2, Sorts DEF Only
  <2> QED
    BY <2>1, <2>2
<1> QED
  BY <1>1 DEF Pushed

LEMMA PushedMore ==
  ASSUME NEW r \in Cachers, Only(r), run[r].at # "hget", run'[r].at = "hget"
  PROVE  Cardinality(Pushed') = Cardinality(Pushed) + 1
<1>1. ASSUME NEW s \in Cachers PROVE run'[s].at = "hget" <=> run[s].at = "hget" \/ s = r
  <2>1. CASE s = r
    BY <2>1
  <2>2. CASE s # r
    BY <2>2, Sorts DEF Only
  <2> QED
    BY <2>1, <2>2
<1>2. Pushed' = Pushed \cup {r} /\ r \notin Pushed
  BY <1>1 DEF Pushed
<1> QED
  BY <1>2, CountsAreNat, FS_AddElement

LEMMA PushedLess ==
  ASSUME NEW r \in Cachers, Only(r), run[r].at = "hget", run'[r].at # "hget"
  PROVE  Cardinality(Pushed') + 1 = Cardinality(Pushed)
<1>1. ASSUME NEW s \in Cachers PROVE run'[s].at = "hget" <=> run[s].at = "hget" /\ s # r
  <2>1. CASE s = r
    BY <2>1
  <2>2. CASE s # r
    BY <2>2, Sorts DEF Only
  <2> QED
    BY <2>1, <2>2
<1>2. Pushed' = Pushed \ {r} /\ r \in Pushed
  BY <1>1 DEF Pushed
<1>3. Cardinality(Pushed') = Cardinality(Pushed) - 1
  BY <1>2, CountsAreNat, FS_RemoveElement
<1> QED
  BY <1>3, CountsAreNat

\* A stored message stays one, and what the other runs hold.
LEMMA ShapeFrame ==
  ASSUME ShapeInv, NEW r \in Runs, Only(r), Stored \subseteq Stored',
         details' \subseteq Stored', listed' \subseteq Stored',
         r \in Cachers => CacherOf(r)', r \in Marks => MarkOf(r)'
  PROVE  ShapeInv'
<1>1. ASSUME NEW s \in Cachers PROVE CacherOf(s)'
  <2>1. CASE s = r
    BY <2>1
  <2>2. CASE s # r
    <3>1. run'[s] = run[s] /\ CacherOf(s)
      BY <2>2, Sorts DEF Only, ShapeInv
    <3> QED
      BY <3>1 DEF CacherOf
  <2> QED
    BY <2>1, <2>2
<1>2. ASSUME NEW k \in Marks PROVE MarkOf(k)'
  <2>1. CASE k = r
    BY <2>1
  <2>2. CASE k # r
    BY <2>2, Sorts DEF Only, ShapeInv, MarkOf
  <2> QED
    BY <2>1, <2>2
<1> QED
  BY <1>1, <1>2 DEF ShapeInv

LEMMA ReplyFrame ==
  ASSUME ReplyInv, NEW r \in Runs, Only(r), run \in [Runs -> Run],
         \A m \in Msgs : table[m] # "absent" => table'[m] # "absent",
         /\ r \in Histories
         /\ run'[r].at \notin {"idle", "read"} /\ ~run'[r].failed
         /\ Cardinality(run'[r].hit) + Cardinality(Stored) <= LIMIT
         => run'[r].start \subseteq run'[r].hit \cup run'[r].rows
  PROVE  ReplyInv'
<1> SUFFICES ASSUME NEW h \in Histories,
                    run'[h].at \notin {"idle", "read"}, ~run'[h].failed,
                    Cardinality(run'[h].hit) + Cardinality(Stored') <= LIMIT
             PROVE  run'[h].start \subseteq run'[h].hit \cup run'[h].rows
  BY DEF ReplyInv
<1>1. h \in Runs
  BY Sorts
<1>2. Cardinality(run'[h].hit) \in Nat
  <2>1. run'[h].hit \subseteq Msgs
    BY <1>1, RunFields DEF Only
  <2> QED
    BY <2>1, Finite, FS_Subset, FS_CardinalityType
<1>3. Cardinality(run'[h].hit) + Cardinality(Stored) <= LIMIT
  BY <1>2, StoredGrows, Sorts
<1>4. CASE h = r
  BY <1>3, <1>4
<1>5. CASE h # r
  <2>1. run'[h] = run[h]
    BY <1>5, <1>1 DEF Only
  <2> QED
    BY <2>1, <1>3 DEF ReplyInv
<1> QED
  BY <1>4, <1>5

\* Failures are counted.
LEMMA WorksOrFails ==
  ASSUME Types, Works \/ Fails
  PROVE  /\ fails' \in 0 .. MaxFails /\ (fails' = 0 => fails = 0)
         /\ Fails => fails' # 0
  BY Sorts DEF Types, Works, Fails

\* A step that neither pushes nor counts keeps the bounds.
LEMMA BoundAside ==
  ASSUME Types, BoundInv, NEW r \in Runs, Only(r),
         r \in Cachers => /\ run[r].at # "hget" /\ run'[r].at \notin {"hget", "hset"}
                          /\ Ahead(r, run'[r]) \subseteq Ahead(r, run[r]),
         unread' \in Seq(Msgs), Len(unread') <= Len(unread), count' \in Nat, count' <= count
  PROVE  BoundInv'
<1>1. Pushed' = Pushed
  BY PushedSame
<1>2. Cardinality(ToPush') <= Cardinality(ToPush)
  BY PushesShrink
<1>3. Len(unread) \in Nat /\ Len(unread') \in Nat /\ count \in Nat
  BY DEF Types
<1>4. ASSUME NEW s \in Cachers, run'[s].at = "hset"
      PROVE  run'[s].n + 1 + Cardinality(Pushed') + Cardinality(ToPush') <= MaxPushes
  <2>1. run'[s] = run[s] /\ run[s] \in Run
    BY <1>4, Sorts DEF Only, Types
  <2>2. run[s].n \in Nat
    BY <2>1, RunFields
  <2>3. run[s].n + 1 + Cardinality(Pushed) + Cardinality(ToPush) <= MaxPushes
    BY <1>4, <2>1 DEF BoundInv
  <2> QED
    BY <1>1, <1>2, <2>1, <2>2, <2>3, CountsAreNat, CountsAreNatNext, Finite
<1>5. /\ Len(unread') + Cardinality(ToPush') <= MaxPushes
      /\ count' + Cardinality(Pushed') + Cardinality(ToPush') <= MaxPushes
  BY <1>1, <1>2, <1>3, CountsAreNat, CountsAreNatNext, Finite DEF BoundInv
<1> QED
  BY <1>4, <1>5 DEF BoundInv

\* A step of a run that is nowhere near the queue and the count keeps them
\* in agreement.
LEMMA QueueAside ==
  ASSUME Types, QueueInv, NEW r \in Runs, Only(r),
         run[r].at \notin {"hget", "hset", "zero"}, run'[r].at \notin {"hget", "hset", "zero"},
         unread' = unread, count' = count,
         ~tangled' => ~tangled, fails' = 0 => fails = 0
  PROVE  QueueInv'
<1>1. Pushed' = Pushed
  BY PushedSame
<1>2. ASSUME NEW s \in Runs PROVE /\ run'[s].at = "zero" <=> run[s].at = "zero"
                                  /\ run'[s].at = "hset" <=> run[s].at = "hset"
                                  /\ run'[s].at = "hget" <=> run[s].at = "hget"
                                  /\ run'[s].at = "hset" => run'[s].n = run[s].n
  <2>1. CASE s = r
    BY <2>1
  <2>2. CASE s # r
    BY <2>2 DEF Only
  <2> QED
    BY <2>1, <2>2
<1>3. (Zeroing' <=> Zeroing) /\ (Uncounted' <=> Uncounted)
  BY <1>2, Sorts DEF Zeroing, Uncounted, Cachers
<1> SUFFICES ASSUME fails' = 0, ~tangled'
             PROVE  /\ Zeroing' => unread' = <<>> /\ ~Uncounted'
                    /\ ~Zeroing' =>
                         /\ count' + Cardinality(Pushed') <= Len(unread')
                         /\ \A s \in Cachers : run'[s].at = "hset" =>
                              run'[s].n + 1 + Cardinality(Pushed') <= Len(unread')
                         /\ count' = 0 /\ unread' # <<>> => Uncounted'
  BY DEF QueueInv
<1>4. fails = 0 /\ ~tangled
  OBVIOUS
<1>5. CASE Zeroing
  BY <1>3, <1>4, <1>5 DEF QueueInv
<1>6. CASE ~Zeroing
  <2>1. /\ count + Cardinality(Pushed) <= Len(unread)
        /\ \A s \in Cachers : run[s].at = "hset" =>
             run[s].n + 1 + Cardinality(Pushed) <= Len(unread)
        /\ count = 0 /\ unread # <<>> => Uncounted
    BY <1>4, <1>6 DEF QueueInv
  <2>2. \A s \in Cachers : run'[s].at = "hset" =>
             run'[s].n + 1 + Cardinality(Pushed) <= Len(unread)
    BY <2>1, <1>2, Sorts
  <2> QED
    BY <1>1, <1>3, <1>6, <2>1, <2>2
<1> QED
  BY <1>5, <1>6

\* Who is at work: nothing changes for the runs that do not move.
LEMMA OthersActive ==
  ASSUME NEW r \in Runs, Only(r)
  PROVE  /\ \A s \in Runs \ {r} : Active(s)' <=> Active(s)
         /\ r \in Cachers => (ActiveMark' <=> ActiveMark)
         /\ r \in Marks => (ActiveOther' <=> ActiveOther)
         /\ Zeroing => ActiveMark
<1>1. \A s \in Runs \ {r} : Active(s)' <=> Active(s)
  BY DEF Only, Active
<1>2. r \in Cachers => (ActiveMark' <=> ActiveMark)
  BY <1>1, Sorts DEF ActiveMark
<1>3. r \in Marks => (ActiveOther' <=> ActiveOther)
  BY <1>1, Sorts DEF ActiveOther, Cachers
<1>4. Zeroing => ActiveMark
  BY DEF Zeroing, ActiveMark, Active
<1> QED
  BY <1>1, <1>2, <1>3, <1>4

\* A handler at work goes on: an unread message is queued or on its way.
LEMMA UnreadStep ==
  ASSUME Types, ShapeInv, UnreadInv, NEW r \in Cachers, Only(r), Active(r),
         table' = table, ~overlapped' => ~overlapped, ~recached' => ~recached,
         ~tangled /\ ~Zeroing => ~tangled', fails' = 0 => fails = 0,
         \A m \in Msgs : Queued(m) => Queued(m)',
         \A m \in Msgs : Queued(m)' => Queued(m) \/ (run[r].at = "push" /\ m = run[r].msg),
         fails' = 0 /\ r \in Msgs /\ run[r].at \in {"details", "lists", "push"} =>
           Queued(r)' \/ run'[r].at \in {"details", "lists", "push"},
         r \in Histories /\ ~recached' /\ run[r].at = "read" => run'[r].at = "done"
  PROVE  UnreadInv'
<1> SUFFICES ASSUME fails' = 0, ~overlapped'
             PROVE  /\ ~tangled' /\ ~(ActiveMark' /\ ActiveOther')
                    /\ \A m \in Msgs : Open(m)' =>
                         /\ ~ActiveMark'
                         /\ Queued(m)' \/ run'[m].at \in {"details", "lists", "push"}
                    /\ ~recached' =>
                         /\ \A h \in Histories : run'[h].at \in {"idle", "read", "done"}
                         /\ ~ActiveMark' => \A m \in Msgs : Queued(m)' \/ Active(m)' => Open(m)'
  BY DEF UnreadInv
<1>1. fails = 0 /\ ~overlapped
  OBVIOUS
<1>2. r \in Runs /\ ActiveOther
  BY Sorts DEF ActiveOther, Cachers
<1>3. /\ ~tangled /\ ~ActiveMark
      /\ \A m \in Msgs : Open(m) => Queued(m) \/ run[m].at \in {"details", "lists", "push"}
      /\ ~recached => \A h \in Histories : run[h].at \in {"idle", "read", "done"}
      /\ ~recached => \A m \in Msgs : Queued(m) \/ Active(m) => Open(m)
  BY <1>1, <1>2 DEF UnreadInv
<1>4. ~tangled' /\ ~ActiveMark'
  BY <1>2, <1>3, OthersActive
<1>5. \A m \in Msgs : Open(m)' <=> Open(m)
  BY DEF Open
<1>6. ASSUME NEW m \in Msgs, Open(m)'
      PROVE  Queued(m)' \/ run'[m].at \in {"details", "lists", "push"}
  <2>1. Queued(m) \/ run[m].at \in {"details", "lists", "push"}
    BY <1>3, <1>5, <1>6
  <2>2. CASE m = r
    BY <2>1, <2>2
  <2>3. CASE m # r
    <3>1. run'[m] = run[m]
      BY <2>3, Sorts DEF Only
    <3> QED
      BY <2>1, <3>1
  <2> QED
    BY <2>2, <2>3
<1>7. ASSUME ~recached', NEW h \in Histories PROVE run'[h].at \in {"idle", "read", "done"}
  <2>1. run[h].at \in {"idle", "read", "done"}
    BY <1>3, <1>7
  <2>2. CASE h = r
    BY <2>1, <2>2, <1>7 DEF Active
  <2>3. CASE h # r
    BY <2>1, <2>3, Sorts DEF Only
  <2> QED
    BY <2>2, <2>3
<1>8. ASSUME ~recached', NEW m \in Msgs, Queued(m)' \/ Active(m)' PROVE Open(m)'
  <2>1. Active(m)' => Active(m)
    BY <1>2, OthersActive, Sorts
  <2>2. Queued(m)' => Queued(m) \/ Active(m)
    <3>1. CASE r \in Msgs
      <4>1. run[r].at = "push" => run[r].msg = r
        BY <3>1 DEF ShapeInv, CacherOf, CacheSteps
      <4> QED
        BY <4>1
    <3>2. CASE r \in Histories
      BY <1>3, <1>8, <3>2
    <3> QED
      BY <3>1, <3>2 DEF Cachers
  <2> QED
    BY <1>3, <1>5, <1>8, <2>1, <2>2
<1> QED
  BY <1>4, <1>6, <1>7, <1>8

-----------------------------------------------------------------------------
(***************************************************************************)
(* CacheNewMessage.                                                        *)
(***************************************************************************)

\* Within CacheNewMessage a run keeps its message and its rows ...
LEMMA MovedParts ==
  ASSUME Types, ShapeInv, ReplyInv, NEW r \in Cachers, NEW step \in CacheSteps,
         run[r].at \in CacheSteps, Moved(r, step), table' = table,
         details' \subseteq Stored, listed' \subseteq Stored
  PROVE  ShapeInv' /\ ReplyInv'
<1>1. Stored' = Stored /\ r \in Runs /\ Only(r)
  BY Sorts DEF Stored, Moved
<1>2. CacherOf(r)'
  BY <1>1 DEF ShapeInv, CacherOf, Moved, CacheSteps
<1>3. ShapeInv'
  BY <1>1, <1>2, ShapeFrame, Sorts
<1>4. /\ r \in Histories
      /\ run'[r].at \notin {"idle", "read"} /\ ~run'[r].failed
      /\ Cardinality(run'[r].hit) + Cardinality(Stored) <= LIMIT
      => run'[r].start \subseteq run'[r].hit \cup run'[r].rows
  BY DEF ReplyInv, Moved, CacheSteps
<1>5. ReplyInv'
  BY <1>1, <1>4, ReplyFrame DEF Types
<1> QED
  BY <1>3, <1>5

\* ... and leaving it, it goes on with the next of its rows.
LEMMA ResumedParts ==
  ASSUME Types, ShapeInv, ReplyInv, NEW r \in Cachers,
         run[r].at \in CacheSteps, Resumed(r, run[r]), table' = table,
         details' \subseteq Stored, listed' \subseteq Stored
  PROVE  /\ ShapeInv' /\ ReplyInv'
         /\ run'[r].at \in {"details", "done"} /\ (r \in Msgs => run'[r].at = "done")
         /\ Ahead(r, run'[r]) \subseteq run[r].todo /\ run[r].todo \subseteq Ahead(r, run[r])
<1>1. Stored' = Stored /\ r \in Runs /\ Only(r)
  BY Sorts DEF Stored, Resumed
<1>2. CacherOf(r) /\ run[r].todo \subseteq Stored
  BY DEF ShapeInv, CacherOf
<1>3. run'[r].at \in {"details", "done"} /\ (r \in Msgs => run'[r].at = "done")
  BY <1>2 DEF CacherOf, Resumed
<1>4. /\ run'[r].todo \subseteq run[r].todo
      /\ run'[r].at = "details" => run'[r].msg \in run[r].todo /\ run'[r].msg \notin run'[r].todo
  BY DEF Resumed
<1>5. CacherOf(r)'
  BY <1>1, <1>2, <1>3, <1>4 DEF CacherOf, Resumed, CacheSteps
<1>6. ShapeInv'
  BY <1>1, <1>5, ShapeFrame, Sorts
<1>7. /\ r \in Histories
      /\ run'[r].at \notin {"idle", "read"} /\ ~run'[r].failed
      /\ Cardinality(run'[r].hit) + Cardinality(Stored) <= LIMIT
      => run'[r].start \subseteq run'[r].hit \cup run'[r].rows
  BY DEF ReplyInv, Resumed, CacheSteps
<1>8. ReplyInv'
  BY <1>1, <1>7, ReplyFrame DEF Types
<1>9. Ahead(r, run'[r]) \subseteq run[r].todo /\ run[r].todo \subseteq Ahead(r, run[r])
  BY <1>3, <1>4 DEF Ahead, CacheSteps
<1> QED
  BY <1>3, <1>6, <1>8, <1>9

\* HSET of the fields.
LEMMA DetailsInv ==
  ASSUME CacheInv, NEW r \in Cachers, CacheDetails(r)
  PROVE  CacheInv'
<1> USE DEF CacheInv
<1>1. /\ run[r].at = "details" /\ run[r].at \in CacheSteps /\ r \in Runs /\ run[r] \in Run
      /\ run[r].msg \in Stored
  BY Sorts DEF CacheDetails, At, Types, CacheSteps, ShapeInv, CacherOf
<1>2. UNCHANGED <<table, listed, unread, count, tangled, overlapped, recached>>
  BY DEF CacheDetails
<1>3. fails' \in 0 .. MaxFails /\ (fails' = 0 => fails = 0)
  BY WorksOrFails DEF CacheDetails
<1>4. Stored' = Stored /\ \A m \in Msgs : Queued(m)' <=> Queued(m)
  BY <1>2 DEF Stored, Queued
<1>5. CASE Works /\ details' = details \cup {run[r].msg} /\ Goes(r, "lists")
  <2>1. Moved(r, "lists")
    BY <1>1, <1>5, GoesMoves DEF Types, Steps, CacheSteps
  <2>2. details' \subseteq Stored /\ listed' \subseteq Stored
    BY <1>1, <1>2, <1>5 DEF ShapeInv
  <2>3. ShapeInv' /\ ReplyInv'
    BY <1>1, <1>2, <2>1, <2>2, MovedParts DEF CacheSteps
  <2>4. Only(r) /\ run'[r].at = "lists" /\ Ahead(r, run'[r]) \subseteq Ahead(r, run[r])
    BY <1>1, <2>1 DEF Moved, Ahead
  <2>5. BoundInv'
    BY <1>1, <1>2, <2>4, BoundAside DEF Types
  <2>6. QueueInv'
    BY <1>1, <1>2, <1>3, <2>4, QueueAside
  <2>7. UnreadInv'
    BY <1>1, <1>2, <1>3, <1>4, <2>4, UnreadStep DEF Active
  <2>8. Types'
    BY <1>2, <1>3, <2>4 DEF Types, Only
  <2> QED
    BY <2>3, <2>5, <2>6, <2>7, <2>8
<1>6. CASE Fails /\ UNCHANGED details /\ Continues(r, run[r])
  <2>1. Resumed(r, run[r])
    BY <1>1, <1>6, ContinuesResumes DEF Types
  <2>2. details' \subseteq Stored /\ listed' \subseteq Stored
    BY <1>2, <1>6 DEF ShapeInv
  <2>3. /\ ShapeInv' /\ ReplyInv' /\ run'[r].at \in {"details", "done"}
        /\ Ahead(r, run'[r]) \subseteq Ahead(r, run[r])
    BY <1>1, <1>2, <2>1, <2>2, ResumedParts
  <2>4. Only(r)
    BY <2>1 DEF Resumed
  <2>5. BoundInv'
    BY <1>1, <1>2, <2>3, <2>4, BoundAside DEF Types
  <2>6. QueueInv' /\ UnreadInv'
    BY <1>6, WorksOrFails DEF QueueInv, UnreadInv
  <2>7. Types'
    BY <1>2, <1>3, <2>4 DEF Types, Only
  <2> QED
    BY <2>3, <2>5, <2>6, <2>7
<1> QED
  BY <1>5, <1>6 DEF CacheDetails

\* ZADD.
LEMMA ListsInv ==
  ASSUME CacheInv, NEW r \in Cachers, CacheLists(r)
  PROVE  CacheInv'
<1> USE DEF CacheInv
<1>1. /\ run[r].at = "lists" /\ run[r].at \in CacheSteps /\ r \in Runs /\ run[r] \in Run
      /\ run[r].msg \in Stored
  BY Sorts DEF CacheLists, At, Types, CacheSteps, ShapeInv, CacherOf
<1>2. UNCHANGED <<table, details, unread, count, tangled, overlapped, recached>>
  BY DEF CacheLists
<1>3. fails' \in 0 .. MaxFails /\ (fails' = 0 => fails = 0)
  BY WorksOrFails DEF CacheLists
<1>4. Stored' = Stored /\ \A m \in Msgs : Queued(m)' <=> Queued(m)
  BY <1>2 DEF Stored, Queued
<1>5. Moved(r, "push")
  BY <1>1, GoesMoves DEF CacheLists, Types, Steps, CacheSteps
<1>6. details' \subseteq Stored /\ listed' \subseteq Stored
  BY <1>1, <1>2 DEF ShapeInv, CacheLists
<1>7. ShapeInv' /\ ReplyInv'
  BY <1>1, <1>2, <1>5, <1>6, MovedParts DEF CacheSteps
<1>8. Only(r) /\ run'[r].at = "push" /\ Ahead(r, run'[r]) \subseteq Ahead(r, run[r])
  BY <1>1, <1>5 DEF Moved, Ahead
<1>9. BoundInv'
  BY <1>1, <1>2, <1>8, BoundAside DEF Types
<1>10. QueueInv'
  BY <1>1, <1>2, <1>3, <1>8, QueueAside
<1>11. UnreadInv'
  BY <1>1, <1>2, <1>3, <1>4, <1>8, UnreadStep DEF Active
<1>12. Types'
  BY <1>2, <1>3, <1>8 DEF Types, Only
<1> QED
  BY <1>7, <1>9, <1>10, <1>11, <1>12

LEMMA ZeroingSame ==
  ASSUME NEW r \in Cachers, Only(r)
  PROVE  Zeroing' <=> Zeroing
<1>1. \A k \in Marks : run'[k] = run[k]
  BY Sorts DEF Only
<1> QED
  BY <1>1 DEF Zeroing

\* Appending to the queue.
LEMMA Appended ==
  ASSUME unread \in Seq(Msgs), NEW m \in Msgs, unread' = Append(unread, m)
  PROVE  /\ unread' \in Seq(Msgs) /\ Len(unread') = Len(unread) + 1
         /\ \A x \in Msgs : Queued(x)' <=> Queued(x) \/ x = m
<1>1. /\ unread' \in Seq(Msgs) /\ Len(unread') = Len(unread) + 1 /\ Len(unread) \in Nat
      /\ \A i \in 1 .. Len(unread) : unread'[i] = unread[i]
      /\ unread'[Len(unread) + 1] = m
  OBVIOUS
<1>2. ASSUME NEW x \in Msgs, Queued(x) PROVE Queued(x)'
  <2>1. PICK i \in 1 .. Len(unread) : unread[i] = x
    BY <1>2 DEF Queued
  <2>2. i \in 1 .. Len(unread') /\ unread'[i] = x
    BY <1>1, <2>1
  <2> QED
    BY <2>2 DEF Queued
<1>3. Queued(m)'
  <2>1. Len(unread) + 1 \in 1 .. Len(unread')
    BY <1>1
  <2> QED
    BY <1>1, <2>1 DEF Queued
<1>4. ASSUME NEW x \in Msgs, Queued(x)', x # m PROVE Queued(x)
  <2>1. PICK i \in 1 .. Len(unread') : unread'[i] = x
    BY <1>4 DEF Queued
  <2>2. i \in 1 .. Len(unread)
    BY <1>1, <1>4, <2>1
  <2>3. unread[i] = x
    BY <1>1, <2>1, <2>2
  <2> QED
    BY <2>2, <2>3 DEF Queued
<1> QED
  BY <1>1, <1>2, <1>3, <1>4

\* RPUSH: one push fewer to come, one run more that will count.
LEMMA PushInv ==
  ASSUME CacheInv, NEW r \in Cachers, CachePush(r)
  PROVE  CacheInv'
<1> USE DEF CacheInv
<1>1. /\ run[r].at = "push" /\ run[r].at \in CacheSteps /\ r \in Runs /\ run[r] \in Run
      /\ run[r].msg \in Stored /\ run[r].msg \in Msgs /\ run[r].msg \notin run[r].todo
  BY Sorts DEF CachePush, At, Types, CacheSteps, ShapeInv, CacherOf, Stored
<1>2. UNCHANGED <<table, details, listed, count, overlapped, recached>>
  BY DEF CachePush
<1>3. fails' \in 0 .. MaxFails /\ (fails' = 0 => fails = 0)
  BY WorksOrFails DEF CachePush
<1>4. /\ tangled' \in BOOLEAN
      /\ ~tangled' => ~tangled /\ ~Zeroing
      /\ ~tangled /\ ~Zeroing => ~tangled'
  BY DEF CachePush, Zeroing, At
<1>5. Moved(r, "hget")
  BY <1>1, GoesMoves DEF CachePush, Types, Steps, CacheSteps
<1>6. ShapeInv' /\ ReplyInv'
  BY <1>1, <1>2, <1>5, MovedParts DEF CacheSteps, ShapeInv
<1>7. Only(r) /\ run'[r].at = "hget"
  BY <1>5 DEF Moved
<1>8. /\ unread \in Seq(Msgs) /\ Len(unread) \in Nat /\ count \in Nat
      /\ \/ unread' = unread /\ fails' # 0
         \/ unread' = Append(unread, run[r].msg)
  BY WorksOrFails DEF Types, CachePush
<1>9. /\ unread' \in Seq(Msgs) /\ Len(unread') \in Nat /\ Len(unread') <= Len(unread) + 1
      /\ fails' = 0 => /\ Len(unread') = Len(unread) + 1
                       /\ \A x \in Msgs : Queued(x)' <=> Queued(x) \/ x = run[r].msg
  <2>1. CASE unread' = unread /\ fails' # 0
    BY <1>8, <2>1
  <2>2. CASE unread' = Append(unread, run[r].msg)
    BY <1>1, <1>8, <2>2, Appended
  <2> QED
    BY <1>8, <2>1, <2>2
<1>10. Cardinality(ToPush') + 1 <= Cardinality(ToPush)
  <2>1. run[r].msg \in Ahead(r, run[r])
    BY <1>1 DEF Ahead
  <2>2. Ahead(r, run'[r]) \subseteq Ahead(r, run[r]) \ {run[r].msg}
    BY <1>1, <1>5 DEF Ahead, Moved
  <2> QED
    BY <1>1, <1>7, <2>1, <2>2, PushTakes
<1>11. Cardinality(Pushed') = Cardinality(Pushed) + 1
  BY <1>1, <1>7, PushedMore
<1>12. ASSUME NEW s \in Cachers, run'[s].at = "hset"
       PROVE  run[s].at = "hset" /\ run'[s].n = run[s].n /\ run[s].n \in Nat
  <2>1. run'[s] = run[s] /\ run[s] \in Run
    BY <1>7, <1>12, Sorts DEF Only, Types
  <2> QED
    BY <1>12, <2>1, RunFields
<1>13. BoundInv'
  <2>1. ASSUME NEW s \in Cachers, run'[s].at = "hset"
        PROVE  run'[s].n + 1 + Cardinality(Pushed') + Cardinality(ToPush') <= MaxPushes
    <3>1. run[s].n + 1 + Cardinality(Pushed) + Cardinality(ToPush) <= MaxPushes
      BY <1>12, <2>1 DEF BoundInv
    <3> QED
      BY <1>10, <1>11, <1>12, <2>1, <3>1, CountsAreNat, CountsAreNatNext, Finite
  <2>2. /\ Len(unread') + Cardinality(ToPush') <= MaxPushes
        /\ count' + Cardinality(Pushed') + Cardinality(ToPush') <= MaxPushes
    BY <1>2, <1>8, <1>9, <1>10, <1>11, CountsAreNat, CountsAreNatNext, Finite DEF BoundInv
  <2> QED
    BY <2>1, <2>2 DEF BoundInv
<1>14. QueueInv'
  <2> SUFFICES ASSUME fails' = 0, ~tangled'
               PROVE  /\ ~Zeroing'
                      /\ count' + Cardinality(Pushed') <= Len(unread')
                      /\ \A s \in Cachers : run'[s].at = "hset" =>
                           run'[s].n + 1 + Cardinality(Pushed') <= Len(unread')
                      /\ Uncounted'
    BY DEF QueueInv
  <2>1. ~Zeroing /\ ~Zeroing' /\ fails = 0 /\ ~tangled
    BY <1>3, <1>4, <1>7, ZeroingSame
  <2>2. /\ count + Cardinality(Pushed) <= Len(unread)
        /\ \A s \in Cachers : run[s].at = "hset" =>
             run[s].n + 1 + Cardinality(Pushed) <= Len(unread)
    BY <2>1 DEF QueueInv
  <2>3. ASSUME NEW s \in Cachers, run'[s].at = "hset"
        PROVE  run'[s].n + 1 + Cardinality(Pushed') <= Len(unread')
    BY <1>8, <1>9, <1>11, <1>12, <2>2, <2>3, CountsAreNat
  <2>4. count' + Cardinality(Pushed') <= Len(unread')
    BY <1>2, <1>8, <1>9, <1>11, <2>2, CountsAreNat
  <2>5. Uncounted'
    BY <1>7 DEF Uncounted, Cachers
  <2> QED
    BY <2>1, <2>3, <2>4, <2>5
<1>15. UnreadInv'
  <2>1. CASE fails' # 0
    BY <2>1 DEF UnreadInv
  <2>2. CASE fails' = 0
    <3>1. r \in Msgs => run[r].msg = r
      BY <1>1 DEF ShapeInv, CacherOf
    <3>2. /\ \A m \in Msgs : Queued(m) => Queued(m)'
          /\ \A m \in Msgs : Queued(m)' => Queued(m) \/ (run[r].at = "push" /\ m = run[r].msg)
          /\ r \in Msgs => Queued(r)'
      BY <1>1, <1>9, <2>2, <3>1
    <3> QED
      BY <1>1, <1>2, <1>3, <1>4, <1>7, <3>2, UnreadStep DEF Active
  <2> QED
    BY <2>1, <2>2
<1>16. Types'
  BY <1>2, <1>3, <1>4, <1>7, <1>9 DEF Types, Only
<1> QED
  BY <1>6, <1>13, <1>14, <1>15, <1>16

\* HGET: the run that has pushed now holds the number to write.
LEMMA GetCountInv ==
  ASSUME CacheInv, NEW r \in Cachers, CacheGetCount(r)
  PROVE  CacheInv'
<1> USE DEF CacheInv
<1>1. run[r].at = "hget" /\ run[r].at \in CacheSteps /\ r \in Runs /\ run[r] \in Run
  BY Sorts DEF CacheGetCount, At, Types, CacheSteps
<1>2. UNCHANGED <<table, details, listed, unread, count, tangled, overlapped, recached>>
  BY DEF CacheGetCount, redis
<1>3. fails' \in 0 .. MaxFails /\ (fails' = 0 => fails = 0)
  BY WorksOrFails DEF CacheGetCount
<1>4. Stored' = Stored /\ \A m \in Msgs : Queued(m)' <=> Queued(m)
  BY <1>2 DEF Stored, Queued
<1>5. /\ count \in Nat /\ Len(unread) \in Nat
      /\ count + Cardinality(Pushed) + Cardinality(ToPush) <= MaxPushes
  BY DEF Types, BoundInv
<1>6. count \in 0 .. MaxPushes /\ 0 \in 0 .. MaxPushes
  BY <1>5, CountsAreNat, Finite
<1>7. PICK c \in 0 .. MaxPushes :
        /\ run' = [run EXCEPT ![r].at = "hset", ![r].n = c]
        /\ c = count \/ (c = 0 /\ fails' # 0)
  BY <1>6, WorksOrFails DEF CacheGetCount
<1>8. Moved(r, "hset") /\ run'[r].n = c
  <2> DEFINE new == [run[r] EXCEPT !.at = "hset", !.n = c]
  <2>1. new \in Run
    BY <1>1 DEF Run, Steps, CacheSteps
  <2>2. /\ new.at = "hset" /\ new.msg = run[r].msg /\ new.n = c
        /\ new.todo = run[r].todo /\ new.hit = run[r].hit /\ new.rows = run[r].rows
        /\ new.start = run[r].start /\ new.failed = run[r].failed
    BY <1>1 DEF Run
  <2>3. run' = [run EXCEPT ![r] = new]
    BY <1>1, <1>7 DEF Types
  <2> HIDE DEF new
  <2>4. run' \in [Runs -> Run] /\ run'[r] = new /\ \A s \in Runs \ {r} : run'[s] = run[s]
    BY <1>1, <2>1, <2>3 DEF Types
  <2> QED
    BY <2>2, <2>4 DEF Moved, Only
<1>9. Only(r) /\ run'[r].at = "hset"
  BY <1>8 DEF Moved
<1>10. ShapeInv' /\ ReplyInv'
  BY <1>1, <1>2, <1>8, MovedParts DEF CacheSteps, ShapeInv
<1>11. Cardinality(ToPush') <= Cardinality(ToPush)
  <2>1. Ahead(r, run'[r]) \subseteq Ahead(r, run[r])
    BY <1>1, <1>8 DEF Ahead, Moved
  <2> QED
    BY <1>1, <1>9, <2>1, PushesShrink
<1>12. Cardinality(Pushed') + 1 = Cardinality(Pushed)
  BY <1>1, <1>9, PushedLess
<1>13. ASSUME NEW s \in Cachers, run'[s].at = "hset", s # r
       PROVE  run[s].at = "hset" /\ run'[s].n = run[s].n /\ run[s].n \in Nat
  <2>1. run'[s] = run[s] /\ run[s] \in Run
    BY <1>9, <1>13, Sorts DEF Only, Types
  <2> QED
    BY <1>13, <2>1, RunFields
<1>14. BoundInv'
  <2>1. ASSUME NEW s \in Cachers, run'[s].at = "hset"
        PROVE  run'[s].n + 1 + Cardinality(Pushed') + Cardinality(ToPush') <= MaxPushes
    <3>1. CASE s # r
      <4>1. run[s].n + 1 + Cardinality(Pushed) + Cardinality(ToPush) <= MaxPushes
        BY <1>13, <2>1, <3>1 DEF BoundInv
      <4> QED
        BY <1>11, <1>12, <1>13, <2>1, <3>1, <4>1, CountsAreNat, CountsAreNatNext, Finite
    <3>2. CASE s = r
      <4>1. run'[s].n <= count /\ run'[s].n \in Nat
        BY <1>5, <1>7, <1>8, <3>2
      <4>2. count + 1 + Cardinality(Pushed') + Cardinality(ToPush') <= MaxPushes
        BY <1>5, <1>11, <1>12, CountsAreNat, CountsAreNatNext, Finite
      <4> QED
        BY <1>5, <4>1, <4>2, CountsAreNatNext, Finite
    <3> QED
      BY <3>1, <3>2
  <2>2. /\ Len(unread') + Cardinality(ToPush') <= MaxPushes
        /\ count' + Cardinality(Pushed') + Cardinality(ToPush') <= MaxPushes
    BY <1>2, <1>5, <1>11, <1>12, CountsAreNat, CountsAreNatNext, Finite DEF BoundInv
  <2> QED
    BY <2>1, <2>2 DEF BoundInv
<1>15. QueueInv'
  <2> SUFFICES ASSUME fails' = 0, ~tangled'
               PROVE  /\ ~Zeroing'
                      /\ count' + Cardinality(Pushed') <= Len(unread')
                      /\ \A s \in Cachers : run'[s].at = "hset" =>
                           run'[s].n + 1 + Cardinality(Pushed') <= Len(unread')
                      /\ Uncounted'
    BY DEF QueueInv
  <2>1. fails = 0 /\ ~tangled
    BY <1>2, <1>3
  <2>2. Uncounted
    BY <1>1 DEF Uncounted, Cachers
  <2>3. ~Zeroing /\ ~Zeroing'
    BY <1>9, <2>1, <2>2, ZeroingSame DEF QueueInv
  <2>4. /\ count + Cardinality(Pushed) <= Len(unread)
        /\ \A s \in Cachers : run[s].at = "hset" =>
             run[s].n + 1 + Cardinality(Pushed) <= Len(unread)
    BY <2>1, <2>3 DEF QueueInv
  <2>5. ASSUME NEW s \in Cachers, run'[s].at = "hset"
        PROVE  run'[s].n + 1 + Cardinality(Pushed') <= Len(unread')
    <3>1. CASE s # r
      <4>1. run'[s].n = run[s].n /\ run[s].n \in Nat
        BY <1>13, <2>5, <3>1
      <4>2. run[s].n + 1 + Cardinality(Pushed) <= Len(unread)
        BY <1>13, <2>4, <2>5, <3>1
      <4> QED
        BY <1>2, <1>5, <1>12, <4>1, <4>2, CountsAreNat, CountsAreNatNext
    <3>2. CASE s = r
      BY <1>2, <1>5, <1>7, <1>8, <1>12, <2>4, <3>2, CountsAreNat, CountsAreNatNext
    <3> QED
      BY <3>1, <3>2
  <2>6. count' + Cardinality(Pushed') <= Len(unread')
    BY <1>2, <1>5, <1>12, <2>4, CountsAreNat, CountsAreNatNext
  <2>7. Uncounted'
    BY <1>9 DEF Uncounted, Cachers
  <2> QED
    BY <2>3, <2>5, <2>6, <2>7
<1>16. UnreadInv'
  BY <1>1, <1>2, <1>3, <1>4, <1>9, UnreadStep DEF Active
<1>17. Types'
  BY <1>2, <1>3, <1>9 DEF Types, Only
<1> QED
  BY <1>10, <1>14, <1>15, <1>16, <1>17

\* HSET of what was read, plus one.
LEMMA SetCountInv ==
  ASSUME CacheInv, NEW r \in Cachers, CacheSetCount(r)
  PROVE  CacheInv'
<1> USE DEF CacheInv
<1>1. run[r].at = "hset" /\ run[r].at \in CacheSteps /\ r \in Runs /\ run[r] \in Run
  BY Sorts DEF CacheSetCount, At, Types, CacheSteps
<1>2. UNCHANGED <<table, details, listed, unread, tangled, overlapped, recached>>
  BY DEF CacheSetCount
<1>3. fails' \in 0 .. MaxFails /\ (fails' = 0 => fails = 0)
  BY WorksOrFails DEF CacheSetCount
<1>4. Stored' = Stored /\ \A m \in Msgs : Queued(m)' <=> Queued(m)
  BY <1>2 DEF Stored, Queued
<1>5. /\ run[r].n \in Nat /\ count \in Nat /\ Len(unread) \in Nat
      /\ count' = run[r].n + 1 \/ (count' = count /\ fails' # 0)
  BY <1>1, RunFields, WorksOrFails DEF CacheSetCount, Types
<1>6. Resumed(r, run[r])
  BY <1>1, ContinuesResumes DEF CacheSetCount, Types
<1>7. /\ ShapeInv' /\ ReplyInv' /\ run'[r].at \in {"details", "done"}
      /\ Ahead(r, run'[r]) \subseteq Ahead(r, run[r])
  BY <1>1, <1>2, <1>6, ResumedParts DEF ShapeInv
<1>8. Only(r)
  BY <1>6 DEF Resumed
<1>9. Cardinality(ToPush') <= Cardinality(ToPush)
  BY <1>1, <1>7, <1>8, PushesShrink
<1>10. Pushed' = Pushed
  BY <1>1, <1>7, <1>8, PushedSame
<1>11. ASSUME NEW s \in Cachers, run'[s].at = "hset"
       PROVE  run[s].at = "hset" /\ run'[s].n = run[s].n /\ run[s].n \in Nat
  <2>1. run'[s] = run[s] /\ run[s] \in Run
    BY <1>7, <1>8, <1>11, Sorts DEF Only, Types
  <2> QED
    BY <1>11, <2>1, RunFields
<1>12. BoundInv'
  <2>1. ASSUME NEW s \in Cachers, run'[s].at = "hset"
        PROVE  run'[s].n + 1 + Cardinality(Pushed') + Cardinality(ToPush') <= MaxPushes
    <3>1. run[s].n + 1 + Cardinality(Pushed) + Cardinality(ToPush) <= MaxPushes
      BY <1>11, <2>1 DEF BoundInv
    <3> QED
      BY <1>9, <1>10, <1>11, <2>1, <3>1, CountsAreNat, CountsAreNatNext, Finite
  <2>2. Len(unread') + Cardinality(ToPush') <= MaxPushes
    BY <1>2, <1>5, <1>9, CountsAreNat, CountsAreNatNext, Finite DEF BoundInv
  <2>3. count' + Cardinality(Pushed') + Cardinality(ToPush') <= MaxPushes
    <3>1. /\ count + Cardinality(Pushed) + Cardinality(ToPush) <= MaxPushes
          /\ run[r].n + 1 + Cardinality(Pushed) + Cardinality(ToPush) <= MaxPushes
      BY <1>1 DEF BoundInv
    <3> QED
      BY <1>5, <1>9, <1>10, <3>1, CountsAreNat, CountsAreNatNext, Finite
  <2> QED
    BY <2>1, <2>2, <2>3 DEF BoundInv
<1>13. QueueInv'
  <2> SUFFICES ASSUME fails' = 0, ~tangled'
               PROVE  /\ ~Zeroing'
                      /\ count' + Cardinality(Pushed') <= Len(unread')
                      /\ \A s \in Cachers : run'[s].at = "hset" =>
                           run'[s].n + 1 + Cardinality(Pushed') <= Len(unread')
                      /\ count' # 0
    BY DEF QueueInv
  <2>1. fails = 0 /\ ~tangled
    BY <1>2, <1>3
  <2>2. Uncounted
    BY <1>1 DEF Uncounted, Cachers
  <2>3. ~Zeroing /\ ~Zeroing'
    BY <1>8, <2>1, <2>2, ZeroingSame DEF QueueInv
  <2>4. \A s \in Cachers : run[s].at = "hset" =>
          run[s].n + 1 + Cardinality(Pushed) <= Len(unread)
    BY <2>1, <2>3 DEF QueueInv
  <2>5. \A s \in Cachers : run'[s].at = "hset" =>
          run'[s].n + 1 + Cardinality(Pushed') <= Len(unread')
    BY <1>2, <1>10, <1>11, <2>4
  <2>6. count' = run[r].n + 1 /\ run[r].n + 1 + Cardinality(Pushed) <= Len(unread)
    BY <1>1, <1>5, <2>4
  <2> QED
    BY <1>2, <1>5, <1>10, <2>3, <2>5, <2>6
<1>14. UnreadInv'
  BY <1>1, <1>2, <1>3, <1>4, <1>7, <1>8, UnreadStep DEF Active
<1>15. Types'
  BY <1>2, <1>3, <1>5, <1>8 DEF Types, Only
<1> QED
  BY <1>7, <1>12, <1>13, <1>14, <1>15

-----------------------------------------------------------------------------
(***************************************************************************)
(* The handlers.                                                           *)
(***************************************************************************)

\* A run begins: no overlap so far means that nobody of the other sort is at
\* work.
LEMMA NoOverlap ==
  ASSUME NEW r \in Runs, Overlap(r)
  PROVE  /\ overlapped' \in BOOLEAN /\ (~overlapped' => ~overlapped)
         /\ r \in Marks => (~overlapped' => ~ActiveOther)
         /\ r \in Cachers => (~overlapped' => ~ActiveMark)
<1>1. CASE r \in Marks
  <2>1. overlapped' = (overlapped \/ ActiveOther)
    BY <1>1 DEF Overlap
  <2> QED
    BY <1>1, <2>1, Sorts
<1>2. CASE r \notin Marks
  <2>1. overlapped' = (overlapped \/ ActiveMark)
    BY <1>2 DEF Overlap
  <2> QED
    BY <1>2, <2>1
<1> QED
  BY <1>1, <1>2

\* DealChatTextMsgHandler saves the message and begins to cache it.
LEMMA SaveInv ==
  ASSUME CacheInv, NEW m \in Msgs, SaveChatMessage(m)
  PROVE  CacheInv'
<1> USE DEF CacheInv
<1>1. run[m].at = "idle" /\ m \in Cachers /\ m \in Runs /\ run[m] \in Run /\ m \notin Marks /\ m \notin Histories
  BY Sorts DEF SaveChatMessage, At, Types
<1>2. UNCHANGED <<details, listed, unread, count, tangled, recached>>
  BY DEF SaveChatMessage, redis
<1>3. fails' \in 0 .. MaxFails /\ (fails' = 0 => fails = 0)
  BY WorksOrFails DEF SaveChatMessage
<1>4. overlapped' \in BOOLEAN /\ (~overlapped' => ~overlapped /\ ~ActiveMark)
  BY <1>1, NoOverlap DEF SaveChatMessage
<1>5. \A x \in Msgs : Queued(x)' <=> Queued(x)
  BY <1>2 DEF Queued
<1>6. CacherOf(m)
  BY <1>1 DEF ShapeInv
<1>7. CASE Works /\ table' = [table EXCEPT ![m] = "unread"]
            /\ run' = [run EXCEPT ![m].at = "details", ![m].msg = m]
  <2>1. /\ Only(m) /\ run'[m].at = "details" /\ run'[m].msg = m
        /\ run'[m].todo = run[m].todo /\ run'[m].start = run[m].start
    <3> DEFINE new == [run[m] EXCEPT !.at = "details", !.msg = m]
    <3>1. new \in Run
      BY <1>1 DEF Run, Steps, CacheSteps
    <3>2. /\ new.at = "details" /\ new.msg = m
          /\ new.todo = run[m].todo /\ new.start = run[m].start
      BY <1>1 DEF Run
    <3>3. run' = [run EXCEPT ![m] = new]
      BY <1>1, <1>7 DEF Types
    <3> HIDE DEF new
    <3>4. run' \in [Runs -> Run] /\ run'[m] = new /\ \A s \in Runs \ {m} : run'[s] = run[s]
      BY <1>1, <3>1, <3>3 DEF Types
    <3> QED
      BY <3>2, <3>4 DEF Only
  <2>2. /\ table' \in [Msgs -> {"absent", "unread", "read"}]
        /\ table'[m] = "unread" /\ \A x \in Msgs : x # m => table'[x] = table[x]
    BY <1>7 DEF Types
  <2>3. \A x \in Msgs : table[x] # "absent" => table'[x] # "absent"
    BY <2>2
  <2>4. Stored \subseteq Stored' /\ m \in Stored'
    BY <2>2, <2>3, StoredGrows DEF Stored
  <2>5. CacherOf(m)'
    BY <1>6, <2>1, <2>4 DEF CacherOf, CacheSteps
  <2>6. ShapeInv'
    <3>1. details' \subseteq Stored' /\ listed' \subseteq Stored'
      BY <1>2, <2>4 DEF ShapeInv
    <3> QED
      BY <1>1, <2>1, <2>4, <2>5, <3>1, ShapeFrame
  <2>7. ReplyInv'
    BY <1>1, <2>1, <2>3, ReplyFrame DEF Types
  <2>8. Ahead(m, run'[m]) \subseteq Ahead(m, run[m])
    BY <1>1, <1>6, <2>1 DEF Ahead, CacherOf
  <2>9. BoundInv'
    BY <1>1, <1>2, <2>1, <2>8, BoundAside DEF Types
  <2>10. QueueInv'
    BY <1>1, <1>2, <1>3, <2>1, QueueAside
  <2>11. UnreadInv'
    <3> SUFFICES ASSUME fails' = 0, ~overlapped'
                 PROVE  /\ ~tangled' /\ ~ActiveMark'
                        /\ \A x \in Msgs : Open(x)' =>
                             Queued(x)' \/ run'[x].at \in {"details", "lists", "push"}
                        /\ ~recached' =>
                             /\ \A h \in Histories : run'[h].at \in {"idle", "read", "done"}
                             /\ \A x \in Msgs : Queued(x)' \/ Active(x)' => Open(x)'
      BY DEF UnreadInv
    <3>1. fails = 0 /\ ~overlapped /\ ~ActiveMark
      BY <1>3, <1>4
    <3>2. /\ ~tangled
          /\ \A x \in Msgs : Open(x) => Queued(x) \/ run[x].at \in {"details", "lists", "push"}
          /\ ~recached => \A h \in Histories : run[h].at \in {"idle", "read", "done"}
          /\ ~recached => \A x \in Msgs : Queued(x) \/ Active(x) => Open(x)
      BY <3>1 DEF UnreadInv
    <3>3. ~tangled' /\ ~ActiveMark'
      BY <1>1, <1>2, <2>1, <3>1, <3>2, OthersActive
    <3>4. \A x \in Msgs : x # m => (Open(x)' <=> Open(x)) /\ run'[x] = run[x]
      BY <2>1, <2>2, Sorts DEF Open, Only
    <3>5. Open(m)' /\ run'[m].at = "details"
      BY <2>1, <2>2 DEF Open
    <3>6. \A h \in Histories : run'[h] = run[h]
      BY <1>1, <2>1, Sorts DEF Only
    <3>7. \A x \in Msgs : x # m => (Active(x)' <=> Active(x))
      BY <3>4 DEF Active
    <3>8. \A x \in Msgs : Open(x)' => Queued(x)' \/ run'[x].at \in {"details", "lists", "push"}
      BY <1>5, <3>2, <3>4, <3>5
    <3>9. ~recached' => \A x \in Msgs : Queued(x)' \/ Active(x)' => Open(x)'
      BY <1>2, <1>5, <3>2, <3>4, <3>5, <3>7
    <3> QED
      BY <1>2, <3>2, <3>3, <3>6, <3>8, <3>9
  <2>12. Types'
    BY <1>2, <1>3, <1>4, <2>1, <2>2 DEF Types, Only
  <2> QED
    BY <2>6, <2>7, <2>9, <2>10, <2>11, <2>12
<1>8. CASE Fails /\ UNCHANGED table /\ Goes(m, "done")
  <2>1. Moved(m, "done")
    BY <1>1, <1>8, GoesMoves DEF Types, Steps
  <2>2. Only(m) /\ run'[m].at = "done" /\ Ahead(m, run'[m]) \subseteq Ahead(m, run[m])
    BY <1>1, <1>6, <2>1 DEF Moved, Ahead, CacherOf
  <2>3. Stored' = Stored /\ CacherOf(m)'
    BY <1>6, <1>8, <2>1 DEF Stored, CacherOf, Moved, CacheSteps
  <2>4. ShapeInv'
    BY <1>1, <1>2, <2>2, <2>3, ShapeFrame DEF ShapeInv
  <2>5. ReplyInv'
    BY <1>1, <1>8, <2>2, ReplyFrame DEF Types
  <2>6. BoundInv'
    <3>1. unread' \in Seq(Msgs) /\ Len(unread') <= Len(unread) /\ count' \in Nat /\ count' <= count
      BY <1>2 DEF Types
    <3> QED
      BY <1>1, <2>2, <3>1, BoundAside
  <2>7. QueueInv' /\ UnreadInv'
    BY <1>8, WorksOrFails DEF QueueInv, UnreadInv
  <2>8. Types'
    BY <1>2, <1>3, <1>4, <1>8, <2>2 DEF Types, Only
  <2> QED
    BY <2>4, <2>5, <2>6, <2>7, <2>8
<1> QED
  BY <1>7, <1>8 DEF SaveChatMessage

\* GetHistoryMessages begins with the cache; details may have expired.
LEMMA GetRecentInv ==
  ASSUME CacheInv, NEW h \in Histories, GetRecentMessages(h)
  PROVE  CacheInv'
<1> USE DEF CacheInv
<1>1. /\ run[h].at = "idle" /\ h \in Cachers /\ h \in Runs /\ run[h] \in Run
      /\ h \notin Marks /\ h \notin Msgs
  BY Sorts DEF GetRecentMessages, At, Types
<1>2. UNCHANGED <<table, listed, unread, count, tangled, recached>> /\ details' \subseteq details
  BY DEF GetRecentMessages
<1>3. fails' \in 0 .. MaxFails /\ (fails' = 0 => fails = 0)
  BY WorksOrFails DEF GetRecentMessages
<1>4. overlapped' \in BOOLEAN /\ (~overlapped' => ~overlapped /\ ~ActiveMark)
  BY <1>1, NoOverlap DEF GetRecentMessages
<1>5. Stored' = Stored /\ \A x \in Msgs : Queued(x)' <=> Queued(x)
  BY <1>2 DEF Stored, Queued
<1>6. PICK S \in SUBSET listed :
        run' = [run EXCEPT ![h] = [Idle EXCEPT !.at = "read", !.hit = S, !.start = Stored]]
  BY DEF GetRecentMessages
<1>7. /\ Only(h) /\ run'[h].at = "read" /\ run'[h].todo = {} /\ run'[h].start = Stored
  <2> DEFINE new == [Idle EXCEPT !.at = "read", !.hit = S, !.start = Stored]
  <2>1. S \subseteq Msgs /\ Stored \subseteq Msgs
    BY DEF ShapeInv, Stored
  <2>2. new \in Run
    BY <2>1, IdleRun DEF Run, Steps
  <2>3. new.at = "read" /\ new.todo = {} /\ new.start = Stored
    BY DEF Idle
  <2>4. run' = [run EXCEPT ![h] = new]
    BY <1>6
  <2> HIDE DEF new
  <2>5. run' \in [Runs -> Run] /\ run'[h] = new /\ \A s \in Runs \ {h} : run'[s] = run[s]
    BY <1>1, <2>2, <2>4 DEF Types
  <2> QED
    BY <2>3, <2>5 DEF Only
<1>8. CacherOf(h)'
  BY <1>1, <1>5, <1>7 DEF CacherOf, CacheSteps
<1>9. ShapeInv'
  <2>1. details' \subseteq Stored' /\ listed' \subseteq Stored'
    BY <1>2, <1>5 DEF ShapeInv
  <2> QED
    BY <1>1, <1>5, <1>7, <1>8, <2>1, ShapeFrame
<1>10. ReplyInv'
  BY <1>1, <1>2, <1>7, ReplyFrame DEF Types
<1>11. Ahead(h, run'[h]) \subseteq Ahead(h, run[h])
  BY <1>1, <1>7 DEF Ahead
<1>12. BoundInv'
  <2>1. unread' \in Seq(Msgs) /\ Len(unread') <= Len(unread) /\ count' \in Nat /\ count' <= count
    BY <1>2 DEF Types
  <2> QED
    BY <1>1, <1>7, <1>11, <2>1, BoundAside
<1>13. QueueInv'
  BY <1>1, <1>2, <1>3, <1>7, QueueAside
<1>14. UnreadInv'
  <2> SUFFICES ASSUME fails' = 0, ~overlapped'
               PROVE  /\ ~tangled' /\ ~ActiveMark'
                      /\ \A x \in Msgs : Open(x)' =>
                           Queued(x)' \/ run'[x].at \in {"details", "lists", "push"}
                      /\ ~recached' =>
                           /\ \A g \in Histories : run'[g].at \in {"idle", "read", "done"}
                           /\ \A x \in Msgs : Queued(x)' \/ Active(x)' => Open(x)'
    BY DEF UnreadInv
  <2>1. fails = 0 /\ ~overlapped /\ ~ActiveMark
    BY <1>3, <1>4
  <2>2. /\ ~tangled
        /\ \A x \in Msgs : Open(x) => Queued(x) \/ run[x].at \in {"details", "lists", "push"}
        /\ ~recached => \A g \in Histories : run[g].at \in {"idle", "read", "done"}
        /\ ~recached => \A x \in Msgs : Queued(x) \/ Active(x) => Open(x)
    BY <2>1 DEF UnreadInv
  <2>3. ~tangled' /\ ~ActiveMark'
    BY <1>1, <1>2, <1>7, <2>1, <2>2, OthersActive
  <2>4. \A x \in Msgs : (Open(x)' <=> Open(x)) /\ run'[x] = run[x]
    BY <1>1, <1>2, <1>7, Sorts DEF Open, Only
  <2>5. \A x \in Msgs : Active(x)' <=> Active(x)
    BY <2>4 DEF Active
  <2>6. \A x \in Msgs : Open(x)' => Queued(x)' \/ run'[x].at \in {"details", "lists", "push"}
    BY <1>5, <2>2, <2>4
  <2>7. ~recached' => \A x \in Msgs : Queued(x)' \/ Active(x)' => Open(x)'
    BY <1>2, <1>5, <2>2, <2>4, <2>5
  <2>8. ASSUME ~recached', NEW g \in Histories PROVE run'[g].at \in {"idle", "read", "done"}
    <3>1. CASE g = h
      BY <1>7, <3>1
    <3>2. CASE g # h
      BY <1>2, <1>7, <2>2, <2>8, <3>2, Sorts DEF Only
    <3> QED
      BY <3>1, <3>2
  <2> QED
    BY <2>3, <2>6, <2>7, <2>8
<1>15. Types'
  BY <1>2, <1>3, <1>4, <1>7 DEF Types, Only
<1> QED
  BY <1>9, <1>10, <1>12, <1>13, <1>14, <1>15

\* What is cut to a number that is enough is complete.
LEMMA CutKeepsAll ==
  ASSUME NEW S, IsFiniteSet(S), NEW n, NEW T \in Cut(S, n), Cardinality(S) <= n
  PROVE  T = S
<1>1. T \in SUBSET S /\ Cardinality(T) = Cardinality(S)
  BY DEF Cut
<1> QED
  BY <1>1, FS_Subset

\* It fills up from the table, and will cache what it found.
LEMMA FillUpInv ==
  ASSUME CacheInv, NEW h \in Histories, FillUp(h)
  PROVE  CacheInv'
<1> USE DEF CacheInv
<1>1. /\ run[h].at = "read" /\ h \in Cachers /\ h \in Runs /\ run[h] \in Run
      /\ h \notin Marks /\ h \notin Msgs
  BY Sorts DEF FillUp, At, Types
<1>2. UNCHANGED <<table, details, listed, unread, count, tangled, overlapped>>
  BY DEF FillUp, redis
<1>3. fails' \in 0 .. MaxFails /\ (fails' = 0 => fails = 0)
  BY WorksOrFails DEF FillUp
<1>4. Stored' = Stored /\ \A x \in Msgs : Queued(x)' <=> Queued(x)
  BY <1>2 DEF Stored, Queued
<1>5. /\ IsFiniteSet(Stored) /\ Cardinality(Stored) \in Nat /\ Stored \subseteq Msgs
      /\ Cardinality(run[h].hit) \in Nat /\ run[h].hit \subseteq Msgs
  <2>1. Stored \subseteq Msgs /\ run[h].hit \subseteq Msgs
    BY <1>1, RunFields DEF Stored
  <2>2. IsFiniteSet(Stored) /\ IsFiniteSet(run[h].hit)
    BY <2>1, Finite, FS_Subset
  <2> QED
    BY <2>1, <2>2, FS_CardinalityType
<1>6. CacherOf(h) /\ run[h].start \subseteq Stored
  BY <1>1 DEF ShapeInv, CacherOf
\* Whatever the table gives, these facts keep the invariant.
<1>7. ASSUME Only(h), run'[h].at \in {"details", "done"}, CacherOf(h)',
             recached' \in BOOLEAN, ~recached' => ~recached /\ run'[h].at = "done",
             /\ ~run'[h].failed
             /\ Cardinality(run'[h].hit) + Cardinality(Stored) <= LIMIT
             => run'[h].start \subseteq run'[h].hit \cup run'[h].rows
      PROVE  CacheInv'
  <2>1. ShapeInv'
    <3>1. details' \subseteq Stored' /\ listed' \subseteq Stored'
      BY <1>2, <1>4 DEF ShapeInv
    <3> QED
      BY <1>1, <1>4, <1>7, <3>1, ShapeFrame
  <2>2. ReplyInv'
    BY <1>1, <1>2, <1>7, ReplyFrame DEF Types
  <2>3. Ahead(h, run'[h]) \subseteq Ahead(h, run[h])
    <3>1. run'[h].todo \subseteq Msgs /\ (run'[h].at = "details" => run'[h].msg \in Msgs)
      BY <1>4, <1>5, <1>7 DEF CacherOf, CacheSteps
    <3> QED
      BY <1>1, <1>7, <3>1 DEF Ahead
  <2>4. BoundInv'
    <3>1. unread' \in Seq(Msgs) /\ Len(unread') <= Len(unread) /\ count' \in Nat /\ count' <= count
      BY <1>2 DEF Types
    <3> QED
      BY <1>1, <1>7, <2>3, <3>1, BoundAside
  <2>5. QueueInv'
    BY <1>1, <1>2, <1>3, <1>7, QueueAside
  <2>6. UnreadInv'
    BY <1>1, <1>2, <1>3, <1>4, <1>7, UnreadStep DEF Active
  <2>7. Types'
    BY <1>2, <1>3, <1>7 DEF Types, Only
  <2> QED
    BY <2>1, <2>2, <2>4, <2>5, <2>6, <2>7
<1>8. CASE Cardinality(run[h].hit) >= LIMIT /\ Goes(h, "done") /\ UNCHANGED recached
  <2>1. Moved(h, "done")
    BY <1>1, <1>8, GoesMoves DEF Types, Steps
  <2>2. CacherOf(h)'
    BY <1>1, <1>4, <1>6, <2>1 DEF CacherOf, Moved, CacheSteps
  <2>3. Cardinality(run[h].hit) + Cardinality(Stored) <= LIMIT => run[h].start = {}
    <3>1. Cardinality(run[h].hit) + Cardinality(Stored) <= LIMIT => Cardinality(Stored) = 0
      BY <1>5, <1>8, Sorts
    <3>2. Cardinality(Stored) = 0 => Stored = {}
      BY <1>5, FS_EmptySet
    <3> QED
      BY <1>6, <3>1, <3>2
  <2> QED
    BY <1>7, <1>8, <2>1, <2>2, <2>3 DEF Moved, Types
<1>9. ASSUME Cardinality(run[h].hit) < LIMIT,
             NEW D \in Cut(Stored, LIMIT - Cardinality(run[h].hit)),
             Continues(h, [run[h] EXCEPT !.rows = D, !.todo = D]),
             recached' = (recached \/ D # {})
      PROVE  CacheInv'
  <2> DEFINE p == [run[h] EXCEPT !.rows = D, !.todo = D]
  <2>1. D \subseteq Stored
    BY DEF Cut
  <2>2. /\ p \in Run /\ p.todo = D /\ p.rows = D /\ p.hit = run[h].hit
        /\ p.start = run[h].start /\ p.failed = run[h].failed
    BY <1>1, <1>5, <2>1 DEF Run
  <2>3. Continues(h, p)
    BY <1>9
  <2> HIDE DEF p
  <2>4. Resumed(h, p)
    BY <1>1, <2>2, <2>3, ContinuesResumes DEF Types
  <2>5. /\ Only(h) /\ run'[h].at \in {"details", "done"}
        /\ run'[h].hit = run[h].hit /\ run'[h].rows = D /\ run'[h].start = run[h].start
        /\ run'[h].todo \subseteq D
        /\ run'[h].at = "details" => run'[h].msg \in D /\ run'[h].msg \notin run'[h].todo
        /\ D = {} => run'[h].at = "done"
    BY <2>2, <2>4 DEF Resumed
  <2>6. CacherOf(h)'
    BY <1>1, <1>4, <1>6, <2>1, <2>5 DEF CacherOf, CacheSteps
  <2>7. recached' \in BOOLEAN /\ (~recached' => ~recached /\ D = {})
    BY <1>9
  <2>8. Cardinality(run[h].hit) + Cardinality(Stored) <= LIMIT => D = Stored
    <3>1. ASSUME Cardinality(run[h].hit) + Cardinality(Stored) <= LIMIT
          PROVE  Cardinality(Stored) <= LIMIT - Cardinality(run[h].hit)
      BY <1>5, <3>1, Sorts
    <3> QED
      BY <1>5, <3>1, CutKeepsAll
  <2> QED
    BY <1>6, <1>7, <2>5, <2>6, <2>7, <2>8
<1>10. CASE /\ run' = [run EXCEPT ![h].at = "done", ![h].failed = TRUE]
            /\ UNCHANGED recached
  <2> DEFINE new == [run[h] EXCEPT !.at = "done", !.failed = TRUE]
  <2>1. new \in Run
    BY <1>1 DEF Run, Steps
  <2>2. new.at = "done" /\ new.failed /\ new.todo = run[h].todo /\ new.start = run[h].start
    BY <1>1 DEF Run
  <2>3. run' = [run EXCEPT ![h] = new]
    BY <1>1, <1>10 DEF Types
  <2> HIDE DEF new
  <2>4. run' \in [Runs -> Run] /\ run'[h] = new /\ \A s \in Runs \ {h} : run'[s] = run[s]
    BY <1>1, <2>1, <2>3 DEF Types
  <2>5. Only(h) /\ run'[h].at = "done" /\ run'[h].failed
    BY <2>2, <2>4 DEF Only
  <2>6. CacherOf(h)'
    BY <1>1, <1>4, <1>6, <2>2, <2>4 DEF CacherOf, CacheSteps
  <2> QED
    BY <1>7, <1>10, <2>5, <2>6 DEF Types
<1> QED
  <2>1. CASE Cardinality(run[h].hit) >= LIMIT
    BY <1>8, <2>1 DEF FillUp
  <2>2. CASE ~(Cardinality(run[h].hit) >= LIMIT)
    <3>1. Cardinality(run[h].hit) < LIMIT
      BY <1>5, <2>2, Sorts
    <3> QED
      BY <1>9, <1>10, <2>2, <3>1 DEF FillUp
  <2> QED
    BY <2>1, <2>2

\* What a marking leaves alone, whatever it does to the stores.
LEMMA MarkParts ==
  ASSUME CacheInv, NEW k \in Marks, NEW step \in {"del", "zero", "done"}, Goes(k, step),
         details' = details, listed' = listed,
         table' \in [Msgs -> {"absent", "unread", "read"}],
         \A m \in Msgs : table[m] # "absent" => table'[m] # "absent",
         unread' = unread \/ unread' = <<>>, count' = count \/ count' = 0,
         fails' \in 0 .. MaxFails, tangled' \in BOOLEAN, overlapped' \in BOOLEAN,
         recached' = recached
  PROVE  /\ Types' /\ ShapeInv' /\ BoundInv' /\ ReplyInv'
         /\ k \in Runs /\ k \notin Cachers /\ Only(k) /\ run'[k].at = step
         /\ \A r \in Cachers : run'[r] = run[r]
         /\ Uncounted' <=> Uncounted
         /\ Uncounted => ActiveOther
<1> USE DEF CacheInv
<1>1. k \in Runs /\ k \notin Cachers /\ k \notin Histories
  BY Sorts
<1>2. Moved(k, step)
  BY <1>1, GoesMoves DEF Types, Steps
<1>3. Only(k) /\ run'[k].at = step
  BY <1>2 DEF Moved
<1>4. \A r \in Cachers : run'[r] = run[r]
  BY <1>1, <1>3, Sorts DEF Only
<1>5. (Uncounted' <=> Uncounted) /\ (Uncounted => ActiveOther)
  BY <1>4 DEF Uncounted, ActiveOther, Active, Cachers
<1>6. unread' \in Seq(Msgs) /\ Len(unread') <= Len(unread) /\ count' \in Nat /\ count' <= count
  <2>1. unread \in Seq(Msgs) /\ Len(unread) \in Nat /\ count \in Nat
    BY DEF Types
  <2>2. unread' = <<>> => unread' \in Seq(Msgs) /\ Len(unread') = 0
    OBVIOUS
  <2>3. unread' \in Seq(Msgs) /\ Len(unread') <= Len(unread)
    <3>1. CASE unread' = unread
      BY <2>1, <3>1
    <3>2. CASE unread' = <<>>
      BY <2>1, <2>2, <3>2
    <3> QED
      BY <3>1, <3>2
  <2>4. count' \in Nat /\ count' <= count
    BY <2>1
  <2> QED
    BY <2>3, <2>4
<1>7. Types'
  BY <1>3, <1>6 DEF Types, Only
<1>8. ShapeInv'
  <2>1. details' \subseteq Stored' /\ listed' \subseteq Stored' /\ Stored \subseteq Stored'
    BY StoredGrows DEF ShapeInv
  <2>2. MarkOf(k)'
    BY <1>3 DEF MarkOf
  <2> QED
    BY <1>1, <1>3, <2>1, <2>2, ShapeFrame
<1>9. BoundInv'
  BY <1>1, <1>3, <1>6, BoundAside
<1>10. ReplyInv'
  BY <1>1, <1>3, ReplyFrame DEF Types
<1> QED
  BY <1>1, <1>3, <1>4, <1>5, <1>7, <1>8, <1>9, <1>10

\* While a marking is at work alone, no message is unread in the table.
LEMMA MarkAlone ==
  ASSUME CacheInv, NEW k \in Marks, Active(k), fails = 0, ~overlapped
  PROVE  /\ ActiveMark /\ ~ActiveOther /\ ~tangled
         /\ \A m \in Msgs : ~Open(m)
         /\ ~recached => \A h \in Histories : run[h].at \in {"idle", "read", "done"}
<1>1. ActiveMark
  BY DEF ActiveMark
<1> QED
  BY <1>1 DEF CacheInv, UnreadInv

\* UPDATE: nothing is unread in the table.
LEMMA MarkTableInv ==
  ASSUME CacheInv, NEW k \in Marks, MarkTable(k)
  PROVE  CacheInv'
<1>1. run[k].at = "idle" /\ k \in Runs /\ Goes(k, "del") /\ Types
  BY Sorts DEF MarkTable, At, CacheInv
<1>2. UNCHANGED <<details, listed, unread, count, tangled, recached>>
  BY DEF MarkTable, redis
<1>3. fails' \in 0 .. MaxFails /\ (fails' = 0 => fails = 0)
  BY <1>1, WorksOrFails DEF MarkTable
<1>4. overlapped' \in BOOLEAN /\ (~overlapped' => ~overlapped /\ ~ActiveOther)
  BY <1>1, NoOverlap DEF MarkTable
<1>5. \/ table' = table /\ fails' # 0
      \/ table' = [m \in Msgs |-> IF table[m] = "unread" THEN "read" ELSE table[m]]
  BY <1>1, WorksOrFails DEF MarkTable
<1>6. /\ table' \in [Msgs -> {"absent", "unread", "read"}]
      /\ \A m \in Msgs : table[m] # "absent" => table'[m] # "absent"
      /\ fails' = 0 => \A m \in Msgs : ~Open(m)'
  BY <1>1, <1>5 DEF Types, Open
<1>7. tangled' \in BOOLEAN
  BY <1>1, <1>2 DEF Types
<1>8. /\ Types' /\ ShapeInv' /\ BoundInv' /\ ReplyInv' /\ Only(k) /\ run'[k].at = "del"
      /\ \A r \in Cachers : run'[r] = run[r]
  BY <1>1, <1>2, <1>3, <1>4, <1>6, <1>7, MarkParts
<1>9. QueueInv'
  BY <1>1, <1>2, <1>3, <1>8, QueueAside DEF CacheInv
<1>10. UnreadInv'
  <2> SUFFICES ASSUME fails' = 0, ~overlapped'
               PROVE  /\ ~tangled' /\ ~ActiveOther' /\ ActiveMark'
                      /\ \A m \in Msgs : ~Open(m)'
                      /\ ~recached' => \A h \in Histories : run'[h].at \in {"idle", "read", "done"}
    BY DEF UnreadInv
  <2>1. fails = 0 /\ ~overlapped /\ ~ActiveOther
    BY <1>3, <1>4
  <2>2. ~ActiveOther' /\ ActiveMark'
    BY <1>1, <1>8, <2>1, OthersActive DEF ActiveMark, Active
  <2>3. /\ ~tangled
        /\ ~recached => \A h \in Histories : run[h].at \in {"idle", "read", "done"}
    BY <2>1 DEF CacheInv, UnreadInv
  <2> QED
    BY <1>2, <1>6, <1>8, <2>2, <2>3, Sorts
<1> QED
  BY <1>8, <1>9, <1>10 DEF CacheInv

\* DEL: nothing is queued, and nobody is about to count unless tangled.
LEMMA MarkQueueInv ==
  ASSUME CacheInv, NEW k \in Marks, MarkQueue(k)
  PROVE  CacheInv'
<1>1. run[k].at = "del" /\ Active(k) /\ Goes(k, "zero") /\ Types
  BY DEF MarkQueue, At, CacheInv, Active
<1>2. UNCHANGED <<table, details, listed, count, overlapped, recached>>
  BY DEF MarkQueue
<1>3. fails' \in 0 .. MaxFails /\ (fails' = 0 => fails = 0)
  BY <1>1, WorksOrFails DEF MarkQueue
<1>4. /\ tangled' \in BOOLEAN
      /\ ~tangled' => ~tangled /\ ~Uncounted
      /\ ~tangled /\ ~Uncounted => ~tangled'
  BY DEF MarkQueue
<1>5. unread' = <<>> \/ (unread' = unread /\ fails' # 0)
  BY <1>1, WorksOrFails DEF MarkQueue
<1>6. /\ table' \in [Msgs -> {"absent", "unread", "read"}] /\ overlapped' \in BOOLEAN
      /\ \A m \in Msgs : table[m] # "absent" => table'[m] # "absent"
      /\ \A m \in Msgs : Open(m)' <=> Open(m)
  BY <1>1, <1>2 DEF Types, Open
<1>7. /\ Types' /\ ShapeInv' /\ BoundInv' /\ ReplyInv' /\ k \in Runs /\ Only(k)
      /\ run'[k].at = "zero" /\ (\A r \in Cachers : run'[r] = run[r])
      /\ (Uncounted' <=> Uncounted) /\ (Uncounted => ActiveOther)
  BY <1>1, <1>2, <1>3, <1>4, <1>5, <1>6, MarkParts
<1>8. QueueInv'
  <2> SUFFICES ASSUME fails' = 0, ~tangled'
               PROVE  Zeroing' /\ unread' = <<>> /\ ~Uncounted'
    BY DEF QueueInv
  <2>1. Zeroing'
    BY <1>7 DEF Zeroing
  <2> QED
    BY <1>4, <1>5, <1>7, <2>1
<1>9. UnreadInv'
  <2> SUFFICES ASSUME fails' = 0, ~overlapped'
               PROVE  /\ ~tangled' /\ ~ActiveOther' /\ ActiveMark'
                      /\ \A m \in Msgs : ~Open(m)'
                      /\ ~recached' => \A h \in Histories : run'[h].at \in {"idle", "read", "done"}
    BY DEF UnreadInv
  <2>1. fails = 0 /\ ~overlapped
    BY <1>2, <1>3
  <2>2. /\ ~ActiveOther /\ ~tangled /\ \A m \in Msgs : ~Open(m)
        /\ ~recached => \A h \in Histories : run[h].at \in {"idle", "read", "done"}
    BY <1>1, <2>1, MarkAlone
  <2>3. ~ActiveOther' /\ ActiveMark'
    BY <1>7, <2>2, OthersActive DEF ActiveMark, Active
  <2> QED
    BY <1>2, <1>4, <1>6, <1>7, <2>2, <2>3, Sorts
<1> QED
  BY <1>7, <1>8, <1>9 DEF CacheInv

\* HSET of the count: queue and count are empty together.
LEMMA MarkCountInv ==
  ASSUME CacheInv, NEW k \in Marks, MarkCount(k)
  PROVE  CacheInv'
<1>1. run[k].at = "zero" /\ Active(k) /\ Goes(k, "done") /\ Types /\ Zeroing
  BY DEF MarkCount, At, CacheInv, Active, Zeroing
<1>2. UNCHANGED <<table, details, listed, unread, overlapped, recached>>
  BY DEF MarkCount
<1>3. fails' \in 0 .. MaxFails /\ (fails' = 0 => fails = 0)
  BY <1>1, WorksOrFails DEF MarkCount
<1>4. /\ tangled' \in BOOLEAN
      /\ ~tangled' => ~tangled /\ ~Uncounted
      /\ ~tangled /\ ~Uncounted => ~tangled'
  BY DEF MarkCount
<1>5. count' = 0 \/ (count' = count /\ fails' # 0)
  BY <1>1, WorksOrFails DEF MarkCount
<1>6. /\ table' \in [Msgs -> {"absent", "unread", "read"}] /\ overlapped' \in BOOLEAN
      /\ \A m \in Msgs : table[m] # "absent" => table'[m] # "absent"
      /\ \A m \in Msgs : Open(m)' <=> Open(m)
  BY <1>1, <1>2 DEF Types, Open
<1>7. /\ Types' /\ ShapeInv' /\ BoundInv' /\ ReplyInv' /\ k \in Runs /\ Only(k)
      /\ run'[k].at = "done" /\ (\A r \in Cachers : run'[r] = run[r])
      /\ (Uncounted' <=> Uncounted) /\ (Uncounted => ActiveOther)
  BY <1>1, <1>2, <1>3, <1>4, <1>5, <1>6, MarkParts
<1>8. fails = 0 /\ ~tangled => unread = <<>>
  BY <1>1 DEF CacheInv, QueueInv
<1>9. QueueInv'
  <2> SUFFICES ASSUME fails' = 0, ~tangled'
               PROVE  /\ unread' = <<>> /\ ~Uncounted'
                      /\ count' + Cardinality(Pushed') <= Len(unread')
                      /\ \A r \in Cachers : run'[r].at # "hset"
    BY DEF QueueInv
  <2>1. unread' = <<>> /\ ~Uncounted' /\ count' = 0
    BY <1>2, <1>3, <1>4, <1>5, <1>7, <1>8
  <2>2. \A r \in Cachers : run'[r].at \notin {"hget", "hset"}
    BY <2>1 DEF Uncounted, Cachers
  <2>3. Pushed' = {}
    BY <2>2 DEF Pushed
  <2>4. Cardinality(Pushed') = 0 /\ Len(unread') = 0
    BY <2>1, <2>3, FS_EmptySet
  <2> QED
    BY <2>1, <2>2, <2>4
<1>10. UnreadInv'
  <2> SUFFICES ASSUME fails' = 0, ~overlapped'
               PROVE  /\ ~tangled' /\ ~ActiveOther'
                      /\ \A m \in Msgs : ~Open(m)'
                      /\ ~recached' => \A h \in Histories : run'[h].at \in {"idle", "read", "done"}
                      /\ \A m \in Msgs : ~(Queued(m)' \/ Active(m)')
    BY DEF UnreadInv
  <2>1. fails = 0 /\ ~overlapped
    BY <1>2, <1>3
  <2>2. /\ ~ActiveOther /\ ~tangled /\ \A m \in Msgs : ~Open(m)
        /\ ~recached => \A h \in Histories : run[h].at \in {"idle", "read", "done"}
    BY <1>1, <2>1, MarkAlone
  <2>3. ~ActiveOther'
    BY <1>7, <2>2, OthersActive
  <2>4. \A m \in Msgs : ~Active(m)'
    BY <2>3 DEF ActiveOther
  <2>5. \A m \in Msgs : ~Queued(m)'
    BY <1>2, <1>8, <2>1, <2>2 DEF Queued
  <2> QED
    BY <1>2, <1>4, <1>6, <1>7, <2>2, <2>3, <2>4, <2>5, Sorts
<1> QED
  BY <1>7, <1>9, <1>10 DEF CacheInv

-----------------------------------------------------------------------------
\* In the beginning there are as many pushes to come as there can be: one of
\* each message by its own handler and one by every history request.
LEMMA InitPushes == Init => Cardinality(ToPush) <= MaxPushes
<1> SUFFICES ASSUME Init PROVE Cardinality(ToPush) <= MaxPushes
  OBVIOUS
<1> DEFINE own == {x \in Msgs \X Msgs : x[1] = x[2]}
           old == Histories \X Msgs
<1>1. \A r \in Runs : run[r].at = "idle" /\ run[r].todo = {}
  BY DEF Init, Idle
<1>2. \A r \in Cachers : Ahead(r, run[r]) = IF r \in Msgs THEN {r} ELSE Msgs
  BY <1>1, Sorts DEF Ahead
<1>3. ToPush \subseteq own \cup old
  <2> SUFFICES ASSUME NEW r \in Cachers, NEW m \in Msgs, m \in Ahead(r, run[r])
               PROVE  <<r, m>> \in own \cup old
    BY DEF ToPush
  <2>1. CASE r \in Msgs
    <3>1. m = r
      BY <1>2, <2>1
    <3> QED
      BY <2>1, <3>1
  <2>2. CASE r \in Histories
    BY <2>2
  <2> QED
    BY <2>1, <2>2 DEF Cachers
<1>4. IsFiniteSet(own) /\ Cardinality(own) <= Cardinality(Msgs)
  <2> DEFINE first == [x \in own |-> x[1]]
  <2>1. first \in [own -> Msgs]
    OBVIOUS
  <2>2. \A x, y \in own : first[x] = first[y] => x = y
    OBVIOUS
  <2>3. first \in Injection(own, Msgs)
    BY <2>1, <2>2 DEF Injection, IsInjective
  <2> QED
    BY <2>3, Finite, FS_Injection
<1>5. IsFiniteSet(old) /\ Cardinality(old) = Cardinality(Histories) * Cardinality(Msgs)
  BY Finite, FS_Product
<1> HIDE DEF own, old
<1>6. /\ IsFiniteSet(own \cup old)
      /\ Cardinality(own \cup old) = Cardinality(own) + Cardinality(old) - Cardinality(own \cap old)
  BY <1>4, <1>5, FS_Union
<1>7. Cardinality(own \cap old) \in Nat
  <2>1. IsFiniteSet(own \cap old)
    BY <1>4, FS_Subset
  <2> QED
    BY <2>1, FS_CardinalityType
<1>8. Cardinality(ToPush) <= Cardinality(own \cup old)
  BY <1>3, <1>6, FS_Subset
<1>9. /\ Cardinality(Msgs) \in Nat /\ Cardinality(Histories) \in Nat
      /\ Cardinality(own) \in Nat /\ Cardinality(old) \in Nat
      /\ Cardinality(own \cup old) \in Nat
  BY <1>4, <1>5, <1>6, Finite, FS_CardinalityType
<1>10. MaxPushes = Cardinality(Msgs) + Cardinality(Histories) * Cardinality(Msgs)
  BY <1>9 DEF MaxPushes
<1>11. Cardinality(Histories) * Cardinality(Msgs) \in Nat
  BY <1>9
<1> QED
  BY <1>4, <1>5, <1>6, <1>7, <1>8, <1>9, <1>10, <1>11, CountsAreNat

\* The stores start in the invariant.
LEMMA InitInv == Init => CacheInv
<1> SUFFICES ASSUME Init PROVE CacheInv
  OBVIOUS
<1>1. \A r \in Runs : run[r] = Idle
  BY DEF Init
<1>2. \A r \in Runs : /\ run[r].at = "idle" /\ run[r].todo = {} /\ run[r].start = {}
  BY <1>1 DEF Idle
<1>3. unread = <<>> /\ count = 0 /\ details = {} /\ listed = {} /\ Len(unread) = 0
  BY DEF Init
<1>4. Types
  <2>1. run \in [Runs -> Run]
    BY IdleRun DEF Init
  <2>2. <<>> \in Seq(Msgs) /\ 0 \in 0 .. MaxFails
    BY Sorts
  <2> QED
    BY <2>1, <2>2 DEF Init, Types
<1>5. ShapeInv
  BY <1>2, <1>3, Sorts DEF ShapeInv, CacherOf, MarkOf, CacheSteps
<1>6. Pushed = {} /\ Cardinality(Pushed) = 0
  <2>1. Pushed = {}
    BY <1>2, Sorts DEF Pushed
  <2> QED
    BY <2>1, FS_EmptySet
<1>7. BoundInv
  <2>1. \A r \in Cachers : run[r].at # "hset"
    BY <1>2, Sorts
  <2> QED
    BY <1>3, <1>6, <2>1, InitPushes, CountsAreNat, Finite DEF BoundInv
<1>8. ~Zeroing /\ ~ActiveMark /\ ~ActiveOther /\ ~tangled
  BY <1>2, Sorts DEF Zeroing, ActiveMark, ActiveOther, Active, Cachers, Init
<1>9. QueueInv
  <2>1. \A r \in Cachers : run[r].at # "hset"
    BY <1>2, Sorts
  <2> QED
    BY <1>3, <1>6, <1>8, <2>1 DEF QueueInv
<1>10. UnreadInv
  <2>1. \A m \in Msgs : ~Open(m) /\ ~Queued(m) /\ ~Active(m)
    BY <1>2, <1>3, Sorts DEF Open, Queued, Active, Init
  <2>2. \A h \in Histories : run[h].at = "idle"
    BY <1>2, Sorts
  <2> QED
    BY <1>8, <2>1, <2>2 DEF UnreadInv
<1>11. ReplyInv
  BY <1>2, Sorts DEF ReplyInv
<1> QED
  BY <1>4, <1>5, <1>7, <1>9, <1>10, <1>11 DEF CacheInv

\* The invariant is inductive.
LEMMA StepInv == CacheInv /\ [Next]_vars => CacheInv'
<1> SUFFICES ASSUME CacheInv, [Next]_vars PROVE CacheInv'
  OBVIOUS
<1>1. CASE UNCHANGED vars
  <2>1. UNCHANGED <<table, details, listed, unread, count, run, fails, tangled, overlapped, recached>>
    BY <1>1 DEF vars, redis
  <2>2. Stored' = Stored /\ Pushed' = Pushed /\ ToPush' = ToPush
    BY <2>1 DEF Stored, Pushed, ToPush
  <2>3. Types' /\ ShapeInv'
    BY <2>1, <2>2 DEF CacheInv, Types, ShapeInv, CacherOf, MarkOf
  <2>4. BoundInv' /\ ReplyInv'
    BY <2>1, <2>2 DEF CacheInv, BoundInv, ReplyInv
  <2>5. QueueInv'
    BY <2>1, <2>2 DEF CacheInv, QueueInv, Zeroing, Uncounted
  <2>6. UnreadInv'
    BY <2>1 DEF CacheInv, UnreadInv, ActiveMark, ActiveOther, Active, Open, Queued
  <2> QED
    BY <2>3, <2>4, <2>5, <2>6 DEF CacheInv
<1>2. ASSUME NEW m \in Msgs, SaveChatMessage(m) PROVE CacheInv'
  BY <1>2, SaveInv
<1>3. ASSUME NEW r \in Cachers,
             \/ CacheDetails(r) \/ CacheLists(r) \/ CachePush(r)
             \/ CacheGetCount(r) \/ CacheSetCount(r)
      PROVE  CacheInv'
  BY <1>3, DetailsInv, ListsInv, PushInv, GetCountInv, SetCountInv
<1>4. ASSUME NEW h \in Histories, GetRecentMessages(h) \/ FillUp(h) PROVE CacheInv'
  BY <1>4, GetRecentInv, FillUpInv
<1>5. ASSUME NEW k \in Marks, MarkTable(k) \/ MarkQueue(k) \/ MarkCount(k) PROVE CacheInv'
  BY <1>5, MarkTableInv, MarkQueueInv, MarkCountInv
<1> QED
  BY <1>1, <1>2, <1>3, <1>4, <1>5 DEF Next, Cachers

LEMMA SpecInv == Spec => []CacheInv
  BY InitInv, StepInv, PTL DEF Spec

-----------------------------------------------------------------------------
\* A queue that is not empty has a first message.
LEMMA QueueEmpty ==
  ASSUME unread \in Seq(Msgs)
  PROVE  (unread = <<>> <=> Len(unread) = 0) /\ Len(unread) \in Nat
  OBVIOUS

\* Types, and what CacheNewMessage rests on: only stored messages are cached,
\* and no interleaving of HGET and HSET counts more than is ever pushed.
THEOREM TypeCorrect == Spec => []TypeOK
<1>1. CacheInv => TypeOK
  <2> SUFFICES ASSUME CacheInv PROVE TypeOK
    OBVIOUS
  <2>1. Len(unread) <= MaxPushes /\ count \in 0 .. MaxPushes
    <3>1. Len(unread) \in Nat /\ count \in Nat
      BY DEF CacheInv, Types
    <3> QED
      BY <3>1, CountsAreNat, Finite DEF CacheInv, BoundInv
  <2>2. details \subseteq Msgs /\ listed \subseteq Msgs /\ details \cup listed \subseteq Stored
    BY DEF CacheInv, ShapeInv, Stored
  <2>3. {tangled, overlapped, recached} \subseteq BOOLEAN
    BY DEF CacheInv, Types
  <2> QED
    BY <2>1, <2>2, <2>3 DEF CacheInv, Types, TypeOK, Run, Steps
<1> QED
  BY <1>1, SpecInv, PTL

\* Concurrent senders may lose increments of the count of unread messages, but
\* between requests it is positive exactly if something is queued and never
\* above the queue, unless MarkMessagesRead came between queueing and counting.
THEOREM CountFollowsQueue == Spec => []QueueCounted
<1>1. CacheInv => QueueCounted
  <2> SUFFICES ASSUME CacheInv, Quiet, ~tangled
               PROVE  (count > 0 <=> unread # <<>>) /\ count <= Len(unread)
    BY DEF QueueCounted
  <2>1. \A r \in Runs : run[r].at \in {"idle", "done"}
    BY DEF Quiet, Active
  <2>2. fails = 0 /\ ~Zeroing /\ ~Uncounted
    BY <2>1, Sorts DEF Quiet, Zeroing, Uncounted, Cachers
  <2>3. Pushed = {} /\ Cardinality(Pushed) = 0
    <3>1. Pushed = {}
      BY <2>1, Sorts DEF Pushed
    <3> QED
      BY <3>1, FS_EmptySet
  <2>4. count + Cardinality(Pushed) <= Len(unread) /\ (count = 0 => unread = <<>>)
    BY <2>2 DEF CacheInv, QueueInv
  <2>5. count \in Nat /\ Len(unread) \in Nat /\ (unread = <<>> <=> Len(unread) = 0)
    BY QueueEmpty DEF CacheInv, Types
  <2> QED
    BY <2>3, <2>4, <2>5
<1> QED
  BY <1>1, SpecInv, PTL

\* Between requests every message that chat_messages holds as unread is queued
\* and counted in Redis; and nothing else is, until a history request has
\* cached old messages: unless a marking overlapped another request.
THEOREM UnreadAnnounced == Spec => []UnreadIsCounted
<1>1. CacheInv => UnreadIsCounted
  <2> SUFFICES ASSUME CacheInv, Quiet, ~overlapped
               PROVE  /\ (\E m \in Msgs : Open(m)) => count > 0
                      /\ \A m \in Msgs : Open(m) => Queued(m)
                      /\ count > 0 /\ ~recached => \E m \in Msgs : Open(m)
    BY DEF UnreadIsCounted, Open, Queued
  <2>1. \A r \in Runs : run[r].at \in {"idle", "done"} /\ ~Active(r)
    BY DEF Quiet, Active
  <2>2. fails = 0 /\ ~Zeroing /\ ~Uncounted /\ ~ActiveMark
    BY <2>1, Sorts DEF Quiet, Zeroing, Uncounted, ActiveMark, Cachers
  <2>3. /\ ~tangled
        /\ \A m \in Msgs : Open(m) => Queued(m)
        /\ ~recached => \A m \in Msgs : Queued(m) => Open(m)
    BY <2>1, <2>2, Sorts DEF CacheInv, UnreadInv
  <2>4. count + Cardinality(Pushed) <= Len(unread) /\ (count = 0 => unread = <<>>)
    BY <2>2, <2>3 DEF CacheInv, QueueInv
  <2>5. count \in Nat /\ Len(unread) \in Nat /\ unread \in Seq(Msgs)
    BY DEF CacheInv, Types
  <2>6. ASSUME NEW m \in Msgs, Open(m) PROVE count > 0
    <3>1. Queued(m)
      BY <2>3, <2>6
    <3>2. Len(unread) # 0
      BY <3>1, <2>5 DEF Queued
    <3> QED
      BY <2>4, <2>5, <3>2
  <2>7. ASSUME count > 0, ~recached PROVE \E m \in Msgs : Open(m)
    <3>1. 1 \in 1 .. Len(unread)
      BY <2>4, <2>5, <2>7, CountsAreNat
    <3>2. unread[1] \in Msgs /\ Queued(unread[1])
      BY <2>5, <3>1 DEF Queued
    <3> QED
      BY <2>3, <2>7, <3>2
  <2> QED
    BY <2>3, <2>6, <2>7
<1> QED
  BY <1>1, SpecInv, PTL

\* The reply of GetHistoryMessages has every message that was stored when the
\* request began, if cache and table together do not exceed the limit,
\* whatever failed to be cached, has expired or is being cached meanwhile.
THEOREM RepliesComplete == Spec => []HistoryComplete
<1>1. CacheInv => HistoryComplete
  BY DEF CacheInv, ReplyInv, HistoryComplete, At
<1> QED
  BY <1>1, SpecInv, PTL
=============================================================================
