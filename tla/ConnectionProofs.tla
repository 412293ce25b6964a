-------------------------- MODULE ConnectionProofs --------------------------
(***************************************************************************)
(* Proofs about one connection of the chat server: its send path           *)
(* (CSession) and the bytes on it (Framing).                               *)
(*                                                                         *)
(* Send path, for every queue limit, payload set and fragmentation.  The   *)
(* inductive invariant says where the wire stands: the queue is the unsent *)
(* tail of the accepted messages, at most one write is outstanding and it  *)
(* is the write of the queue's front, and the wire has grown by whole      *)
(* frames for the popped messages plus the outstanding write's pieces.     *)
(*                                                                         *)
(* Framing, for every base, limit and set of messages.  The inductive      *)
(* invariant says what the bytes under way are: what an end holds in its   *)
(* buffer and what is still to arrive is, with the head already read, the  *)
(* frames of the messages sent and not yet handed over.                    *)
(***************************************************************************)
EXTENDS CSession, Framing, SequenceTheorems, TLAPS

Popped == Len(accepted) - Len(sendQueue)

\* The queue is a suffix of the accepted messages.
QueueIsSuffix ==
  /\ Len(sendQueue) <= Len(accepted)
  /\ \A i \in 1 .. Len(sendQueue) : sendQueue[i] = accepted[Popped + i]

\* One write at a time, of the front of the queue, at the end of the wire.
FrontIsWritten ==
  /\ \A v, w \in writes : v = w
  /\ \A w \in writes :
       /\ Len(sendQueue) > 0
       /\ w.msg = sendQueue[1]
       /\ w.result = "ok" <=> w.pos = FRAGS
       /\ Len(wire) = Popped * FRAGS + w.pos

\* With no write outstanding the queue is drained, or the session is dead.
IdleOrDead ==
  writes = {} =>
    \/ Len(sendQueue) = 0 /\ Len(wire) = Len(accepted) * FRAGS
    \/ ~open /\ Len(sendQueue) > 0

\* Writes are started for the popped messages and for the front.
StartedCount == started = Popped + (IF Len(sendQueue) > 0 THEN 1 ELSE 0)

\* The inductive invariant of the send path.
SendInv ==
  /\ TypeOK
  /\ QueueBound
  /\ QueueIsSuffix
  /\ StartedCount
  /\ FrontIsWritten
  /\ IdleOrDead
  /\ WireInOrder

-----------------------------------------------------------------------------
\* Multiplication by a natural is monotone: the nonlinear step below needs it.
LEMMA TimesMonotone ==
  ASSUME NEW a \in Nat, NEW b \in Nat, NEW f \in Nat, a <= b
  PROVE  a * f <= b * f
<1>1. PICK d \in Nat : b = a + d
  <2>1. b - a \in Nat /\ b = a + (b - a)
    OBVIOUS
  <2> QED
    BY <2>1
<1>2. b * f = a * f + d * f
  BY <1>1
<1>3. d * f \in Nat /\ a * f \in Nat
  OBVIOUS
<1> QED
  BY <1>2, <1>3

\* A position on the wire belongs to one piece of one frame.
LEMMA PositionUnique ==
  ASSUME NEW a \in Nat, NEW b \in Nat, NEW f \in Nat, NEW j \in 1 .. f, NEW p \in 1 .. f,
         a * f + j = b * f + p
  PROVE  a = b /\ j = p
<1>1. ~(a < b)
  <2> SUFFICES ASSUME a < b PROVE FALSE
    OBVIOUS
  <2>1. (a + 1) * f <= b * f
    BY TimesMonotone
  <2>2. (a + 1) * f = a * f + f
    OBVIOUS
  <2>3. a * f \in Nat /\ b * f \in Nat
    OBVIOUS
  <2> QED
    BY <2>1, <2>2, <2>3
<1>2. ~(b < a)
  <2> SUFFICES ASSUME b < a PROVE FALSE
    OBVIOUS
  <2>1. (b + 1) * f <= a * f
    BY TimesMonotone
  <2>2. (b + 1) * f = b * f + f
    OBVIOUS
  <2>3. a * f \in Nat /\ b * f \in Nat
    OBVIOUS
  <2> QED
    BY <2>1, <2>2, <2>3
<1>3. a = b
  BY <1>1, <1>2
<1>4. a * f \in Nat
  OBVIOUS
<1> QED
  BY <1>3, <1>4

\* Appending leaves the earlier elements where they are.
LEMMA AppendKeeps ==
  ASSUME NEW S, NEW s \in Seq(S), NEW e \in S, NEW i \in 1 .. Len(s)
  PROVE  Append(s, e)[i] = s[i]
  OBVIOUS

\* A nonlinear position is a natural number, at least its last summand.
LEMMA PositionNat ==
  ASSUME NEW a \in Nat, NEW f \in Nat, NEW j \in 1 .. f
  PROVE  a * f \in Nat /\ a * f + j \in Nat /\ a * f + j >= 1
<1>1. a * f \in Nat
  OBVIOUS
<1> QED
  BY <1>1

-----------------------------------------------------------------------------
LEMMA SendInvInit == Init => SendInv
  BY CSessionAssumption
  DEF Init, SendInv, TypeOK, QueueBound, QueueIsSuffix, StartedCount, FrontIsWritten, IdleOrDead,
      WireInOrder, Popped, Write, Piece
\* SendQueued: a new suffix element; it starts a write only on an empty queue.
LEMMA SendQueuedInv ==
  ASSUME SendInv, NEW m \in Msgs, SendQueued(m)
  PROVE  SendInv'
<1> USE CSessionAssumption DEF SendInv
<1>1. TypeOK' /\ StartedCount'
  BY DEF TypeOK, SendQueued, NewWrite, Write, StartedCount, Popped, QueueIsSuffix
<1>2. QueueBound'
  BY DEF TypeOK, QueueBound, SendQueued
<1>3. Len(accepted') = Len(accepted) + 1 /\ Len(sendQueue') = Len(sendQueue) + 1
      /\ Popped' = Popped
  BY DEF TypeOK, SendQueued, Popped, QueueIsSuffix
<1>4. QueueIsSuffix'
  <2>1. ASSUME NEW i \in 1 .. Len(sendQueue')
        PROVE  sendQueue'[i] = accepted'[Popped + i]
    <3>1. sendQueue' = Append(sendQueue, m) /\ accepted' = Append(accepted, m)
      BY DEF SendQueued
    <3>2. Popped \in Nat /\ Popped + Len(sendQueue) = Len(accepted)
      BY DEF TypeOK, Popped, QueueIsSuffix
    <3>3. CASE i \in 1 .. Len(sendQueue)
      BY <3>1, <3>2, <3>3 DEF TypeOK, QueueIsSuffix
    <3>4. CASE i = Len(sendQueue) + 1
      BY <3>1, <3>2, <3>4 DEF TypeOK
    <3> QED
      BY <1>3, <3>3, <3>4 DEF TypeOK
  <2>2. Len(sendQueue') <= Len(accepted')
    BY <1>3 DEF TypeOK, QueueIsSuffix
  <2> QED
    BY <1>3, <2>1, <2>2 DEF QueueIsSuffix
<1>5. Len(wire) <= Len(accepted) * FRAGS
  BY DEF WireInOrder
<1>6. FrontIsWritten'
  <2>1. CASE Len(sendQueue) > 0
    <3>1. writes' = writes /\ wire' = wire /\ sendQueue'[1] = sendQueue[1]
      BY <2>1 DEF SendQueued, TypeOK
    <3> QED
      BY <1>3, <2>1, <3>1 DEF FrontIsWritten, TypeOK
  <2>2. CASE Len(sendQueue) = 0
    <3>1. writes = {}
      BY <2>2 DEF FrontIsWritten
    <3>2. Len(wire) = Len(accepted) * FRAGS /\ Popped = Len(accepted)
      BY <2>2, <3>1 DEF IdleOrDead, TypeOK, Popped
    <3>3. writes' = {NewWrite(m)} /\ wire' = wire /\ sendQueue'[1] = m
      BY <2>2, <3>1 DEF SendQueued, TypeOK
    <3>4. Len(wire') = Popped' * FRAGS + 0
      BY <3>2, <3>3, <1>3 DEF TypeOK
    <3> QED
      BY <1>3, <2>2, <3>3, <3>4 DEF FrontIsWritten, NewWrite
  <2> QED
    BY <2>1, <2>2 DEF TypeOK
<1>7. IdleOrDead'
  <2>1. CASE Len(sendQueue) > 0
    BY <1>3, <2>1 DEF SendQueued, IdleOrDead
  <2>2. CASE ~(Len(sendQueue) > 0)
    BY <2>2 DEF SendQueued, IdleOrDead
  <2> QED
    BY <2>1, <2>2
<1>8. WireInOrder'
  <2>1. Len(accepted) * FRAGS <= Len(accepted') * FRAGS
    BY <1>3, TimesMonotone DEF TypeOK
  <2>2. Len(wire') <= Len(accepted') * FRAGS
    <3>1. wire' = wire /\ Len(wire) \in Nat
      BY DEF SendQueued, TypeOK
    <3>2. Len(accepted) * FRAGS \in Nat /\ Len(accepted') * FRAGS \in Nat
      BY <1>3 DEF TypeOK
    <3> QED
      BY <1>5, <2>1, <3>1, <3>2
  <2>3. ASSUME NEW k \in 1 .. Len(accepted'), NEW j \in 1 .. FRAGS,
               (k - 1) * FRAGS + j <= Len(wire')
        PROVE  wire'[(k - 1) * FRAGS + j] = [msg |-> accepted'[k], part |-> j]
    <3>1. wire' = wire /\ accepted' = Append(accepted, m) /\ Len(wire) \in Nat
      BY DEF SendQueued, TypeOK
    <3>2. k # Len(accepted) + 1
      <4> SUFFICES ASSUME k = Len(accepted) + 1 PROVE FALSE
        OBVIOUS
      <4>1. Len(accepted) \in Nat /\ Len(accepted) * FRAGS \in Nat
        BY DEF TypeOK
      <4>2. k - 1 = Len(accepted)
        BY <4>1
      <4>3. Len(accepted) * FRAGS + j <= Len(wire)
        BY <4>2, <2>3, <3>1
      <4> QED
        BY <4>1, <4>3, <1>5, <3>1
    <3>3. k \in 1 .. Len(accepted) /\ accepted'[k] = accepted[k]
      BY <1>3, <3>1, <3>2 DEF TypeOK
    <3> QED
      BY <2>3, <3>1, <3>3 DEF WireInOrder
  <2> QED
    BY <2>2, <2>3 DEF WireInOrder
<1> QED
  BY <1>1, <1>2, <1>4, <1>6, <1>7, <1>8

\* WriteSome: the new piece is the next one of the front's frame.
LEMMA WriteSomeInv ==
  ASSUME SendInv, NEW w \in writes, WriteSome(w)
  PROVE  SendInv'
<1> USE CSessionAssumption DEF SendInv
<1> DEFINE v == Advanced(w)
<1>1. /\ w \in Write
      /\ w.result = "pending"
      /\ w.pos \in 0 .. FRAGS
      /\ w.pos # FRAGS
      /\ w.msg = sendQueue[1]
      /\ Len(sendQueue) > 0
      /\ Len(wire) = Popped * FRAGS + w.pos
      /\ writes = {w}
  BY DEF TypeOK, Write, WriteSome, FrontIsWritten
<1>2. /\ writes' = {v}
      /\ v \in Write
      /\ v.pos = w.pos + 1
      /\ v.msg = w.msg
      /\ v.result = "ok" <=> v.pos = FRAGS
  <2>1. writes' = {v}
    BY <1>1 DEF WriteSome
  <2>2. v.pos = w.pos + 1 /\ v.msg = w.msg
    BY DEF Advanced
  <2>3. v.result = IF w.pos + 1 = FRAGS THEN "ok" ELSE "pending"
    BY DEF Advanced
  <2>4. v \in Write
    BY <1>1 DEF Advanced, Write
  <2> QED
    BY <2>1, <2>2, <2>3, <2>4
<1>3. /\ wire' = Append(wire, [msg |-> w.msg, part |-> w.pos + 1])
      /\ wire' \in Seq(Piece)
      /\ Len(wire') = Len(wire) + 1
      /\ UNCHANGED <<sendQueue, started, open, reading, accepted>>
  BY <1>1 DEF WriteSome, TypeOK, Piece, Write
<1>4. Popped \in Nat /\ Popped < Len(accepted) /\ Popped' = Popped
      /\ Len(accepted) \in Nat
  BY <1>1, <1>3 DEF Popped, QueueIsSuffix, TypeOK
<1>5. Popped * FRAGS \in Nat /\ Len(accepted) * FRAGS \in Nat
  BY <1>4
<1>6. Len(wire') <= Len(accepted') * FRAGS
  <2>1. (Popped + 1) * FRAGS <= Len(accepted) * FRAGS
    BY <1>4, TimesMonotone
  <2>2. (Popped + 1) * FRAGS = Popped * FRAGS + FRAGS
    BY <1>4
  <2>3. ASSUME NEW x \in Nat, NEW y \in Nat, Len(wire) = x + w.pos, x + FRAGS <= y
        PROVE  Len(wire) + 1 <= y
    BY <1>1, <2>3
  <2>4. Len(wire) + 1 <= Len(accepted) * FRAGS
    BY <1>1, <1>5, <2>1, <2>2, <2>3
  <2> QED
    BY <1>3, <2>4
<1>7. ASSUME NEW k \in 1 .. Len(accepted), NEW j \in 1 .. FRAGS,
             (k - 1) * FRAGS + j <= Len(wire')
      PROVE  wire'[(k - 1) * FRAGS + j] = [msg |-> accepted[k], part |-> j]
  <2>0. k - 1 \in Nat /\ FRAGS \in Nat
    BY <1>4
  <2>1. (k - 1) * FRAGS \in Nat /\ (k - 1) * FRAGS + j \in Nat /\ (k - 1) * FRAGS + j >= 1
    BY <2>0, PositionNat
  <2>2. CASE (k - 1) * FRAGS + j <= Len(wire)
    <3>1. (k - 1) * FRAGS + j \in 1 .. Len(wire)
      BY <2>1, <2>2
    <3>2. [msg |-> w.msg, part |-> w.pos + 1] \in Piece /\ wire \in Seq(Piece)
      BY <1>1 DEF Piece, Write, TypeOK
    <3>3. wire'[(k - 1) * FRAGS + j] = wire[(k - 1) * FRAGS + j]
      BY <1>3, <3>1, <3>2, AppendKeeps
    <3> QED
      BY <2>2, <3>3 DEF WireInOrder
  <2>3. CASE (k - 1) * FRAGS + j = Len(wire) + 1
    <3>0. ASSUME NEW x \in Nat, Len(wire) = x + w.pos
          PROVE  Len(wire) + 1 = x + (w.pos + 1)
      BY <1>1, <3>0
    <3>1. (k - 1) * FRAGS + j = Popped * FRAGS + (w.pos + 1)
      BY <1>1, <1>5, <2>3, <3>0
    <3>2. w.pos + 1 \in 1 .. FRAGS
      BY <1>1
    <3>3. k - 1 = Popped /\ j = w.pos + 1
      BY <1>4, <2>0, <3>1, <3>2, PositionUnique
    <3>4. w.msg = accepted[k]
      BY <1>1, <3>3, <1>4 DEF QueueIsSuffix, TypeOK
    <3>5. wire'[Len(wire) + 1] = [msg |-> w.msg, part |-> w.pos + 1]
      BY <1>3 DEF TypeOK
    <3> QED
      BY <2>3, <3>3, <3>4, <3>5
  <2>4. Len(wire) \in Nat
    BY DEF TypeOK
  <2>5. ASSUME NEW n \in Nat, n <= Len(wire')
        PROVE  n <= Len(wire) \/ n = Len(wire) + 1
    BY <1>3, <2>4, <2>5
  <2> QED
    BY <1>7, <2>1, <2>2, <2>3, <2>5
<1>8. TypeOK'
  BY <1>2, <1>3 DEF TypeOK
<1>9. QueueBound' /\ QueueIsSuffix' /\ StartedCount'
  BY <1>3, <1>4 DEF QueueBound, QueueIsSuffix, StartedCount
<1>10. FrontIsWritten'
  <2>1. Len(wire') = Popped * FRAGS + v.pos
    BY <1>1, <1>2, <1>3, <1>5
  <2> HIDE DEF v
  <2> QED
    BY <1>1, <1>2, <1>3, <1>4, <2>1 DEF FrontIsWritten
<1>11. IdleOrDead'
  BY <1>2 DEF IdleOrDead
<1>12. WireInOrder'
  BY <1>3, <1>6, <1>7 DEF WireInOrder
<1> QED
  BY <1>8, <1>9, <1>10, <1>11, <1>12
\* WriteFails: the operation of the front will report an error.
LEMMA WriteFailsInv ==
  ASSUME SendInv, NEW w \in writes, WriteFails(w)
  PROVE  SendInv'
<1> USE CSessionAssumption DEF SendInv
<1> DEFINE v == [w EXCEPT !.result = "error"]
<1>1. /\ w \in Write
      /\ w.result = "pending"
      /\ writes = {w}
  BY DEF TypeOK, WriteFails, FrontIsWritten
<1>2. /\ writes' = {v}
      /\ v \in Write
      /\ v.pos = w.pos
      /\ v.msg = w.msg
      /\ v.result = "error"
  BY <1>1 DEF WriteFails, Write
<1>3. UNCHANGED <<sendQueue, started, open, reading, accepted, wire>>
  BY DEF WriteFails
<1> HIDE DEF v
<1>4. TypeOK'
  BY <1>2, <1>3 DEF TypeOK
<1>5. FrontIsWritten'
  BY <1>1, <1>2, <1>3 DEF FrontIsWritten, Popped
<1> QED
  BY <1>2, <1>3, <1>4, <1>5
  DEF QueueBound, QueueIsSuffix, StartedCount, IdleOrDead, WireInOrder, Popped

\* handleWrite after success: the popped frame is complete, so the wire
\* stands exactly at the start of the next frame.
LEMMA HandleWriteOkInv ==
  ASSUME SendInv, NEW w \in writes, HandleWriteOk(w)
  PROVE  SendInv'
<1> USE CSessionAssumption DEF SendInv
<1>1. /\ w \in Write
      /\ w.pos = FRAGS
      /\ Len(sendQueue) > 0
      /\ Len(wire) = Popped * FRAGS + FRAGS
      /\ writes = {w}
  BY DEF TypeOK, HandleWriteOk, FrontIsWritten
<1>2. /\ sendQueue' = Tail(sendQueue)
      /\ sendQueue' \in Seq(Msgs)
      /\ Len(sendQueue') = Len(sendQueue) - 1
      /\ \A i \in 1 .. Len(sendQueue') : sendQueue'[i] = sendQueue[i + 1]
      /\ UNCHANGED <<open, reading, accepted, wire>>
  BY <1>1 DEF HandleWriteOk, TypeOK
<1>3. Popped \in Nat /\ Popped' = Popped + 1 /\ Len(accepted) \in Nat
  BY <1>1, <1>2 DEF Popped, QueueIsSuffix, TypeOK
<1>4. Len(wire') = Popped' * FRAGS + 0
  <2>1. (Popped + 1) * FRAGS = Popped * FRAGS + FRAGS /\ Popped * FRAGS \in Nat
    BY <1>3
  <2> QED
    BY <1>1, <1>2, <1>3, <2>1
<1>5. \/ Len(sendQueue') > 0 /\ writes' = {NewWrite(sendQueue'[1])} /\ started' = started + 1
      \/ Len(sendQueue') = 0 /\ writes' = {} /\ started' = started
  <2>1. CASE Tail(sendQueue) # <<>>
    <3>1. Len(sendQueue') > 0 /\ Head(Tail(sendQueue)) = sendQueue'[1]
      BY <1>2, <2>1
    <3>2. writes' = (writes \ {w}) \cup {NewWrite(Head(Tail(sendQueue)))} /\ started' = started + 1
      BY <2>1 DEF HandleWriteOk
    <3> QED
      BY <1>1, <3>1, <3>2
  <2>2. CASE Tail(sendQueue) = <<>>
    <3>1. Len(sendQueue') = 0
      BY <1>2, <2>2
    <3>2. writes' = writes \ {w} /\ started' = started
      BY <2>2 DEF HandleWriteOk
    <3> QED
      BY <1>1, <3>1, <3>2
  <2> QED
    BY <2>1, <2>2
<1>6. TypeOK' /\ StartedCount'
  <2>1. Len(sendQueue') > 0 => NewWrite(sendQueue'[1]) \in Write
    BY <1>2 DEF NewWrite, Write, TypeOK
  <2>2. StartedCount'
    <3>1. started = Popped + 1
      BY <1>1 DEF StartedCount
    <3>2. started' = Popped' + (IF Len(sendQueue') > 0 THEN 1 ELSE 0)
      BY <1>3, <1>5, <3>1
    <3> QED
      BY <3>2 DEF StartedCount
  <2>3. started' \in 0 .. Len(accepted')
    BY <1>2, <1>3, <2>2 DEF StartedCount, Popped, QueueIsSuffix, TypeOK
  <2> QED
    BY <1>2, <1>5, <2>1, <2>2, <2>3 DEF TypeOK
<1>7. QueueBound'
  BY <1>2 DEF QueueBound, TypeOK
<1>8. QueueIsSuffix'
  <2>1. ASSUME NEW i \in 1 .. Len(sendQueue')
        PROVE  sendQueue'[i] = accepted[Popped' + i]
    <3>1. sendQueue'[i] = sendQueue[i + 1] /\ i + 1 \in 1 .. Len(sendQueue)
      BY <1>2 DEF TypeOK
    <3>2. sendQueue[i + 1] = accepted[Popped + (i + 1)]
      BY <3>1 DEF QueueIsSuffix
    <3>3. Popped + (i + 1) = Popped' + i
      BY <1>3
    <3> QED
      BY <3>1, <3>2, <3>3
  <2>2. Len(sendQueue') <= Len(accepted)
    BY <1>2 DEF QueueIsSuffix, TypeOK
  <2> QED
    BY <1>2, <2>1, <2>2 DEF QueueIsSuffix
<1>9. FrontIsWritten'
  BY <1>4, <1>5 DEF FrontIsWritten, NewWrite
<1>10. IdleOrDead'
  <2>1. Len(sendQueue') = 0 => Popped' = Len(accepted)
    <3>1. Popped' = Len(accepted) - Len(sendQueue')
      BY <1>2 DEF Popped
    <3> QED
      BY <1>3, <3>1
  <2>2. Len(accepted) * FRAGS \in Nat
    BY <1>3
  <2> QED
    BY <1>2, <1>4, <1>5, <2>1, <2>2 DEF IdleOrDead
<1>11. WireInOrder'
  BY <1>2 DEF WireInOrder
<1> QED
  BY <1>6, <1>7, <1>8, <1>9, <1>10, <1>11

\* The two ways a session closes: nothing is written afterwards.
LEMMA CloseInv ==
  ASSUME SendInv, ReadFails \/ \E w \in writes : HandleWriteError(w)
  PROVE  SendInv'
<1> USE CSessionAssumption DEF SendInv
<1>1. CASE ReadFails
  BY <1>1 DEF ReadFails, TypeOK, QueueBound, QueueIsSuffix, StartedCount, FrontIsWritten, IdleOrDead,
              WireInOrder, Popped
<1>2. ASSUME NEW w \in writes, HandleWriteError(w)
      PROVE  SendInv'
  <2>1. writes = {w} /\ Len(sendQueue) > 0
    BY DEF FrontIsWritten
  <2>2. writes' = {} /\ open' = FALSE /\ UNCHANGED <<sendQueue, started, reading, accepted, wire>>
    BY <1>2, <2>1 DEF HandleWriteError
  <2> QED
    BY <2>1, <2>2 DEF TypeOK, QueueBound, QueueIsSuffix, StartedCount, FrontIsWritten, IdleOrDead,
                      WireInOrder, Popped
<1> QED
  BY <1>1, <1>2

LEMMA SendInvNext == SendInv /\ [Next]_vars => SendInv'
<1> SUFFICES ASSUME SendInv, [Next]_vars PROVE SendInv'
  OBVIOUS
<1>1. CASE UNCHANGED vars
  BY <1>1 DEF vars, SendInv, TypeOK, QueueBound, QueueIsSuffix, StartedCount, FrontIsWritten, IdleOrDead,
              WireInOrder, Popped
<1>2. CASE SendDropped
  BY <1>1, <1>2 DEF SendDropped
<1>3. CASE \E m \in Msgs : SendQueued(m)
  BY <1>3, SendQueuedInv
<1>4. CASE \E w \in writes : WriteSome(w)
  BY <1>4, WriteSomeInv
<1>5. CASE \E w \in writes : WriteFails(w)
  BY <1>5, WriteFailsInv
<1>6. CASE \E w \in writes : HandleWriteOk(w)
  BY <1>6, HandleWriteOkInv
<1>7. CASE ReadFails \/ \E w \in writes : HandleWriteError(w)
  BY <1>7, CloseInv
<1> QED
  BY <1>1, <1>2, <1>3, <1>4, <1>5, <1>6, <1>7 DEF Next

-----------------------------------------------------------------------------
\* The send path keeps its inductive invariant in every reachable state.
THEOREM SendInvHolds == Safety => []SendInv
<1>1. Init => SendInv
  BY SendInvInit
<1>2. SendInv /\ [Next]_vars => SendInv'
  BY SendInvNext
<1> QED
  BY <1>1, <1>2, PTL DEF Safety

\* The state of a session's send path is well typed.
THEOREM CSessionTypeOK == Safety => []TypeOK
<1>1. SendInv => TypeOK
  BY DEF SendInv
<1> QED
  BY <1>1, SendInvHolds, PTL

\* Frames reach the wire whole and in the order in which send accepted them,
\* for any number of senders, any queue limit and any fragmentation.
THEOREM FramesInOrder == Safety => []WireInOrder
<1>1. SendInv => WireInOrder
  BY DEF SendInv
<1> QED
  BY <1>1, SendInvHolds, PTL

\* send may leave a message to the write already under way: there is one as
\* long as the socket is open.
THEOREM NeverStalls == Safety => []NoStall
<1>1. SendInv => NoStall
  BY DEF SendInv, NoStall, IdleOrDead, TypeOK
<1> QED
  BY <1>1, SendInvHolds, PTL

\* A client that does not read cannot make the server's memory grow: send
\* refuses messages beyond the limit, whatever the limit is.
THEOREM QueueStaysBounded == Safety => []QueueBound
<1>1. SendInv => QueueBound
  BY DEF SendInv
<1> QED
  BY <1>1, SendInvHolds, PTL
-----------------------------------------------------------------------------
(***************************************************************************)
(* Refinement.  Every step of the send path is a step of the ordered       *)
(* channel or leaves the channel's state alone.                            *)
(***************************************************************************)
LEMMA SendPathStep ==
  ASSUME SendInv, [Next]_vars
  PROVE  [Channel!ChannelNext]_(Channel!cvars)
<1> USE CSessionAssumption
<1> USE DEF Channel!ChannelNext, Channel!cvars
<1>0. /\ Len(sendQueue) \in Nat
      /\ Len(accepted) \in Nat
      /\ Len(sendQueue) <= Len(accepted)
  BY DEF SendInv, TypeOK, QueueIsSuffix
<1>1. CASE UNCHANGED vars \/ SendDropped
  BY <1>1 DEF vars, SendDropped, Delivered
<1>2. ASSUME NEW m \in Msgs, SendQueued(m)
      PROVE  Channel!Accept(m)
  <2>1. Len(accepted') = Len(accepted) + 1 /\ Len(sendQueue') = Len(sendQueue) + 1
    BY <1>2 DEF SendQueued, SendInv, TypeOK
  <2>2. (\E w \in writes' : w.result = "ok") <=> (\E w \in writes : w.result = "ok")
    BY <1>2 DEF SendQueued, NewWrite
  <2>3. Delivered' = Delivered
    BY <1>0, <2>1, <2>2 DEF Delivered
  <2> QED
    BY <1>2, <2>3 DEF SendQueued, Channel!Accept
<1>3. ASSUME NEW w \in writes, WriteSome(w)
      PROVE  Channel!Deliver \/ UNCHANGED Channel!cvars
  <2>1. writes = {w} /\ w.result = "pending" /\ Len(sendQueue) > 0
    BY <1>3 DEF SendInv, FrontIsWritten, WriteSome
  <2>2. writes' = {Advanced(w)} /\ open /\ UNCHANGED <<accepted, sendQueue, open>>
    BY <1>3, <2>1 DEF WriteSome
  <2>3. Delivered = Len(accepted) - Len(sendQueue)
    BY <1>0, <2>1 DEF Delivered
  <2>4. CASE Advanced(w).result = "ok"
    <3>1. Delivered' = (Len(accepted) - Len(sendQueue)) + 1
      BY <2>2, <2>4 DEF Delivered
    <3> QED
      BY <1>0, <2>1, <2>2, <2>3, <3>1 DEF Channel!Deliver
  <2>5. CASE Advanced(w).result # "ok"
    <3>1. Delivered' = Len(accepted) - Len(sendQueue)
      BY <1>0, <2>2, <2>5 DEF Delivered
    <3> QED
      BY <2>2, <2>3, <3>1
  <2> QED
    BY <2>4, <2>5
<1>4. ASSUME NEW w \in writes, WriteFails(w)
      PROVE  UNCHANGED Channel!cvars
  <2> DEFINE v == [w EXCEPT !.result = "error"]
  <2>1. writes = {w} /\ w.result = "pending" /\ w \in Write
    BY <1>4 DEF SendInv, FrontIsWritten, WriteFails, TypeOK
  <2>2. writes' = {v} /\ v.result = "error"
    BY <1>4, <2>1 DEF WriteFails, Write
  <2> HIDE DEF v
  <2>3. UNCHANGED <<accepted, sendQueue, open>>
    BY <1>4 DEF WriteFails
  <2> QED
    BY <2>1, <2>2, <2>3 DEF Delivered
<1>5. ASSUME NEW w \in writes, HandleWriteOk(w)
      PROVE  UNCHANGED Channel!cvars
  <2>1. writes = {w} /\ w.result = "ok" /\ Len(sendQueue) > 0
    BY <1>5 DEF SendInv, FrontIsWritten, HandleWriteOk
  <2>2. Delivered = (Len(accepted) - Len(sendQueue)) + 1
    BY <2>1 DEF Delivered
  <2>3. UNCHANGED <<accepted, open>> /\ Len(sendQueue') = Len(sendQueue) - 1
    BY <1>5, <2>1 DEF HandleWriteOk, SendInv, TypeOK
  <2>4. ~ \E v \in writes' : v.result = "ok"
    BY <1>5, <2>1 DEF HandleWriteOk, NewWrite
  <2>5. Delivered' = Len(accepted) - (Len(sendQueue) - 1)
    BY <1>0, <2>3, <2>4 DEF Delivered
  <2> QED
    BY <1>0, <2>2, <2>3, <2>5
<1>6. ASSUME NEW w \in writes, HandleWriteError(w)
      PROVE  Channel!Break
  <2>1. writes = {w} /\ w.result = "error"
    BY <1>6 DEF SendInv, FrontIsWritten, HandleWriteError
  <2>2. writes' = {} /\ open' = FALSE /\ UNCHANGED <<accepted, sendQueue>>
    BY <1>6, <2>1 DEF HandleWriteError
  <2> QED
    BY <2>1, <2>2 DEF Delivered, Channel!Break
<1>7. CASE ReadFails
  BY <1>7 DEF ReadFails, Delivered, Channel!Break
<1> QED
  BY <1>1, <1>2, <1>3, <1>4, <1>5, <1>6, <1>7 DEF Next

\* The send path implements the safety part of the ordered channel: whatever
\* the threads of the logic pool and the io thread do, the connection sees
\* the accepted messages one after the other.
THEOREM SendPathImplementsChannel == Safety => Channel!ChannelSafety
<1>1. Init => Channel!ChannelInit
  BY DEF Init, Channel!ChannelInit, Delivered
<1>2. SendInv /\ [Next]_vars => [Channel!ChannelNext]_(Channel!cvars)
  BY SendPathStep
<1> QED
  BY <1>1, <1>2, SendInvHolds, PTL DEF Safety, Channel!ChannelSafety

-----------------------------------------------------------------------------
(***************************************************************************)
(* Fields.                                                                 *)
(***************************************************************************)
Half == Width \div 2

\* A field is wide enough for the length of a head.
LEMMA Widths ==
  /\ Base \in Nat /\ Base >= 4 /\ Width \in Nat /\ Width >= 16
  /\ Half \in Nat /\ 8 <= Half /\ 2 * Half <= Width /\ Width <= 2 * Half + 1
  /\ MAX_LENGTH \in Nat /\ MAX_LENGTH < Half /\ MaxSends \in Nat /\ MaxConns \in Nat
<1>1. Base \in Nat /\ Base >= 4
  BY FramingAssumption DEF HEAD_TOTAL_LEN
<1>2. Width \in Nat
  BY <1>1 DEF Width
<1>3. 4 * Base <= Base * Base
  BY <1>1, TimesMonotone
<1>4. Width >= 16
  BY <1>1, <1>2, <1>3 DEF Width
<1>5. Half \in Nat /\ 8 <= Half /\ 2 * Half <= Width /\ Width <= 2 * Half + 1
  BY <1>2, <1>4 DEF Half
<1> QED
  BY <1>1, <1>2, <1>4, <1>5, FramingAssumption DEF Half

\* Division with remainder.
LEMMA DivMod ==
  ASSUME NEW n \in Nat, NEW b \in Nat \ {0}
  PROVE  /\ n \div b \in Nat /\ n % b \in 0 .. b - 1
         /\ n = (n \div b) * b + (n % b)
<1>1. n \div b \in Nat
  BY SMT
<1>2. n % b \in 0 .. b - 1
  BY SMT
<1>3. n = (n \div b) * b + (n % b)
  BY SMT
<1> QED
  BY <1>1, <1>2, <1>3

\* What is written into a field is read from it.
LEMMA FieldRoundTrip ==
  ASSUME NEW n \in 0 .. Width - 1
  PROVE  /\ Field(n) \in Seq(Byte) /\ Len(Field(n)) = 2
         /\ Field(n)[1] * Base + Field(n)[2] = n
<1> DEFINE q == n \div Base
           r == n % Base
<1>1. Base \in Nat \ {0} /\ n \in Nat /\ Width \in Nat
  BY Widths
<1>2. q \in Nat /\ r \in 0 .. Base - 1 /\ n = q * Base + r
  BY <1>1, DivMod
<1>3. n % Width = n
  BY <1>1, SMT
<1>4. Field(n) = <<q, r>>
  BY <1>3 DEF Field
<1> HIDE DEF q, r
<1>5. q < Base
  <2>1. SUFFICES ASSUME q >= Base PROVE FALSE
    BY <1>1, <1>2
  <2>2. Base * Base <= q * Base
    BY <1>1, <1>2, <2>1, TimesMonotone
  <2>3. q * Base \in Nat /\ n >= q * Base
    BY <1>1, <1>2
  <2> QED
    BY <1>1, <2>2, <2>3 DEF Width
<1>6. q \in Byte /\ r \in Byte
  BY <1>1, <1>2, <1>5 DEF Byte
<1>7. Field(n) \in Seq(Byte) /\ Len(Field(n)) = 2
  BY <1>4, <1>6
<1>8. Field(n)[1] = q /\ Field(n)[2] = r
  BY <1>4
<1> QED
  BY <1>2, <1>7, <1>8

\* Whatever two bytes say is a value of the field.
LEMMA FieldValue ==
  ASSUME NEW a \in Byte, NEW b \in Byte
  PROVE  a * Base + b \in 0 .. Width - 1
<1>1. Base \in Nat /\ Base >= 4 /\ a \in Nat /\ b \in Nat /\ a + 1 <= Base /\ b + 1 <= Base
  BY Widths DEF Byte
<1>2. (a + 1) * Base <= Base * Base
  BY <1>1, TimesMonotone
<1>3. (a + 1) * Base = a * Base + Base
  BY <1>1
<1>4. a * Base \in Nat
  BY <1>1
<1> QED
  BY <1>1, <1>2, <1>3, <1>4, Widths DEF Width

\* A number that fits is its own short, and a short is at most the number.
LEMMA ShortFits ==
  ASSUME NEW n \in Nat
  PROVE  /\ Short(n) \in Int /\ Short(n) <= n /\ Short(n) < Half
         /\ n < Half => Short(n) = n
         /\ n < Width /\ Short(n) >= 0 => Short(n) = n
<1>1. Width \in Nat \ {0} /\ Half \in Nat /\ Half <= Width
  BY Widths
<1>2. n % Width \in 0 .. Width - 1 /\ n % Width <= n
  <2>1. /\ n \div Width \in Nat /\ n % Width \in 0 .. Width - 1
        /\ n = (n \div Width) * Width + (n % Width)
    BY <1>1, DivMod
  <2>2. (n \div Width) * Width \in Nat
    BY <1>1, <2>1
  <2> QED
    BY <2>1, <2>2
<1>3. n < Width => n % Width = n
  BY <1>1, SMT
<1>4. Short(n) = IF n % Width >= Half THEN (n % Width) - Width ELSE n % Width
  BY DEF Short, Half
<1> QED
  BY <1>1, <1>2, <1>3, <1>4

\* A node that can be allocated has a length that is no negative short.
LEMMA SendableLength ==
  ASSUME NEW m \in Replies, ~NodeThrows(m)
  PROVE  Short(Len(m.body)) \in 0 .. Half - 1
<1> DEFINE s == Short(Len(m.body))
<1>1. Len(m.body) \in Nat
  BY FramingAssumption
<1>2. s \in Int /\ s < Half /\ s \notin -5 .. -1
  BY <1>1, ShortFits, FramingAssumption DEF HEAD_TOTAL_LEN
<1>3. s >= Half - Width
  <2>1. Len(m.body) % Width \in 0 .. Width - 1
    <3>1. Width \in Nat \ {0}
      BY Widths
    <3> QED
      BY <1>1, <3>1, DivMod
  <2>2. PICK v \in 0 .. Width - 1 : s = IF v >= Half THEN v - Width ELSE v
    BY <2>1 DEF Short, Half
  <2> HIDE DEF s
  <2>3. CASE v >= Half
    BY <2>2, <2>3, Widths
  <2>4. CASE ~(v >= Half)
    BY <2>2, <2>4, Widths
  <2> QED
    BY <2>3, <2>4
<1>4. ~(Short(s + 4) + 1 < 0)
  BY DEF NodeThrows, HEAD_TOTAL_LEN
<1> HIDE DEF s
<1>5. ASSUME s < 0 PROVE FALSE
  <2>1. s \in Half - Width .. -6
    BY <1>2, <1>3, <1>5, Widths
  <2>2. (s + 4) % Width = s + 4 + Width
    BY <2>1, Widths, SMT
  <2>3. Short(s + 4) = s + 4
    BY <2>1, <2>2, Widths DEF Short, Half
  <2> QED
    BY <1>4, <2>1, <2>3, Widths
<1>6. s \in 0 .. Half - 1
  BY <1>2, <1>5, Widths
<1> QED
  BY <1>6 DEF s

-----------------------------------------------------------------------------
(***************************************************************************)
(* Streams of pieces.  The concatenation of any number of frames is        *)
(* described by where each piece ends, without recursion.                  *)
(***************************************************************************)

\* The pieces c + 1 .. n of P, one after the other, are s; piece i ends at
\* end[i].
Stream(s, P, c, n) ==
  \E end \in [c .. n -> 0 .. Len(s)] :
    /\ end[c] = 0 /\ end[n] = Len(s)
    /\ \A i, j \in c .. n : i <= j => end[i] <= end[j]
    /\ \A i \in c + 1 .. n :
         /\ end[i] = end[i - 1] + Len(P[i])
         /\ \A j \in 1 .. Len(P[i]) : s[end[i - 1] + j] = P[i][j]

\* A position within a piece is one within the stream, also when the stream
\* loses its beginning.
LEMMA Within ==
  ASSUME NEW a \in Nat, NEW l \in Nat, NEW n \in Nat, NEW j \in 1 .. l, a + l <= n
  PROVE  a + j \in 1 .. n
  OBVIOUS

LEMMA Shifted ==
  ASSUME NEW a \in Nat, NEW b \in Nat, NEW l \in Nat, NEW k \in Nat, NEW n \in Nat,
         b = a + l, k <= a, b <= n
  PROVE  /\ b - k = (a - k) + l /\ a - k \in Nat
         /\ \A j \in 1 .. l : (a - k) + j \in 1 .. n - k /\ k + ((a - k) + j) = a + j
  OBVIOUS

\* Beginning and rest of a sequence of bytes.
LEMMA TakeRest ==
  ASSUME NEW s \in Seq(Byte), NEW k \in 0 .. Len(s)
  PROVE  /\ Take(s, k) \in Seq(Byte) /\ Len(Take(s, k)) = k
         /\ \A j \in 1 .. k : Take(s, k)[j] = s[j]
         /\ Rest(s, k) \in Seq(Byte) /\ Len(Rest(s, k)) = Len(s) - k
         /\ \A j \in 1 .. Len(s) - k : Rest(s, k)[j] = s[k + j]
  BY DEF Take, Rest

LEMMA Joined ==
  ASSUME NEW s \in Seq(Byte), NEW t \in Seq(Byte)
  PROVE  /\ s \o t \in Seq(Byte) /\ Len(s \o t) = Len(s) + Len(t)
         /\ Len(s) \in Nat /\ Len(t) \in Nat
         /\ \A j \in 1 .. Len(s) : (s \o t)[j] = s[j]
         /\ \A j \in 1 .. Len(t) : (s \o t)[Len(s) + j] = t[j]
  OBVIOUS

LEMMA JoinedAt ==
  ASSUME NEW s \in Seq(Byte), NEW t \in Seq(Byte), NEW st, st = s \o t
  PROVE  /\ st \in Seq(Byte) /\ Len(st) = Len(s) + Len(t) /\ Len(s) \in Nat /\ Len(t) \in Nat
         /\ \A j \in 1 .. Len(s) : st[j] = s[j]
         /\ \A j \in 1 .. Len(t) : st[Len(s) + j] = t[j]
  BY Joined

\* A sequence is put together from its beginning and its rest.
LEMMA Pasted ==
  ASSUME NEW s \in Seq(Byte), NEW a \in Seq(Byte), NEW b \in Seq(Byte),
         Len(s) = Len(a) + Len(b),
         \A j \in 1 .. Len(a) : s[j] = a[j],
         \A j \in 1 .. Len(b) : s[Len(a) + j] = b[j]
  PROVE  s = a \o b
<1> DEFINE u == a \o b
<1>1. /\ u \in Seq(Byte) /\ Len(u) = Len(a) + Len(b) /\ Len(a) \in Nat /\ Len(b) \in Nat
      /\ \A j \in 1 .. Len(a) : u[j] = a[j]
      /\ \A j \in 1 .. Len(b) : u[Len(a) + j] = b[j]
  BY Joined
<1> HIDE DEF u
<1>2. ASSUME NEW j \in 1 .. Len(s) PROVE s[j] = u[j]
  <2>1. CASE j <= Len(a)
    BY <1>1, <2>1
  <2>2. CASE j > Len(a)
    <3>1. j - Len(a) \in 1 .. Len(b) /\ j = Len(a) + (j - Len(a))
      BY <1>1, <2>2
    <3>2. s[Len(a) + (j - Len(a))] = b[j - Len(a)] /\ u[Len(a) + (j - Len(a))] = b[j - Len(a)]
      BY <1>1, <3>1
    <3> QED
      BY <3>1, <3>2
  <2> QED
    BY <1>1, <2>1, <2>2
<1>3. s = u
  BY <1>1, <1>2, SeqEqual
<1> QED
  BY <1>3 DEF u

LEMMA TakeThenRest ==
  ASSUME NEW t \in Seq(Byte), NEW k \in 0 .. Len(t)
  PROVE  Take(t, k) \o Rest(t, k) = t
<1> DEFINE a == Take(t, k)
           b == Rest(t, k)
<1>1. /\ a \in Seq(Byte) /\ Len(a) = k /\ \A j \in 1 .. k : a[j] = t[j]
      /\ b \in Seq(Byte) /\ Len(b) = Len(t) - k
      /\ \A j \in 1 .. Len(t) - k : b[j] = t[k + j]
  BY TakeRest
<1> HIDE DEF a, b
<1>2. /\ Len(t) = Len(a) + Len(b)
      /\ \A j \in 1 .. Len(a) : t[j] = a[j]
      /\ \A j \in 1 .. Len(b) : t[Len(a) + j] = b[j]
  BY <1>1
<1>3. t = a \o b
  BY <1>1, <1>2, Pasted
<1> QED
  BY <1>3 DEF a, b

\* Moving bytes from one sequence to the end of another.
LEMMA MoveBytes ==
  ASSUME NEW s \in Seq(Byte), NEW t \in Seq(Byte), NEW k \in 0 .. Len(t)
  PROVE  (s \o Take(t, k)) \o Rest(t, k) = s \o t
<1> DEFINE a == Take(t, k)
           b == Rest(t, k)
<1>1. a \in Seq(Byte) /\ b \in Seq(Byte)
  BY TakeRest
<1>3. t = a \o b
  BY TakeThenRest
<1> HIDE DEF a, b
<1>4. (s \o a) \o b = s \o t
  BY <1>1, <1>3, ConcatAssociative
<1> QED
  BY <1>4 DEF a, b

LEMMA PasteTail ==
  ASSUME NEW s \in Seq(Byte), NEW t \in Seq(Byte), NEW k \in 0 .. Len(s)
  PROVE  Take(s, k) \o (Rest(s, k) \o t) = s \o t /\ Rest(s, k) \o t \in Seq(Byte)
<1> DEFINE a == Take(s, k)
           b == Rest(s, k)
<1>1. a \in Seq(Byte) /\ b \in Seq(Byte)
  BY TakeRest
<1>2. s = a \o b
  BY TakeThenRest
<1> HIDE DEF a, b
<1>3. a \o (b \o t) = s \o t
  BY <1>1, <1>2, ConcatAssociative
<1>4. b \o t \in Seq(Byte)
  BY <1>1, Joined
<1> QED
  BY <1>3, <1>4 DEF a, b

\* The rest of two sequences after a part of the first.
LEMMA RestOfJoined ==
  ASSUME NEW s \in Seq(Byte), NEW t \in Seq(Byte), NEW k \in 0 .. Len(s)
  PROVE  Rest(s \o t, k) = Rest(s, k) \o t
<1> DEFINE st == s \o t
           b == Rest(s, k)
           u == Rest(st, k)
<1>1. /\ st \in Seq(Byte) /\ Len(st) = Len(s) + Len(t)
      /\ Len(s) \in Nat /\ Len(t) \in Nat
      /\ \A j \in 1 .. Len(s) : st[j] = s[j]
      /\ \A j \in 1 .. Len(t) : st[Len(s) + j] = t[j]
  BY Joined
<1>2. /\ b \in Seq(Byte) /\ Len(b) = Len(s) - k
      /\ \A j \in 1 .. Len(s) - k : b[j] = s[k + j]
  BY TakeRest
<1> HIDE DEF st, b
<1>3. k \in 0 .. Len(st)
  BY <1>1
<1>4. /\ u \in Seq(Byte) /\ Len(u) = Len(st) - k
      /\ \A j \in 1 .. Len(st) - k : u[j] = st[k + j]
  BY <1>1, <1>3, TakeRest
<1> HIDE DEF u
<1>5. Len(u) = Len(b) + Len(t)
  BY <1>1, <1>2, <1>4
<1>6. ASSUME NEW j \in 1 .. Len(b) PROVE u[j] = b[j]
  <2>1. k + j \in 1 .. Len(s) /\ j \in 1 .. Len(s) - k /\ j \in 1 .. Len(st) - k
    BY <1>1, <1>2
  <2> QED
    BY <1>1, <1>2, <1>4, <2>1
<1>7. ASSUME NEW j \in 1 .. Len(t) PROVE u[Len(b) + j] = t[j]
  <2>1. Len(b) + j \in 1 .. Len(st) - k /\ k + (Len(b) + j) = Len(s) + j
    BY <1>1, <1>2
  <2>2. u[Len(b) + j] = st[k + (Len(b) + j)]
    BY <1>4, <2>1
  <2> QED
    BY <1>1, <2>1, <2>2
<1>8. u = b \o t
  BY <1>2, <1>4, <1>5, <1>6, <1>7, Pasted
<1> QED
  BY <1>8 DEF st, b, u

\* Nothing outstanding, no bytes; bytes, something outstanding.
LEMMA StreamEmpty ==
  ASSUME NEW P, NEW c \in Nat
  PROVE  Stream(<<>>, P, c, c)
<1> DEFINE end == [i \in c .. c |-> 0]
<1>1. Len(<<>>) = 0 /\ c .. c = {c}
  OBVIOUS
<1>2. end \in [c .. c -> 0 .. Len(<<>>)] /\ end[c] = 0
  BY <1>1
<1>3. c + 1 .. c = {}
  OBVIOUS
<1>4. \A i, j \in c .. c : i <= j => end[i] <= end[j]
  BY <1>1, <1>2
<1> HIDE DEF end
<1> QED
  BY <1>1, <1>2, <1>3, <1>4 DEF Stream

LEMMA StreamNotEmpty ==
  ASSUME NEW s \in Seq(Byte), NEW P, NEW c \in Nat, NEW n \in Nat, c <= n,
         Stream(s, P, c, n), Len(s) > 0
  PROVE  c < n
  BY DEF Stream

\* Only the outstanding pieces matter.
LEMMA StreamSame ==
  ASSUME NEW s, NEW P, NEW Q, NEW c \in Nat, NEW n \in Nat, Stream(s, P, c, n),
         \A i \in c + 1 .. n : Q[i] = P[i]
  PROVE  Stream(s, Q, c, n)
<1>1. PICK end \in [c .. n -> 0 .. Len(s)] :
        /\ end[c] = 0 /\ end[n] = Len(s)
        /\ \A i, j \in c .. n : i <= j => end[i] <= end[j]
        /\ \A i \in c + 1 .. n :
             /\ end[i] = end[i - 1] + Len(P[i])
             /\ \A j \in 1 .. Len(P[i]) : s[end[i - 1] + j] = P[i][j]
  BY DEF Stream
<1>2. ASSUME NEW i \in c + 1 .. n
      PROVE  /\ end[i] = end[i - 1] + Len(Q[i])
             /\ \A j \in 1 .. Len(Q[i]) : s[end[i - 1] + j] = Q[i][j]
  <2>1. Q[i] = P[i]
    BY <1>2
  <2>2. /\ end[i] = end[i - 1] + Len(P[i])
        /\ \A j \in 1 .. Len(P[i]) : s[end[i - 1] + j] = P[i][j]
    BY <1>1, <1>2
  <2> QED
    BY <2>1, <2>2
<1> QED
  BY <1>1, <1>2 DEF Stream

\* One more piece is sent.
LEMMA StreamSend ==
  ASSUME NEW s \in Seq(Byte), NEW P, NEW c \in Nat, NEW n \in Nat, c <= n,
         Stream(s, P, c, n), \A i \in c + 1 .. n + 1 : P[i] \in Seq(Byte)
  PROVE  Stream(s \o P[n + 1], P, c, n + 1)
<1> DEFINE f == P[n + 1]
           t == s \o f
<1>0. f \in Seq(Byte)
  OBVIOUS
<1>1. /\ t \in Seq(Byte) /\ Len(t) = Len(s) + Len(f)
      /\ Len(s) \in Nat /\ Len(f) \in Nat
      /\ \A j \in 1 .. Len(s) : t[j] = s[j]
      /\ \A j \in 1 .. Len(f) : t[Len(s) + j] = f[j]
  BY <1>0, Joined
<1> HIDE DEF t
<1>2. PICK end \in [c .. n -> 0 .. Len(s)] :
        /\ end[c] = 0 /\ end[n] = Len(s)
        /\ \A i, j \in c .. n : i <= j => end[i] <= end[j]
        /\ \A i \in c + 1 .. n :
             /\ end[i] = end[i - 1] + Len(P[i])
             /\ \A j \in 1 .. Len(P[i]) : s[end[i - 1] + j] = P[i][j]
  BY DEF Stream
<1> DEFINE new == [i \in c .. n + 1 |-> IF i = n + 1 THEN Len(t) ELSE end[i]]
<1>3. /\ \A i \in c .. n : new[i] = end[i] /\ end[i] \in 0 .. Len(s)
      /\ new[n + 1] = Len(t)
      /\ new \in [c .. n + 1 -> 0 .. Len(t)]
  <2>1. \A i \in c .. n : i \in c .. n + 1 /\ i # n + 1 /\ end[i] \in 0 .. Len(s)
    OBVIOUS
  <2>2. \A i \in c .. n : end[i] \in 0 .. Len(t)
    BY <1>1, <2>1
  <2>3. Len(t) \in 0 .. Len(t) /\ n + 1 \in c .. n + 1
    BY <1>1
  <2>4. \A i \in c .. n + 1 : i \in c .. n \/ i = n + 1
    OBVIOUS
  <2> QED
    BY <2>1, <2>2, <2>3, <2>4
<1> HIDE DEF new
<1>4. new[c] = 0
  BY <1>2, <1>3
<1>5. ASSUME NEW i \in c .. n + 1, NEW j \in c .. n + 1, i <= j PROVE new[i] <= new[j]
  <2>1. CASE j = n + 1
    <3>1. new[i] \in 0 .. Len(t)
      BY <1>3
    <3> QED
      BY <1>1, <1>3, <2>1, <3>1
  <2>2. CASE j # n + 1
    <3>1. i \in c .. n /\ j \in c .. n
      BY <1>5, <2>2
    <3> QED
      BY <1>2, <1>3, <1>5, <3>1
  <2> QED
    BY <2>1, <2>2
<1>6. ASSUME NEW i \in c + 1 .. n + 1
      PROVE  /\ new[i] = new[i - 1] + Len(P[i])
             /\ \A j \in 1 .. Len(P[i]) : t[new[i - 1] + j] = P[i][j]
  <2>1. CASE i = n + 1
    <3>1. n \in c .. n /\ i - 1 = n /\ new[i - 1] = Len(s)
      BY <1>2, <1>3, <2>1
    <3> QED
      BY <1>1, <1>3, <2>1, <3>1
  <2>2. CASE i # n + 1
    <3>1. i \in c + 1 .. n /\ i \in c .. n /\ i - 1 \in c .. n
      BY <2>2
    <3>2. new[i] = end[i] /\ new[i - 1] = end[i - 1] /\ end[i] \in 0 .. Len(s) /\ end[i - 1] \in 0 .. Len(s)
      BY <1>3, <3>1
    <3>3. /\ end[i] = end[i - 1] + Len(P[i])
          /\ \A j \in 1 .. Len(P[i]) : s[end[i - 1] + j] = P[i][j]
      BY <1>2, <3>1
    <3>4. ASSUME NEW j \in 1 .. Len(P[i]) PROVE t[new[i - 1] + j] = P[i][j]
      <4>1. end[i - 1] \in Nat /\ Len(P[i]) \in Nat /\ end[i - 1] + Len(P[i]) <= Len(s)
        BY <1>1, <3>2, <3>3
      <4>2. end[i - 1] + j \in 1 .. Len(s)
        BY <1>1, <4>1, Within
      <4> QED
        BY <1>1, <3>2, <3>3, <4>2
    <3> QED
      BY <3>2, <3>3, <3>4
  <2> QED
    BY <2>1, <2>2
<1>7. Stream(t, P, c, n + 1)
  BY <1>3, <1>4, <1>5, <1>6 DEF Stream
<1> QED
  BY <1>7 DEF t

\* The first outstanding piece is received.
LEMMA StreamReceive ==
  ASSUME NEW s \in Seq(Byte), NEW P, NEW c \in Nat, NEW n \in Nat, c < n,
         Stream(s, P, c, n), \A i \in c + 1 .. n : P[i] \in Seq(Byte)
  PROVE  /\ Len(P[c + 1]) \in 0 .. Len(s)
         /\ \A j \in 1 .. Len(P[c + 1]) : s[j] = P[c + 1][j]
         /\ Stream(Rest(s, Len(P[c + 1])), P, c + 1, n)
<1> DEFINE k == Len(P[c + 1])
           t == Rest(s, k)
<1>1. PICK end \in [c .. n -> 0 .. Len(s)] :
        /\ end[c] = 0 /\ end[n] = Len(s)
        /\ \A i, j \in c .. n : i <= j => end[i] <= end[j]
        /\ \A i \in c + 1 .. n :
             /\ end[i] = end[i - 1] + Len(P[i])
             /\ \A j \in 1 .. Len(P[i]) : s[end[i - 1] + j] = P[i][j]
  BY DEF Stream
<1>2. c + 1 \in c + 1 .. n /\ c + 1 - 1 = c /\ c + 1 \in c .. n
  OBVIOUS
<1>3. k \in Nat /\ Len(s) \in Nat
  BY <1>2
<1>4. end[c + 1] = k /\ k \in 0 .. Len(s)
  BY <1>1, <1>2, <1>3
<1>5. \A j \in 1 .. k : s[j] = P[c + 1][j]
  <2>1. \A j \in 1 .. k : s[end[c] + j] = P[c + 1][j]
    BY <1>1, <1>2
  <2> QED
    BY <1>1, <1>3, <2>1
<1>6. t \in Seq(Byte) /\ Len(t) = Len(s) - k /\ \A j \in 1 .. Len(s) - k : t[j] = s[k + j]
  BY <1>4, TakeRest
<1> HIDE DEF t, k
<1> DEFINE new == [i \in c + 1 .. n |-> end[i] - k]
<1>7. ASSUME NEW i \in c + 1 .. n
      PROVE  i \in c .. n /\ end[i] \in k .. Len(s) /\ new[i] = end[i] - k /\ new[i] \in 0 .. Len(t)
  <2>1. i \in c .. n /\ c + 1 <= i
    OBVIOUS
  <2>2. end[i] \in 0 .. Len(s) /\ end[c + 1] <= end[i]
    BY <1>1, <1>2, <2>1
  <2> QED
    BY <1>3, <1>4, <1>6, <2>1, <2>2
<1>8. new \in [c + 1 .. n -> 0 .. Len(t)]
  BY <1>7
<1> HIDE DEF new
<1>9. new[c + 1] = 0 /\ new[n] = Len(t)
  <2>1. n \in c + 1 .. n
    OBVIOUS
  <2>2. new[c + 1] = end[c + 1] - k /\ new[n] = end[n] - k
    BY <1>2, <1>7, <2>1
  <2>3. new[c + 1] = k - k /\ new[n] = Len(s) - k
    BY <1>1, <1>4, <2>2
  <2> QED
    BY <1>3, <1>6, <2>3
<1>10. ASSUME NEW i \in c + 1 .. n, NEW j \in c + 1 .. n, i <= j PROVE new[i] <= new[j]
  <2>1. end[i] <= end[j]
    BY <1>1, <1>7, <1>10
  <2> QED
    BY <1>3, <1>7, <2>1
<1>11. ASSUME NEW i \in c + 1 + 1 .. n
       PROVE  /\ new[i] = new[i - 1] + Len(P[i])
              /\ \A j \in 1 .. Len(P[i]) : t[new[i - 1] + j] = P[i][j]
  <2>1. i \in c + 1 .. n /\ i - 1 \in c + 1 .. n /\ P[i] \in Seq(Byte)
    OBVIOUS
  <2>2. /\ end[i] = end[i - 1] + Len(P[i])
        /\ \A j \in 1 .. Len(P[i]) : s[end[i - 1] + j] = P[i][j]
    BY <1>1, <2>1
  <2>3. /\ new[i] = end[i] - k /\ end[i] \in k .. Len(s)
        /\ new[i - 1] = end[i - 1] - k /\ end[i - 1] \in k .. Len(s) /\ Len(P[i]) \in Nat
    BY <1>7, <2>1
  <2>6. /\ end[i] - k = (end[i - 1] - k) + Len(P[i])
        /\ \A j \in 1 .. Len(P[i]) : /\ (end[i - 1] - k) + j \in 1 .. Len(s) - k
                                    /\ k + ((end[i - 1] - k) + j) = end[i - 1] + j
    <3>1. end[i] \in Nat /\ end[i - 1] \in Nat /\ k <= end[i - 1] /\ end[i] <= Len(s)
      BY <1>3, <2>3
    <3>2. end[i] = end[i - 1] + Len(P[i]) /\ k \in Nat /\ Len(s) \in Nat /\ Len(P[i]) \in Nat
      BY <1>3, <2>2, <2>3
    <3> DEFINE a == end[i - 1]
               b == end[i]
               l == Len(P[i])
               m == Len(s)
    <3>3. a \in Nat /\ b \in Nat /\ l \in Nat /\ k \in Nat /\ m \in Nat /\ b = a + l /\ k <= a /\ b <= m
      BY <3>1, <3>2
    <3> HIDE DEF a, b, l, m
    <3>4. /\ b - k = (a - k) + l
          /\ \A j \in 1 .. l : /\ (a - k) + j \in 1 .. m - k
                             /\ k + ((a - k) + j) = a + j
      BY <3>3, Shifted
    <3> QED
      BY <3>4 DEF a, b, l, m
  <2>4. ASSUME NEW j \in 1 .. Len(P[i]) PROVE t[new[i - 1] + j] = P[i][j]
    <3>1. new[i - 1] + j \in 1 .. Len(s) - k /\ k + (new[i - 1] + j) = end[i - 1] + j
      BY <2>3, <2>6
    <3>2. t[new[i - 1] + j] = s[k + (new[i - 1] + j)]
      BY <1>6, <3>1
    <3> QED
      BY <2>2, <3>1, <3>2
  <2>5. new[i] = new[i - 1] + Len(P[i])
    BY <2>3, <2>6
  <2> QED
    BY <2>4, <2>5
<1>12. Stream(t, P, c + 1, n)
  BY <1>8, <1>9, <1>10, <1>11 DEF Stream
<1> QED
  BY <1>4, <1>5, <1>12 DEF t, k

-----------------------------------------------------------------------------
(***************************************************************************)
(* The invariant.                                                          *)
(***************************************************************************)

\* Head and body as a node sends them; a request's body fits as it is.
HeadOf(m) == Field(m.id) \o Field(Short(Len(m.body)))
BodyOf(m) == Take(m.body, Short(Len(m.body)))
Frames(ms) == [i \in 1 .. Len(ms) |-> HeadOf(ms[i]) \o BodyOf(ms[i])]

\* Messages whose fields both ends read alike.
Sendable == {m \in Messages : m.id < Half /\ Short(Len(m.body)) \in 0 .. Half - 1}

Types ==
  /\ up \in Seq(Byte) /\ down \in Seq(Byte)
  /\ session \in [open: BOOLEAN, at: {"head", "body"}, got: Seq(Byte),
                  id: 0 .. MAX_LENGTH, len: 0 .. Width \div 2 - 1]
  /\ tcp \in [connected: BOOLEAN, buffer: Seq(Byte), pending: BOOLEAN, id: 0 .. Width - 1,
              len: 0 .. Width - 1, loop: BOOLEAN]
  /\ sends \in 0 .. MaxSends /\ conns \in 0 .. MaxConns /\ stale \in BOOLEAN
  /\ asked \in Seq(Requests) /\ posted \in Seq(Messages)
  /\ replied \in Seq(Sendable) /\ handled \in Seq(Messages)

\* What has been read fits what is being read, and no bytes outlive the
\* connection.
BufferInv ==
  /\ session.at = "head" => session.len = HEAD_TOTAL_LEN
  /\ session.at = "body" => session.len <= MAX_LENGTH
  /\ Len(session.got) <= session.len
  /\ ~tcp.loop => Len(tcp.buffer) < IF tcp.pending THEN tcp.len ELSE HEAD_TOTAL_LEN
  /\ session.open => tcp.connected
  /\ ~tcp.connected => up = <<>> /\ down = <<>>

\* The head of the next message has been read from the stream s of ms: its
\* fields are known, and s with the head is the rest of the stream.
HeadTaken(s, ms, c, id, len) ==
  /\ c < Len(ms) /\ id = ms[c + 1].id /\ len = Len(BodyOf(ms[c + 1]))
  /\ Stream(HeadOf(ms[c + 1]) \o s, Frames(ms), c, Len(ms))

Incoming == session.got \o up

\* The server has posted a beginning of what was asked, and what it has and
\* will read is the rest.
ServerInv ==
  /\ Len(posted) <= Len(asked) /\ \A i \in 1 .. Len(posted) : posted[i] = asked[i]
  /\ session.open /\ session.at = "head" =>
       Stream(Incoming, Frames(asked), Len(posted), Len(asked))
  /\ session.open /\ session.at = "body" =>
       HeadTaken(Incoming, asked, Len(posted), session.id, session.len)

\* The client has handled a beginning of the replies; what is in its buffer and
\* t, the bytes that will follow or are lost, is the rest.
Awaits(t) ==
  /\ tcp.connected => t = down
  /\ ~tcp.pending => Stream(tcp.buffer \o t, Frames(replied), Len(handled), Len(replied))
  /\ tcp.pending => HeadTaken(tcp.buffer \o t, replied, Len(handled), tcp.id, tcp.len)

ClientInv ==
  ~stale =>
    /\ Len(handled) <= Len(replied)
    /\ \A i \in 1 .. Len(handled) :
         handled[i] = [id |-> replied[i].id, body |-> BodyOf(replied[i])]
    /\ \E t \in Seq(Byte) : Awaits(t)

FramingInv == Types /\ BufferInv /\ ServerInv /\ ClientInv

-----------------------------------------------------------------------------
(***************************************************************************)
(* Frames.                                                                 *)
(***************************************************************************)

\* The fields at the beginning of a sequence that starts with a head.
LEMMA FieldsOfHead ==
  ASSUME NEW m \in Sendable
  PROVE  /\ HeadOf(m) \in Seq(Byte) /\ Len(HeadOf(m)) = 4
         /\ FieldAt(HeadOf(m), 1) = m.id /\ FieldAt(HeadOf(m), 3) = Short(Len(m.body))
<1> DEFINE x == Field(m.id)
           v == Short(Len(m.body))
           y == Field(v)
           h == x \o y
<1>1. m.id \in 0 .. Width - 1 /\ v \in 0 .. Width - 1
  <2>1. m.id \in 0 .. Width - 1 /\ v \in 0 .. Half - 1
    BY DEF Sendable, Messages
  <2> QED
    BY <2>1, Widths
<1>2. x \in Seq(Byte) /\ Len(x) = 2 /\ x[1] * Base + x[2] = m.id
  BY <1>1, FieldRoundTrip
<1> HIDE DEF v
<1>3. y \in Seq(Byte) /\ Len(y) = 2 /\ y[1] * Base + y[2] = v
  BY <1>1, FieldRoundTrip
<1> HIDE DEF x, y
<1>4. /\ h \in Seq(Byte) /\ Len(h) = 4
      /\ \A j \in 1 .. 2 : h[j] = x[j]
      /\ \A j \in 1 .. 2 : h[2 + j] = y[j]
  <2>1. /\ h \in Seq(Byte) /\ Len(h) = Len(x) + Len(y)
        /\ \A j \in 1 .. Len(x) : h[j] = x[j]
        /\ \A j \in 1 .. Len(y) : h[Len(x) + j] = y[j]
    BY <1>2, <1>3, Joined
  <2> HIDE DEF h
  <2> QED
    BY <1>2, <1>3, <2>1
<1>5. h[1] = x[1] /\ h[2] = x[2] /\ h[3] = y[1] /\ h[4] = y[2]
  <2> HIDE DEF h
  <2>1. 1 \in 1 .. 2 /\ 2 \in 1 .. 2 /\ 2 + 1 = 3 /\ 2 + 2 = 4
    OBVIOUS
  <2> QED
    BY <1>4, <2>1
<1> HIDE DEF h
<1>6. FieldAt(h, 1) = m.id /\ FieldAt(h, 3) = v
  BY <1>2, <1>3, <1>5 DEF FieldAt
<1> QED
  BY <1>4, <1>6 DEF HeadOf, h, x, y, v

LEMMA BodyLength ==
  ASSUME NEW m \in Sendable
  PROVE  /\ BodyOf(m) \in Seq(Byte) /\ Len(BodyOf(m)) = Short(Len(m.body))
         /\ Len(BodyOf(m)) \in 0 .. Half - 1
         /\ m.body \in Seq(Byte) /\ Len(BodyOf(m)) \in 0 .. Len(m.body)
         /\ Len(m.body) < Width => BodyOf(m) = m.body
<1>1. m.body \in Seq(Byte) /\ Short(Len(m.body)) \in 0 .. Half - 1 /\ Len(m.body) \in Nat
  BY DEF Sendable, Messages
<1>2. Short(Len(m.body)) \in 0 .. Len(m.body)
  BY <1>1, ShortFits
<1>3. BodyOf(m) \in Seq(Byte) /\ Len(BodyOf(m)) = Short(Len(m.body))
  BY <1>1, <1>2, TakeRest DEF BodyOf
<1>4. ASSUME Len(m.body) < Width PROVE BodyOf(m) = m.body
  <2>1. Short(Len(m.body)) = Len(m.body)
    BY <1>1, <1>4, ShortFits
  <2> QED
    BY <1>1, <2>1 DEF BodyOf, Take
<1> QED
  BY <1>1, <1>2, <1>3, <1>4

\* slot_send_data sends the head and the whole body.
LEMMA RequestFits ==
  ASSUME NEW m \in Requests
  PROVE  /\ m \in Sendable /\ m \in Messages
         /\ BodyOf(m) = m.body /\ m = [id |-> m.id, body |-> m.body]
         /\ ClientFrame(m) = HeadOf(m) \o BodyOf(m)
<1>1. m \in [id: 0 .. Half - 1, body: Seq(Byte)] /\ Len(m.body) < Half
  BY FramingAssumption DEF Half
<1>2. m.id \in 0 .. Half - 1 /\ m.body \in Seq(Byte) /\ m = [id |-> m.id, body |-> m.body] /\ Len(m.body) \in Nat
  BY <1>1
<1>3. Short(Len(m.body)) = Len(m.body)
  BY <1>1, <1>2, ShortFits
<1>4. m.id \in 0 .. Width - 1 /\ m.id < Half /\ Short(Len(m.body)) \in 0 .. Half - 1 /\ Len(m.body) < Width
  BY <1>1, <1>2, <1>3, Widths
<1>5. m \in Messages
  BY <1>2, <1>4 DEF Messages
<1>6. m \in Sendable
  BY <1>4, <1>5 DEF Sendable
<1>7. BodyOf(m) = m.body
  BY <1>4, <1>6, BodyLength
<1>8. ClientFrame(m) = HeadOf(m) \o BodyOf(m)
  BY <1>3, <1>7 DEF ClientFrame, HeadOf
<1> QED
  BY <1>2, <1>5, <1>6, <1>7, <1>8

\* A node that can be allocated sends the head and as much as its length says.
LEMMA ReplyFits ==
  ASSUME NEW m \in Replies, ~NodeThrows(m)
  PROVE  Plain(m) \in Sendable /\ SendNode(m) = HeadOf(Plain(m)) \o BodyOf(Plain(m))
<1>1. m.id \in 0 .. Half - 1 /\ m.body \in Seq(Byte)
  BY FramingAssumption DEF Half
<1>2. Plain(m).id = m.id /\ Plain(m).body = m.body
  BY DEF Plain
<1>3. Short(Len(m.body)) \in 0 .. Half - 1
  BY SendableLength
<1>4. m.id \in 0 .. Width - 1 /\ m.id < Half
  BY <1>1, Widths
<1>5. Plain(m) \in Messages
  BY <1>1, <1>4 DEF Messages, Plain
<1>6. Plain(m) \in Sendable
  BY <1>2, <1>3, <1>4, <1>5 DEF Sendable
<1> QED
  BY <1>2, <1>6 DEF SendNode, HeadOf, BodyOf

LEMMA FramesAt ==
  ASSUME NEW ms \in Seq(Sendable), NEW i \in 1 .. Len(ms)
  PROVE  /\ ms[i] \in Sendable /\ Frames(ms)[i] = HeadOf(ms[i]) \o BodyOf(ms[i])
         /\ Frames(ms)[i] \in Seq(Byte)
<1>1. ms[i] \in Sendable
  OBVIOUS
<1>2. HeadOf(ms[i]) \in Seq(Byte) /\ BodyOf(ms[i]) \in Seq(Byte)
  BY <1>1, FieldsOfHead, BodyLength
<1>3. Frames(ms)[i] = HeadOf(ms[i]) \o BodyOf(ms[i])
  BY DEF Frames
<1> QED
  BY <1>1, <1>2, <1>3

\* The first outstanding frame is at the beginning of the stream.
LEMMA FrameReceived ==
  ASSUME NEW ms \in Seq(Sendable), NEW c \in Nat, c < Len(ms), NEW s \in Seq(Byte),
         Stream(s, Frames(ms), c, Len(ms))
  PROVE  /\ \A j \in 1 .. Len(Frames(ms)[c + 1]) : s[j] = Frames(ms)[c + 1][j]
         /\ Stream(Rest(s, Len(Frames(ms)[c + 1])), Frames(ms), c + 1, Len(ms))
<1> DEFINE P == Frames(ms)
           n == Len(ms)
<1>1. n \in Nat /\ c < n /\ Stream(s, P, c, n)
  OBVIOUS
<1>2. \A i \in c + 1 .. n : P[i] \in Seq(Byte)
  BY FramesAt
<1> HIDE DEF P, n
<1>3. /\ \A j \in 1 .. Len(P[c + 1]) : s[j] = P[c + 1][j]
      /\ Stream(Rest(s, Len(P[c + 1])), P, c + 1, n)
  BY <1>1, <1>2, StreamReceive
<1> QED
  BY <1>3 DEF P, n

\* A frame is sent after the outstanding ones.
LEMMA FrameSent ==
  ASSUME NEW ms \in Seq(Sendable), NEW m \in Sendable, NEW s \in Seq(Byte),
         NEW c \in 0 .. Len(ms), Stream(s, Frames(ms), c, Len(ms))
  PROVE  Stream(s \o (HeadOf(m) \o BodyOf(m)), Frames(Append(ms, m)), c, Len(ms) + 1)
<1> DEFINE new == Append(ms, m)
           n == Len(ms)
           P == Frames(ms)
           Q == Frames(new)
<1>1. /\ new \in Seq(Sendable) /\ Len(new) = n + 1 /\ n \in Nat /\ c \in Nat /\ c <= n
      /\ new[n + 1] = m /\ \A i \in 1 .. n : new[i] = ms[i]
  OBVIOUS
<1> HIDE DEF new
<1>2. ASSUME NEW i \in c + 1 .. n + 1 PROVE Q[i] \in Seq(Byte)
  BY <1>1, FramesAt
<1>3. ASSUME NEW i \in c + 1 .. n PROVE Q[i] = P[i]
  <2>1. i \in 1 .. n /\ i \in 1 .. Len(new)
    BY <1>1
  <2>2. new[i] = ms[i]
    BY <1>1, <2>1
  <2> QED
    BY <1>1, <2>1, <2>2, FramesAt
<1>4. n + 1 \in 1 .. Len(new)
  BY <1>1
<1>5. Q[n + 1] = HeadOf(m) \o BodyOf(m)
  BY <1>1, <1>4, FramesAt
<1> HIDE DEF P, Q, n
<1>6. Stream(s, P, c, n)
  BY DEF P, n
<1>7. Stream(s, Q, c, n)
  BY <1>1, <1>3, <1>6, StreamSame
<1>8. Stream(s \o Q[n + 1], Q, c, n + 1)
  BY <1>1, <1>2, <1>7, StreamSend
<1> QED
  BY <1>5, <1>8 DEF n, Q, new

\* The same while a body is being read.
LEMMA FrameSentLater ==
  ASSUME NEW ms \in Seq(Sendable), NEW m \in Sendable, NEW s \in Seq(Byte),
         NEW c \in Nat, NEW id, NEW len, HeadTaken(s, ms, c, id, len)
  PROVE  HeadTaken(s \o (HeadOf(m) \o BodyOf(m)), Append(ms, m), c, id, len)
<1> DEFINE new == Append(ms, m)
           f == HeadOf(m) \o BodyOf(m)
           h == HeadOf(ms[c + 1])
<1>1. c < Len(ms) /\ c + 1 \in 1 .. Len(ms) /\ c \in 0 .. Len(ms) /\ Len(ms) \in Nat
  BY DEF HeadTaken
<1>2. Len(new) = Len(ms) + 1 /\ new[c + 1] = ms[c + 1] /\ ms[c + 1] \in Sendable
  BY <1>1
<1>3. h \in Seq(Byte) /\ f \in Seq(Byte)
  BY <1>2, FieldsOfHead, BodyLength
<1>4. Stream(h \o s, Frames(ms), c, Len(ms)) /\ h \o s \in Seq(Byte)
  BY <1>3, Joined DEF HeadTaken
<1>5. Stream((h \o s) \o f, Frames(new), c, Len(ms) + 1)
  BY <1>1, <1>4, FrameSent
<1>6. (h \o s) \o f = h \o (s \o f)
  <2> HIDE DEF h, f
  <2> QED
    BY <1>3, ConcatAssociative
<1>7. c < Len(ms) /\ id = ms[c + 1].id /\ len = Len(BodyOf(ms[c + 1]))
  BY DEF HeadTaken
<1> HIDE DEF new, f, h
<1>8. Stream(h \o (s \o f), Frames(new), c, Len(new)) /\ c < Len(new)
  BY <1>1, <1>2, <1>5, <1>6
<1>9. Stream(HeadOf(new[c + 1]) \o (s \o f), Frames(new), c, Len(new))
  BY <1>2, <1>8 DEF h
<1>10. HeadTaken(s \o f, new, c, id, len)
  BY <1>2, <1>7, <1>8, <1>9 DEF HeadTaken
<1> QED
  BY <1>10 DEF f, new

\* The first four bytes are the head of the first outstanding frame.
LEMMA HeadArrives ==
  ASSUME NEW ms \in Seq(Sendable), NEW c \in 0 .. Len(ms), NEW g \in Seq(Byte), NEW u \in Seq(Byte),
         Stream(g \o u, Frames(ms), c, Len(ms)), Len(g) = HEAD_TOTAL_LEN
  PROVE  HeadTaken(u, ms, c, FieldAt(g, 1), FieldAt(g, 3))
<1> DEFINE P == Frames(ms)
           n == Len(ms)
           s == g \o u
           h == HeadOf(ms[c + 1])
           b == BodyOf(ms[c + 1])
<1>0. s = g \o u
  OBVIOUS
<1>3. Stream(s, P, c, n)
  OBVIOUS
<1> HIDE DEF s
<1>1. /\ s \in Seq(Byte) /\ Len(s) = 4 + Len(u) /\ Len(u) \in Nat
      /\ \A j \in 1 .. 4 : s[j] = g[j]
  <2>1. /\ s \in Seq(Byte) /\ Len(s) = Len(g) + Len(u) /\ Len(g) \in Nat /\ Len(u) \in Nat
        /\ \A j \in 1 .. Len(g) : s[j] = g[j]
        /\ \A j \in 1 .. Len(u) : s[Len(g) + j] = u[j]
    BY <1>0, JoinedAt
  <2> QED
    BY <1>0, <2>1 DEF HEAD_TOTAL_LEN
<1>2. n \in Nat /\ c \in Nat /\ c <= n
  OBVIOUS
<1>5. c < n
  <2> HIDE DEF P, n
  <2>1. Len(s) > 0
    BY <1>1
  <2> QED
    BY <1>1, <1>2, <1>3, <2>1, StreamNotEmpty
<1>6. c + 1 \in 1 .. n
  BY <1>2, <1>5
<1>7. ms[c + 1] \in Sendable /\ P[c + 1] = h \o b
  BY <1>6, FramesAt
<1>8. /\ h \in Seq(Byte) /\ Len(h) = 4 /\ FieldAt(h, 1) = ms[c + 1].id
      /\ FieldAt(h, 3) = Short(Len(ms[c + 1].body))
      /\ b \in Seq(Byte) /\ Len(b) = Short(Len(ms[c + 1].body))
  BY <1>7, FieldsOfHead, BodyLength
<1> HIDE DEF h, b
<1>18. h \in Seq(Byte) /\ b \in Seq(Byte)
  BY <1>8
<1>9. /\ Len(P[c + 1]) = 4 + Len(b) /\ Len(b) \in Nat
      /\ \A j \in 1 .. 4 : P[c + 1][j] = h[j]
  <2> HIDE DEF P
  <2>1. /\ P[c + 1] \in Seq(Byte) /\ Len(P[c + 1]) = Len(h) + Len(b) /\ Len(h) \in Nat /\ Len(b) \in Nat
        /\ \A j \in 1 .. Len(h) : P[c + 1][j] = h[j]
        /\ \A j \in 1 .. Len(b) : P[c + 1][Len(h) + j] = b[j]
    BY <1>7, <1>18, JoinedAt
  <2> QED
    BY <1>7, <1>8, <2>1
<1>10. /\ \A j \in 1 .. Len(P[c + 1]) : s[j] = P[c + 1][j]
       /\ Stream(Rest(s, Len(P[c + 1])), P, c + 1, n)
  <2>1. s \in Seq(Byte) /\ c \in Nat /\ c < Len(ms)
    BY <1>1, <1>2, <1>5
  <2> QED
    BY <1>3, <2>1, FrameReceived
<1>11. g = h
  <2>1. ASSUME NEW j \in 1 .. 4 PROVE g[j] = h[j]
    <3>1. j \in 1 .. Len(P[c + 1])
      BY <1>9
    <3> QED
      BY <1>1, <1>9, <1>10, <3>1
  <2> QED
    BY <1>8, <2>1, SeqEqual DEF HEAD_TOTAL_LEN
<1>12. Stream(h \o u, P, c, n)
  BY <1>0, <1>3, <1>11
<1> QED
  BY <1>5, <1>8, <1>11, <1>12 DEF HeadTaken, h, b

\* As many bytes as the head has told are the body.
LEMMA BodyArrives ==
  ASSUME NEW ms \in Seq(Sendable), NEW c \in Nat, NEW id, NEW g \in Seq(Byte), NEW u \in Seq(Byte),
         HeadTaken(g \o u, ms, c, id, Len(g))
  PROVE  /\ c + 1 \in 1 .. Len(ms) /\ id = ms[c + 1].id /\ g = BodyOf(ms[c + 1])
         /\ Stream(u, Frames(ms), c + 1, Len(ms))
<1> DEFINE P == Frames(ms)
           n == Len(ms)
           h == HeadOf(ms[c + 1])
           b == BodyOf(ms[c + 1])
           s == h \o (g \o u)
           f == h \o b
<1>1. n \in Nat /\ c < n /\ id = ms[c + 1].id /\ Len(g) = Len(b) /\ Stream(s, P, c, n)
  BY DEF HeadTaken
<1>2. c + 1 \in 1 .. n
  BY <1>1
<1>3. ms[c + 1] \in Sendable /\ P[c + 1] = f
  BY <1>2, FramesAt
<1>4. /\ h \in Seq(Byte) /\ Len(h) = 4 /\ b \in Seq(Byte)
  BY <1>3, FieldsOfHead, BodyLength
<1>18. h \in Seq(Byte) /\ b \in Seq(Byte)
  BY <1>4
<1> HIDE DEF h, b
<1>6. s = (h \o g) \o u /\ g \o u \in Seq(Byte)
  <2>1. (h \o g) \o u = h \o (g \o u)
    <3> HIDE DEF s
    <3> QED
      BY <1>18, ConcatAssociative
  <2>2. g \o u \in Seq(Byte)
    BY Joined
  <2> QED
    BY <2>1, <2>2
<1> DEFINE hg == h \o g
<1>17. s = hg \o u /\ s = h \o (g \o u)
  BY <1>6
<1>19. hg = h \o g
  OBVIOUS
<1>20. f = h \o b
  OBVIOUS
<1> HIDE DEF hg, f, s
<1>7. /\ hg \in Seq(Byte) /\ Len(hg) = 4 + Len(g) /\ Len(g) \in Nat
      /\ \A j \in 1 .. Len(g) : hg[4 + j] = g[j]
  <2>1. /\ hg \in Seq(Byte) /\ Len(hg) = Len(h) + Len(g) /\ Len(h) \in Nat /\ Len(g) \in Nat
        /\ \A j \in 1 .. Len(h) : hg[j] = h[j]
        /\ \A j \in 1 .. Len(g) : hg[Len(h) + j] = g[j]
    BY <1>18, <1>19, JoinedAt
  <2> QED
    BY <1>4, <1>17, <2>1
<1>8. s \in Seq(Byte)
  BY <1>4, <1>6, <1>17, Joined
<1>9. f \in Seq(Byte) /\ Len(f) = 4 + Len(b) /\ \A j \in 1 .. Len(b) : f[4 + j] = b[j]
  <2>1. /\ f \in Seq(Byte) /\ Len(f) = Len(h) + Len(b) /\ Len(h) \in Nat /\ Len(b) \in Nat
        /\ \A j \in 1 .. Len(h) : f[j] = h[j]
        /\ \A j \in 1 .. Len(b) : f[Len(h) + j] = b[j]
    BY <1>18, <1>20, JoinedAt
  <2> QED
    BY <1>4, <1>17, <2>1
<1>10. /\ \A j \in 1 .. Len(P[c + 1]) : s[j] = P[c + 1][j]
       /\ Stream(Rest(s, Len(P[c + 1])), P, c + 1, n)
  BY <1>1, <1>8, FrameReceived
<1> HIDE DEF P, n
<1>11. s = hg \o u
  BY <1>17
<1>12. \A j \in 1 .. Len(hg) : s[j] = hg[j]
  BY <1>7, <1>11, Joined
<1>13. g = b
  <2>1. ASSUME NEW j \in 1 .. Len(g) PROVE g[j] = b[j]
    <3>1. 4 + j \in 1 .. Len(hg) /\ 4 + j \in 1 .. Len(f) /\ j \in 1 .. Len(b)
      BY <1>1, <1>7, <1>9
    <3>2. s[4 + j] = g[j]
      BY <1>7, <1>12, <3>1
    <3>3. s[4 + j] = b[j]
      BY <1>3, <1>9, <1>10, <3>1
    <3> QED
      BY <3>2, <3>3
  <2> QED
    BY <1>1, <1>4, <2>1, SeqEqual
<1>14. Rest(s, Len(hg)) = u
  <2>1. Len(hg) \in 0 .. Len(hg) /\ Rest(hg, Len(hg)) = <<>>
    BY <1>7 DEF Rest
  <2>2. Rest(hg \o u, Len(hg)) = Rest(hg, Len(hg)) \o u
    BY <1>7, <2>1, RestOfJoined
  <2>3. <<>> \o u = u
    BY ConcatEmptySeq
  <2> QED
    BY <1>11, <2>1, <2>2, <2>3
<1>15. Len(P[c + 1]) = Len(hg)
  BY <1>1, <1>3, <1>7, <1>9
<1>16. Stream(u, P, c + 1, n)
  BY <1>10, <1>14, <1>15
<1> QED
  BY <1>1, <1>2, <1>13, <1>16 DEF P, n, b

-----------------------------------------------------------------------------
(***************************************************************************)
(* The steps.                                                              *)
(***************************************************************************)
LEMMA SessionFields ==
  ASSUME Types
  PROVE  /\ session.open \in BOOLEAN /\ session.at \in {"head", "body"}
         /\ session.got \in Seq(Byte) /\ session.id \in 0 .. MAX_LENGTH
         /\ session.len \in 0 .. Half - 1
  BY DEF Types, Half

LEMMA TcpFields ==
  ASSUME Types
  PROVE  /\ tcp.connected \in BOOLEAN /\ tcp.buffer \in Seq(Byte) /\ tcp.pending \in BOOLEAN
         /\ tcp.id \in 0 .. Width - 1 /\ tcp.len \in 0 .. Width - 1 /\ tcp.loop \in BOOLEAN
  BY DEF Types

LEMMA AskedFits ==
  ASSUME Types
  PROVE  asked \in Seq(Sendable) /\ asked \in Seq(Messages) /\ Len(asked) \in Nat
<1>1. Requests \subseteq Sendable /\ Requests \subseteq Messages
  BY RequestFits
<1>2. asked \in Seq(Requests)
  BY DEF Types
<1> QED
  BY <1>1, <1>2

\* A step of the other direction.
LEMMA ServerSame ==
  ASSUME ServerInv, UNCHANGED <<session, up, asked, posted>>
  PROVE  ServerInv'
  BY DEF ServerInv, HeadTaken, Incoming

LEMMA ClientSame ==
  ASSUME ClientInv, UNCHANGED <<tcp, down, replied, handled, stale>>
  PROVE  ClientInv'
  BY DEF ClientInv, Awaits, HeadTaken

LEMMA InvInit ==
  ASSUME FramingInit
  PROVE  FramingInv
<1>1. Types
  <2>1. session = [open |-> FALSE, at |-> "head", got |-> <<>>, id |-> 0, len |-> 4]
    BY DEF FramingInit, Start, HEAD_TOTAL_LEN
  <2>2. 0 \in 0 .. MAX_LENGTH /\ 4 \in 0 .. Width \div 2 - 1 /\ 0 \in 0 .. Width - 1
        /\ 0 \in 0 .. MaxSends /\ 0 \in 0 .. MaxConns
    BY Widths DEF Half
  <2>3. session \in [open: BOOLEAN, at: {"head", "body"}, got: Seq(Byte),
                     id: 0 .. MAX_LENGTH, len: 0 .. Width \div 2 - 1]
    BY <2>1, <2>2
  <2>4. tcp \in [connected: BOOLEAN, buffer: Seq(Byte), pending: BOOLEAN, id: 0 .. Width - 1,
                 len: 0 .. Width - 1, loop: BOOLEAN]
    BY <2>2 DEF FramingInit
  <2>5. /\ up \in Seq(Byte) /\ down \in Seq(Byte) /\ stale \in BOOLEAN
        /\ asked \in Seq(Requests) /\ posted \in Seq(Messages)
        /\ replied \in Seq(Sendable) /\ handled \in Seq(Messages)
    <3>1. /\ up = <<>> /\ down = <<>> /\ stale = FALSE
          /\ asked = <<>> /\ posted = <<>> /\ replied = <<>> /\ handled = <<>>
      BY DEF FramingInit
    <3>2. <<>> \in Seq(Byte) /\ <<>> \in Seq(Requests) /\ <<>> \in Seq(Messages) /\ <<>> \in Seq(Sendable)
      OBVIOUS
    <3> QED
      BY <3>1, <3>2
  <2>6. sends \in 0 .. MaxSends /\ conns \in 0 .. MaxConns
    BY <2>2 DEF FramingInit
  <2> QED
    BY <2>3, <2>4, <2>5, <2>6 DEF Types
<1>2. BufferInv
  BY DEF FramingInit, BufferInv, Start, HEAD_TOTAL_LEN
<1>3. ServerInv
  BY DEF FramingInit, ServerInv, Start
<1>4. ClientInv
  <2>1. <<>> \o <<>> = <<>> /\ <<>> \in Seq(Byte) /\ Len(<<>>) = 0
    OBVIOUS
  <2>2. Stream(<<>>, Frames(<<>>), 0, 0)
    BY StreamEmpty
  <2>3. Awaits(<<>>)
    BY <2>1, <2>2 DEF Awaits, FramingInit
  <2>4. \E t \in Seq(Byte) : Awaits(t)
    BY <2>1, <2>3
  <2>5. handled = <<>> /\ replied = <<>>
    BY DEF FramingInit
  <2> QED
    BY <2>1, <2>4, <2>5 DEF ClientInv
<1> QED
  BY <1>1, <1>2, <1>3, <1>4 DEF FramingInv

LEMMA StepConnect ==
  ASSUME FramingInv, Connect
  PROVE  FramingInv'
<1>1. Types /\ BufferInv /\ up = <<>> /\ down = <<>>
  BY DEF FramingInv, BufferInv, Connect
<1>2. /\ session' = [open |-> TRUE, at |-> "head", got |-> <<>>, id |-> 0, len |-> 4]
      /\ tcp' = [tcp EXCEPT !.connected = TRUE]
      /\ stale' = (tcp.pending \/ tcp.buffer # <<>>)
      /\ asked' = <<>> /\ posted' = <<>> /\ replied' = <<>> /\ handled' = <<>>
      /\ up' = <<>> /\ down' = <<>> /\ sends' = sends /\ conns' = conns + 1 /\ conns < MaxConns
  BY <1>1 DEF Connect, Start, HEAD_TOTAL_LEN, streams
<1>3. /\ tcp'.connected = TRUE /\ tcp'.buffer = tcp.buffer /\ tcp'.pending = tcp.pending
      /\ tcp'.id = tcp.id /\ tcp'.len = tcp.len /\ tcp'.loop = tcp.loop
      /\ tcp' \in [connected: BOOLEAN, buffer: Seq(Byte), pending: BOOLEAN, id: 0 .. Width - 1,
                   len: 0 .. Width - 1, loop: BOOLEAN]
  BY <1>1, <1>2 DEF Types
<1>4. Types'
  <2>1. 0 \in 0 .. MAX_LENGTH /\ 4 \in 0 .. Width \div 2 - 1
    BY Widths DEF Half
  <2>2. session' \in [open: BOOLEAN, at: {"head", "body"}, got: Seq(Byte),
                      id: 0 .. MAX_LENGTH, len: 0 .. Width \div 2 - 1]
    BY <1>2, <2>1
  <2>3. conns' \in 0 .. MaxConns /\ sends' \in 0 .. MaxSends
    <3>1. conns \in 0 .. MaxConns /\ sends \in 0 .. MaxSends
      BY <1>1 DEF Types
    <3> QED
      BY <1>2, <3>1, Widths
  <2>4. stale' \in BOOLEAN
    BY <1>2
  <2> QED
    BY <1>2, <1>3, <2>2, <2>3, <2>4 DEF Types
<1>5. BufferInv'
  BY <1>1, <1>2, <1>3 DEF BufferInv, HEAD_TOTAL_LEN
<1>6. <<>> \o <<>> = <<>> /\ <<>> \in Seq(Byte) /\ Len(<<>>) = 0
  OBVIOUS
<1>7. Stream(<<>>, Frames(<<>>), 0, 0)
  BY StreamEmpty
<1>8. ServerInv'
  BY <1>2, <1>6, <1>7 DEF ServerInv, Incoming
<1>9. ClientInv'
  <2>1. SUFFICES ASSUME ~stale' PROVE ClientInv'
    BY DEF ClientInv
  <2>2. ~tcp.pending /\ tcp.buffer = <<>>
    BY <1>2, <2>1
  <2>3. Awaits(<<>>)'
    BY <1>2, <1>3, <1>6, <1>7, <2>2 DEF Awaits
  <2>4. \E t \in Seq(Byte) : Awaits(t)'
    BY <1>6, <2>3
  <2> QED
    BY <1>2, <1>6, <2>4 DEF ClientInv
<1> QED
  BY <1>4, <1>5, <1>8, <1>9 DEF FramingInv

LEMMA StepDisconnect ==
  ASSUME FramingInv, Disconnect
  PROVE  FramingInv'
<1>1. Types /\ BufferInv /\ ServerInv /\ ClientInv
  BY DEF FramingInv
<1>2. /\ up' = <<>> /\ down' = <<>> /\ sends' = sends /\ conns' = conns /\ stale' = stale
      /\ asked' = asked /\ posted' = posted /\ replied' = replied /\ handled' = handled
  BY DEF Disconnect, history
<1>3. /\ tcp'.connected = FALSE /\ tcp'.buffer = tcp.buffer /\ tcp'.pending = tcp.pending
      /\ tcp'.id = tcp.id /\ tcp'.len = tcp.len /\ tcp'.loop = tcp.loop
      /\ tcp' \in [connected: BOOLEAN, buffer: Seq(Byte), pending: BOOLEAN, id: 0 .. Width - 1,
                   len: 0 .. Width - 1, loop: BOOLEAN]
  BY <1>1 DEF Types, Disconnect
<1>4. /\ session'.open = FALSE /\ session'.at = session.at /\ session'.got = session.got
      /\ session'.len = session.len
      /\ session' \in [open: BOOLEAN, at: {"head", "body"}, got: Seq(Byte),
                       id: 0 .. MAX_LENGTH, len: 0 .. Width \div 2 - 1]
  BY <1>1 DEF Types, Disconnect
<1>5. Types'
  BY <1>1, <1>2, <1>3, <1>4 DEF Types
<1>6. BufferInv'
  BY <1>1, <1>2, <1>3, <1>4 DEF BufferInv
<1>7. ServerInv'
  BY <1>1, <1>2, <1>4 DEF ServerInv
<1>8. ClientInv'
  <2>1. SUFFICES ASSUME ~stale PROVE ClientInv'
    BY <1>2 DEF ClientInv
  <2>2. PICK t \in Seq(Byte) : Awaits(t)
    BY <1>1, <2>1 DEF ClientInv
  <2>3. Awaits(t)'
    BY <1>2, <1>3, <2>2 DEF Awaits, HeadTaken
  <2>4. \E x \in Seq(Byte) : Awaits(x)'
    BY <2>3
  <2> QED
    BY <1>1, <1>2, <2>1, <2>4 DEF ClientInv
<1> QED
  BY <1>5, <1>6, <1>7, <1>8 DEF FramingInv

LEMMA StepClientSend ==
  ASSUME FramingInv, NEW m \in Requests, ClientSend(m)
  PROVE  FramingInv'
<1> DEFINE f == HeadOf(m) \o BodyOf(m)
           p == Len(posted)
<1>1. Types /\ BufferInv /\ ServerInv /\ ClientInv
  BY DEF FramingInv
<1>2. /\ tcp.connected /\ sends < MaxSends /\ sends' = sends + 1
      /\ up' = up \o ClientFrame(m) /\ asked' = Append(asked, m)
      /\ down' = down /\ session' = session /\ tcp' = tcp /\ conns' = conns /\ posted' = posted
      /\ replied' = replied /\ handled' = handled /\ stale' = stale
  BY DEF ClientSend
<1>3. m \in Sendable /\ ClientFrame(m) = f
  BY RequestFits
<1>4. f \in Seq(Byte) /\ up \in Seq(Byte) /\ session.got \in Seq(Byte)
  BY <1>1, <1>3, FieldsOfHead, BodyLength, SessionFields DEF Types
<1> HIDE DEF f
<1>5. up' = up \o f /\ up' \in Seq(Byte)
  BY <1>2, <1>3, <1>4, Joined
<1>6. Incoming' = Incoming \o f /\ Incoming \in Seq(Byte)
  <2>1. (session.got \o up) \o f = session.got \o (up \o f)
    <3> DEFINE g == session.got
    <3>1. g \in Seq(Byte) /\ up \in Seq(Byte) /\ f \in Seq(Byte)
      BY <1>4
    <3> HIDE DEF g
    <3>2. (g \o up) \o f = g \o (up \o f)
      BY <3>1, ConcatAssociative
    <3> QED
      BY <3>2 DEF g
  <2>2. session.got \o up \in Seq(Byte)
    BY <1>4, Joined
  <2> QED
    BY <1>2, <1>5, <2>1, <2>2 DEF Incoming
<1>7. /\ asked \in Seq(Sendable) /\ Len(asked) \in Nat /\ asked \in Seq(Requests)
      /\ p \in Nat /\ p <= Len(asked) /\ posted \in Seq(Messages)
  BY <1>1, AskedFits DEF Types, ServerInv
<1>8. /\ asked' \in Seq(Requests) /\ Len(asked') = Len(asked) + 1
      /\ \A i \in 1 .. Len(asked) : asked'[i] = asked[i]
  BY <1>2, <1>7
<1>9. Types'
  <2>1. sends' \in 0 .. MaxSends
    <3>1. sends \in 0 .. MaxSends
      BY <1>1 DEF Types
    <3> QED
      BY <1>2, <3>1, Widths
  <2> QED
    BY <1>1, <1>2, <1>5, <1>8, <2>1 DEF Types
<1>10. BufferInv'
  BY <1>1, <1>2 DEF BufferInv
<1>11. ServerInv'
  <2>1. Len(posted') <= Len(asked') /\ \A i \in 1 .. Len(posted') : posted'[i] = asked'[i]
    <3>1. ASSUME NEW i \in 1 .. p PROVE posted[i] = asked'[i]
      <4>1. i \in 1 .. Len(asked) /\ posted[i] = asked[i]
        BY <1>1, <1>7 DEF ServerInv
      <4> QED
        BY <1>8, <4>1
    <3>2. p <= Len(asked')
      BY <1>7, <1>8
    <3> QED
      BY <1>2, <3>1, <3>2
  <2>2. ASSUME session.open, session.at = "head"
        PROVE  Stream(Incoming', Frames(asked'), p, Len(asked'))
    <3>1. Stream(Incoming, Frames(asked), p, Len(asked))
      BY <1>1, <2>2 DEF ServerInv
    <3>2. p \in 0 .. Len(asked)
      BY <1>7
    <3>3. Stream(Incoming \o f, Frames(Append(asked, m)), p, Len(asked) + 1)
      BY <1>3, <1>6, <1>7, <3>1, <3>2, FrameSent DEF f
    <3> QED
      BY <1>2, <1>6, <1>8, <3>3
  <2>3. ASSUME session.open, session.at = "body"
        PROVE  HeadTaken(Incoming', asked', p, session.id, session.len)
    <3>1. HeadTaken(Incoming, asked, p, session.id, session.len)
      BY <1>1, <2>3 DEF ServerInv
    <3>2. HeadTaken(Incoming \o f, Append(asked, m), p, session.id, session.len)
      BY <1>3, <1>6, <1>7, <3>1, FrameSentLater DEF f
    <3> QED
      BY <1>2, <1>6, <3>2
  <2> QED
    BY <1>2, <2>1, <2>2, <2>3 DEF ServerInv, HeadTaken
<1>12. ClientInv'
  BY <1>1, <1>2, ClientSame
<1> QED
  BY <1>9, <1>10, <1>11, <1>12 DEF FramingInv

\* What asyncReadLen reads moves from the stream to the buffer.
LEMMA BytesRead ==
  ASSUME Types, BufferInv, NEW k \in 0 .. Len(up), ReadSome(k)
  PROVE  /\ Have(k) \in Seq(Byte) /\ Len(Have(k)) = Len(session.got) + k
         /\ Len(Have(k)) \in 0 .. session.len
         /\ up' = Rest(up, k) /\ up' \in Seq(Byte) /\ Have(k) \o up' = Incoming
<1>1. up \in Seq(Byte) /\ session.got \in Seq(Byte) /\ session.len \in Nat /\ Len(session.got) \in Nat
  BY SessionFields DEF Types
<1>2. Take(up, k) \in Seq(Byte) /\ Len(Take(up, k)) = k /\ Rest(up, k) \in Seq(Byte)
  BY <1>1, TakeRest
<1>3. Have(k) \in Seq(Byte) /\ Len(Have(k)) = Len(session.got) + k
  BY <1>1, <1>2, Joined DEF Have
<1>4. k <= session.len - Len(session.got) /\ up' = Rest(up, k)
  BY DEF ReadSome
<1>5. Len(Have(k)) \in 0 .. session.len
  BY <1>1, <1>3, <1>4
<1>6. Have(k) \o Rest(up, k) = Incoming
  BY <1>1, MoveBytes DEF Have, Incoming
<1> QED
  BY <1>2, <1>3, <1>4, <1>5, <1>6

LEMMA StepReadMore ==
  ASSUME FramingInv, NEW k \in 0 .. Len(up), ReadMore(k)
  PROVE  FramingInv'
<1>1. Types /\ BufferInv /\ ServerInv /\ ClientInv
  BY DEF FramingInv
<1>2. /\ ReadSome(k) /\ Len(Have(k)) < session.len
      /\ down' = down /\ tcp' = tcp /\ sends' = sends /\ conns' = conns /\ stale' = stale
      /\ asked' = asked /\ posted' = posted /\ replied' = replied /\ handled' = handled
      /\ session.open
  BY DEF ReadMore, history, ReadSome
<1>3. /\ Have(k) \in Seq(Byte) /\ Len(Have(k)) \in 0 .. session.len
      /\ up' \in Seq(Byte) /\ Have(k) \o up' = Incoming
  BY <1>1, <1>2, BytesRead
<1>4. /\ session'.open = session.open /\ session'.at = session.at /\ session'.got = Have(k)
      /\ session'.id = session.id /\ session'.len = session.len
      /\ session' \in [open: BOOLEAN, at: {"head", "body"}, got: Seq(Byte),
                       id: 0 .. MAX_LENGTH, len: 0 .. Width \div 2 - 1]
  BY <1>1, <1>3 DEF Types, ReadMore
<1>5. Types'
  BY <1>1, <1>2, <1>3, <1>4 DEF Types
<1>6. BufferInv'
  <2>1. Len(session'.got) <= session'.len
    BY <1>3, <1>4
  <2>2. session.open => tcp.connected
    BY <1>1 DEF BufferInv
  <2> QED
    BY <1>1, <1>2, <1>4, <2>1, <2>2 DEF BufferInv
<1>7. Incoming' = Incoming
  BY <1>3, <1>4 DEF Incoming
<1>8. ServerInv'
  BY <1>1, <1>2, <1>4, <1>7 DEF ServerInv, HeadTaken
<1>9. ClientInv'
  BY <1>1, <1>2, ClientSame
<1> QED
  BY <1>5, <1>6, <1>8, <1>9 DEF FramingInv

LEMMA StepHeadRead ==
  ASSUME FramingInv, NEW k \in 0 .. Len(up), HeadRead(k)
  PROVE  FramingInv'
<1> DEFINE g == Have(k)
           p == Len(posted)
           id == FieldAt(g, 1)
           len == FieldAt(g, 3)
           m == asked[p + 1]
<1>1. Types /\ BufferInv /\ ServerInv /\ ClientInv
  BY DEF FramingInv
<1>2. /\ session.at = "head" /\ ReadSome(k) /\ Len(g) >= session.len
      /\ down' = down /\ tcp' = tcp /\ sends' = sends /\ conns' = conns /\ stale' = stale
      /\ asked' = asked /\ posted' = posted /\ replied' = replied /\ handled' = handled
      /\ session.open /\ tcp.connected
  BY <1>1 DEF HeadRead, history, ReadSome, BufferInv
<1>3. /\ g \in Seq(Byte) /\ Len(g) \in 0 .. session.len
      /\ up' \in Seq(Byte) /\ g \o up' = Incoming
  BY <1>1, <1>2, BytesRead
<1>4. Len(g) = HEAD_TOTAL_LEN
  <2>1. session.len = HEAD_TOTAL_LEN
    BY <1>1, <1>2 DEF BufferInv
  <2> QED
    BY <1>2, <1>3, <2>1 DEF HEAD_TOTAL_LEN
<1>5. asked \in Seq(Sendable) /\ p \in 0 .. Len(asked) /\ Stream(g \o up', Frames(asked), p, Len(asked))
  <2>1. Len(posted) \in Nat /\ Len(asked) \in Nat /\ Len(posted) <= Len(asked) /\ asked \in Seq(Sendable)
    BY <1>1, AskedFits DEF Types, ServerInv
  <2>2. Stream(Incoming, Frames(asked), Len(posted), Len(asked))
    BY <1>1, <1>2 DEF ServerInv
  <2> QED
    BY <1>3, <2>1, <2>2
<1>6. session' = IF Short(id) > MAX_LENGTH \/ Short(len) > MAX_LENGTH THEN [session EXCEPT !.open = FALSE]
                 ELSE [session EXCEPT !.at = "body", !.got = <<>>, !.id = Short(id), !.len = Short(len)]
  BY DEF HeadRead
<1> HIDE DEF g
<1>7. HeadTaken(up', asked, p, id, len)
  BY <1>3, <1>4, <1>5, HeadArrives
<1>8. p + 1 \in 1 .. Len(asked) /\ id = m.id /\ len = Len(BodyOf(m))
  BY <1>5, <1>7 DEF HeadTaken
<1>9. id \in 0 .. Half - 1 /\ len \in 0 .. Half - 1
  <2>1. m \in Sendable
    BY <1>5, <1>8, FramesAt
  <2>2. m.id \in 0 .. Width - 1 /\ m.id < Half
    BY <2>1 DEF Sendable, Messages
  <2>3. Len(BodyOf(m)) \in 0 .. Half - 1
    BY <2>1, BodyLength
  <2>4. id \in 0 .. Half - 1
    BY <1>8, <2>2, Widths
  <2> QED
    BY <1>8, <2>3, <2>4
<1> HIDE DEF id, len, m
<1>10. Short(id) = id /\ Short(len) = len /\ id \in Nat /\ len \in Nat
  BY <1>9, ShortFits, Widths
<1>11. CASE id > MAX_LENGTH \/ len > MAX_LENGTH
  <2>1. /\ session'.open = FALSE /\ session'.at = session.at /\ session'.got = session.got
        /\ session'.len = session.len
        /\ session' \in [open: BOOLEAN, at: {"head", "body"}, got: Seq(Byte),
                         id: 0 .. MAX_LENGTH, len: 0 .. Width \div 2 - 1]
    BY <1>1, <1>6, <1>10, <1>11 DEF Types
  <2>2. Types'
    BY <1>1, <1>2, <1>3, <2>1 DEF Types
  <2>3. BufferInv'
    BY <1>1, <1>2, <2>1 DEF BufferInv
  <2>4. ServerInv'
    BY <1>1, <1>2, <2>1 DEF ServerInv
  <2> QED
    BY <1>1, <1>2, <2>2, <2>3, <2>4, ClientSame DEF FramingInv
<1>12. CASE ~(id > MAX_LENGTH \/ len > MAX_LENGTH)
  <2>1. id \in 0 .. MAX_LENGTH /\ len \in 0 .. MAX_LENGTH /\ len \in 0 .. Width \div 2 - 1
    BY <1>9, <1>10, <1>12, Widths DEF Half
  <2>2. /\ session'.open = TRUE /\ session'.at = "body" /\ session'.got = <<>>
        /\ session'.id = id /\ session'.len = len
        /\ session' \in [open: BOOLEAN, at: {"head", "body"}, got: Seq(Byte),
                         id: 0 .. MAX_LENGTH, len: 0 .. Width \div 2 - 1]
    <3>1. session' = [session EXCEPT !.at = "body", !.got = <<>>, !.id = id, !.len = len]
      BY <1>6, <1>10, <1>12
    <3>2. session \in [open: BOOLEAN, at: {"head", "body"}, got: Seq(Byte),
                       id: 0 .. MAX_LENGTH, len: 0 .. Width \div 2 - 1]
      BY <1>1 DEF Types
    <3>3. session' = [open |-> session.open, at |-> "body", got |-> <<>>, id |-> id, len |-> len]
      BY <3>1, <3>2
    <3>4. session.open = TRUE
      BY <1>2, <3>2
    <3>5. session' = [open |-> TRUE, at |-> "body", got |-> <<>>, id |-> id, len |-> len]
      BY <3>3, <3>4
    <3>6. /\ session'.open = TRUE /\ session'.at = "body" /\ session'.got = <<>>
          /\ session'.id = id /\ session'.len = len
      BY <3>5
    <3>7. session' \in [open: BOOLEAN, at: {"head", "body"}, got: Seq(Byte),
                        id: 0 .. MAX_LENGTH, len: 0 .. Width \div 2 - 1]
      <4>1. <<>> \in Seq(Byte)
        OBVIOUS
      <4> QED
        BY <2>1, <3>5, <4>1
    <3> QED
      BY <3>6, <3>7
  <2>3. Types'
    BY <1>1, <1>2, <1>3, <2>2 DEF Types
  <2>4. BufferInv'
    <3>1. Len(session'.got) <= session'.len /\ session'.len <= MAX_LENGTH
      BY <2>1, <2>2, Widths
    <3> QED
      BY <1>1, <1>2, <2>2, <3>1 DEF BufferInv
  <2>5. Incoming' = up'
    BY <1>3, <2>2, ConcatEmptySeq DEF Incoming
  <2>6. HeadTaken(Incoming', asked', Len(posted'), session'.id, session'.len)
    BY <1>2, <1>7, <2>2, <2>5
  <2>7. ServerInv'
    BY <1>1, <1>2, <2>2, <2>6 DEF ServerInv, HeadTaken
  <2> QED
    BY <1>1, <1>2, <2>3, <2>4, <2>7, ClientSame DEF FramingInv
<1> QED
  BY <1>11, <1>12

LEMMA StepBodyRead ==
  ASSUME FramingInv, NEW k \in 0 .. Len(up), BodyRead(k)
  PROVE  FramingInv'
<1> DEFINE g == Have(k)
           p == Len(posted)
           m == asked[p + 1]
           new == [id |-> session.id, body |-> g]
<1>1. Types /\ BufferInv /\ ServerInv /\ ClientInv
  BY DEF FramingInv
<1>2. /\ session.at = "body" /\ ReadSome(k) /\ Len(g) >= session.len
      /\ down' = down /\ tcp' = tcp /\ sends' = sends /\ conns' = conns /\ stale' = stale
      /\ asked' = asked /\ posted' = Append(posted, new) /\ replied' = replied /\ handled' = handled
      /\ session.open /\ tcp.connected
  BY <1>1 DEF BodyRead, ReadSome, BufferInv
<1>3. /\ g \in Seq(Byte) /\ Len(g) \in 0 .. session.len
      /\ up' \in Seq(Byte) /\ g \o up' = Incoming
  BY <1>1, <1>2, BytesRead
<1>4. Len(g) = session.len
  <2>1. session.len \in Nat
    BY <1>1, SessionFields
  <2> QED
    BY <1>2, <1>3, <2>1
<1>5. /\ asked \in Seq(Sendable) /\ posted \in Seq(Messages) /\ p \in Nat /\ p <= Len(asked)
      /\ asked \in Seq(Requests) /\ \A i \in 1 .. p : posted[i] = asked[i]
  BY <1>1, AskedFits DEF Types, ServerInv
<1>6. HeadTaken(g \o up', asked, p, session.id, Len(g))
  <2>1. HeadTaken(Incoming, asked, Len(posted), session.id, session.len)
    BY <1>1, <1>2 DEF ServerInv
  <2> QED
    BY <1>3, <1>4, <2>1
<1>7. session' = [open |-> TRUE, at |-> "head", got |-> <<>>, id |-> 0, len |-> 4]
  BY DEF BodyRead, Start, HEAD_TOTAL_LEN
<1>18. new \in [id: 0 .. MAX_LENGTH, body: Seq(Byte)] /\ new.id = session.id /\ new.body = g
  BY <1>1, <1>3, SessionFields
<1> HIDE DEF g, p
<1>8. /\ p + 1 \in 1 .. Len(asked) /\ session.id = m.id /\ g = BodyOf(m)
      /\ Stream(up', Frames(asked), p + 1, Len(asked))
  BY <1>3, <1>5, <1>6, BodyArrives
<1>9. new = m /\ m \in Messages
  <2>1. m \in Requests
    BY <1>5, <1>8
  <2>2. m = [id |-> m.id, body |-> m.body] /\ BodyOf(m) = m.body /\ m \in Messages
    BY <2>1, RequestFits
  <2> QED
    BY <1>8, <2>2
<1> HIDE DEF new, m
<1>10. /\ posted' \in Seq(Messages) /\ Len(posted') = p + 1 /\ posted'[p + 1] = m
       /\ \A i \in 1 .. p : posted'[i] = posted[i]
  BY <1>2, <1>5, <1>9 DEF p
<1>11. \A i \in 1 .. p + 1 : posted'[i] = asked[i]
  <2>1. ASSUME NEW i \in 1 .. p + 1 PROVE posted'[i] = asked[i]
    <3>1. CASE i = p + 1
      BY <1>10, <3>1 DEF m
    <3>2. CASE i # p + 1
      <4>1. i \in 1 .. p
        BY <1>5, <3>2
      <4> QED
        BY <1>5, <1>10, <4>1
    <3> QED
      BY <3>1, <3>2
  <2> QED
    BY <2>1
<1>12. Types'
  <2>1. 0 \in 0 .. MAX_LENGTH /\ 4 \in 0 .. Width \div 2 - 1
    BY Widths DEF Half
  <2>2. session' \in [open: BOOLEAN, at: {"head", "body"}, got: Seq(Byte),
                      id: 0 .. MAX_LENGTH, len: 0 .. Width \div 2 - 1]
    BY <1>7, <2>1
  <2> QED
    BY <1>1, <1>2, <1>3, <1>10, <2>2 DEF Types
<1>13. BufferInv'
  BY <1>1, <1>2, <1>7 DEF BufferInv, HEAD_TOTAL_LEN
<1>14. Incoming' = up'
  BY <1>3, <1>7, ConcatEmptySeq DEF Incoming
<1>15. ServerInv'
  <2>1. Len(posted') <= Len(asked')
    BY <1>2, <1>8, <1>10
  <2>2. Stream(Incoming', Frames(asked'), Len(posted'), Len(asked'))
    BY <1>2, <1>8, <1>10, <1>14
  <2>3. \A i \in 1 .. Len(posted') : posted'[i] = asked'[i]
    BY <1>2, <1>10, <1>11
  <2> QED
    BY <1>7, <2>1, <2>2, <2>3 DEF ServerInv
<1>16. ClientInv'
  BY <1>1, <1>2, ClientSame
<1> QED
  BY <1>12, <1>13, <1>15, <1>16 DEF FramingInv

LEMMA StepServerSend ==
  ASSUME FramingInv, NEW m \in Replies, ServerSend(m)
  PROVE  FramingInv'
<1> DEFINE r == Plain(m)
           f == HeadOf(r) \o BodyOf(r)
           h == Len(handled)
<1>1. Types /\ BufferInv /\ ServerInv /\ ClientInv
  BY DEF FramingInv
<1>2. /\ tcp.connected /\ sends < MaxSends /\ sends' = sends + 1 /\ ~NodeThrows(m)
      /\ down' = down \o SendNode(m) /\ replied' = Append(replied, r)
      /\ up' = up /\ session' = session /\ tcp' = tcp /\ conns' = conns /\ posted' = posted
      /\ asked' = asked /\ handled' = handled /\ stale' = stale
  BY <1>1 DEF ServerSend, BufferInv
<1>3. r \in Sendable /\ SendNode(m) = f
  BY <1>2, ReplyFits
<1> HIDE DEF r
<1>4. f \in Seq(Byte) /\ down \in Seq(Byte) /\ tcp.buffer \in Seq(Byte)
  BY <1>1, <1>3, FieldsOfHead, BodyLength, TcpFields DEF Types
<1> HIDE DEF f
<1>5. down' = down \o f /\ down' \in Seq(Byte)
  BY <1>2, <1>3, <1>4, Joined
<1>6. tcp.buffer \o down' = (tcp.buffer \o down) \o f /\ tcp.buffer \o down \in Seq(Byte)
  <2> DEFINE g == tcp.buffer
  <2>1. g \in Seq(Byte) /\ down \in Seq(Byte) /\ f \in Seq(Byte)
    BY <1>4
  <2> HIDE DEF g
  <2>2. (g \o down) \o f = g \o (down \o f)
    BY <2>1, ConcatAssociative
  <2>3. g \o down \in Seq(Byte)
    BY <2>1, Joined
  <2> QED
    BY <1>5, <2>2, <2>3 DEF g
<1>7. replied \in Seq(Sendable) /\ Len(replied) \in Nat /\ h \in Nat
  BY <1>1 DEF Types
<1>8. /\ replied' \in Seq(Sendable) /\ Len(replied') = Len(replied) + 1
      /\ \A i \in 1 .. Len(replied) : replied'[i] = replied[i]
  BY <1>2, <1>3, <1>7
<1>9. Types'
  <2>1. sends' \in 0 .. MaxSends
    <3>1. sends \in 0 .. MaxSends
      BY <1>1 DEF Types
    <3> QED
      BY <1>2, <3>1, Widths
  <2> QED
    BY <1>1, <1>2, <1>5, <1>8, <2>1 DEF Types
<1>10. BufferInv'
  BY <1>1, <1>2 DEF BufferInv
<1>11. ServerInv'
  BY <1>1, <1>2, ServerSame
<1>12. ClientInv'
  <2>1. SUFFICES ASSUME ~stale PROVE ClientInv'
    BY <1>2 DEF ClientInv
  <2>2. /\ h <= Len(replied)
        /\ \A i \in 1 .. h : handled[i] = [id |-> replied[i].id, body |-> BodyOf(replied[i])]
        /\ Awaits(down)
    BY <1>1, <1>2, <2>1 DEF ClientInv, Awaits
  <2>3. ASSUME NEW i \in 1 .. h PROVE handled[i] = [id |-> replied'[i].id, body |-> BodyOf(replied'[i])]
    <3>1. i \in 1 .. Len(replied)
      BY <1>7, <2>2
    <3>2. replied'[i] = replied[i]
      BY <1>8, <3>1
    <3> QED
      BY <2>2, <3>2
  <2>4. ASSUME ~tcp.pending PROVE Stream(tcp.buffer \o down', Frames(replied'), h, Len(replied'))
    <3>1. Stream(tcp.buffer \o down, Frames(replied), h, Len(replied))
      BY <2>2, <2>4 DEF Awaits
    <3>2. h \in 0 .. Len(replied)
      BY <1>7, <2>2
    <3>3. Stream((tcp.buffer \o down) \o f, Frames(Append(replied, r)), h, Len(replied) + 1)
      BY <1>3, <1>6, <1>7, <3>1, <3>2, FrameSent DEF f
    <3> QED
      BY <1>2, <1>6, <1>8, <3>3
  <2>5. ASSUME tcp.pending PROVE HeadTaken(tcp.buffer \o down', replied', h, tcp.id, tcp.len)
    <3>1. HeadTaken(tcp.buffer \o down, replied, h, tcp.id, tcp.len)
      BY <2>2, <2>5 DEF Awaits
    <3>2. HeadTaken((tcp.buffer \o down) \o f, Append(replied, r), h, tcp.id, tcp.len)
      BY <1>3, <1>6, <1>7, <3>1, FrameSentLater DEF f
    <3> QED
      BY <1>2, <1>6, <3>2
  <2>6. Awaits(down)'
    BY <1>2, <2>4, <2>5 DEF Awaits, HeadTaken
  <2>7. \E t \in Seq(Byte) : Awaits(t)'
    BY <1>5, <2>6
  <2>8. h <= Len(replied')
    BY <1>7, <1>8, <2>2
  <2> QED
    BY <1>2, <2>3, <2>7, <2>8 DEF ClientInv
<1> QED
  BY <1>9, <1>10, <1>11, <1>12 DEF FramingInv

LEMMA StepServerSendThrows ==
  ASSUME FramingInv, NEW m \in Replies, ServerSendThrows(m)
  PROVE  FramingInv'
<1>1. Types /\ BufferInv /\ ServerInv /\ ClientInv
  BY DEF FramingInv
<1>2. /\ session.open /\ sends < MaxSends /\ sends' = sends + 1
      /\ up' = up /\ down' = down /\ tcp' = tcp /\ conns' = conns /\ stale' = stale
      /\ asked' = asked /\ posted' = posted /\ replied' = replied /\ handled' = handled
  BY DEF ServerSendThrows, streams, history
<1>3. m.deferred \in BOOLEAN
  BY FramingAssumption
<1>4. /\ session'.at = session.at /\ session'.got = session.got
      /\ session'.id = session.id /\ session'.len = session.len
      /\ session' \in [open: BOOLEAN, at: {"head", "body"}, got: Seq(Byte),
                       id: 0 .. MAX_LENGTH, len: 0 .. Width \div 2 - 1]
  BY <1>1, <1>3 DEF Types, ServerSendThrows
<1>5. Types'
  <2>1. sends' \in 0 .. MaxSends
    <3>1. sends \in 0 .. MaxSends
      BY <1>1 DEF Types
    <3> QED
      BY <1>2, <3>1, Widths
  <2> QED
    BY <1>1, <1>2, <1>4, <2>1 DEF Types
<1>6. BufferInv'
  BY <1>1, <1>2, <1>4 DEF BufferInv
<1>7. Incoming' = Incoming
  BY <1>2, <1>4 DEF Incoming
<1>8. ServerInv'
  BY <1>1, <1>2, <1>4, <1>7 DEF ServerInv, HeadTaken
<1>9. ClientInv'
  BY <1>1, <1>2, ClientSame
<1> QED
  BY <1>5, <1>6, <1>8, <1>9 DEF FramingInv

LEMMA StepReadyRead ==
  ASSUME FramingInv, NEW k \in 1 .. Len(down), ReadyRead(k)
  PROVE  FramingInv'
<1>1. Types /\ BufferInv /\ ServerInv /\ ClientInv
  BY DEF FramingInv
<1>2. /\ tcp.connected /\ down' = Rest(down, k)
      /\ tcp' = [tcp EXCEPT !.buffer = @ \o Take(down, k), !.loop = TRUE]
      /\ up' = up /\ session' = session /\ sends' = sends /\ conns' = conns /\ stale' = stale
      /\ asked' = asked /\ posted' = posted /\ replied' = replied /\ handled' = handled
  BY DEF ReadyRead, history
<1>3. down \in Seq(Byte) /\ k \in 0 .. Len(down) /\ tcp.buffer \in Seq(Byte)
  BY <1>1, TcpFields DEF Types
<1>4. Take(down, k) \in Seq(Byte) /\ Rest(down, k) \in Seq(Byte)
  BY <1>3, TakeRest
<1> DEFINE g == tcp.buffer \o Take(down, k)
<1>5. g \in Seq(Byte) /\ g \o Rest(down, k) = tcp.buffer \o down
  BY <1>3, <1>4, Joined, MoveBytes
<1>6. tcp' = [tcp EXCEPT !.buffer = g, !.loop = TRUE]
  BY <1>2
<1> HIDE DEF g
<1>7. /\ tcp'.connected = tcp.connected /\ tcp'.buffer = g /\ tcp'.pending = tcp.pending
      /\ tcp'.id = tcp.id /\ tcp'.len = tcp.len /\ tcp'.loop = TRUE
      /\ tcp' \in [connected: BOOLEAN, buffer: Seq(Byte), pending: BOOLEAN, id: 0 .. Width - 1,
                   len: 0 .. Width - 1, loop: BOOLEAN]
  BY <1>1, <1>5, <1>6 DEF Types
<1>8. Types'
  BY <1>1, <1>2, <1>4, <1>7 DEF Types
<1>9. BufferInv'
  BY <1>1, <1>2, <1>7 DEF BufferInv
<1>10. ServerInv'
  BY <1>1, <1>2, ServerSame
<1>11. ClientInv'
  <2>1. SUFFICES ASSUME ~stale PROVE ClientInv'
    BY <1>2 DEF ClientInv
  <2>2. Awaits(down)
    BY <1>1, <1>2, <2>1 DEF ClientInv, Awaits
  <2>3. tcp'.buffer \o down' = tcp.buffer \o down /\ down' \in Seq(Byte)
    BY <1>2, <1>4, <1>5, <1>7
  <2>4. Awaits(down)'
    BY <1>2, <1>7, <2>2, <2>3 DEF Awaits, HeadTaken
  <2>5. \E t \in Seq(Byte) : Awaits(t)'
    BY <2>3, <2>4
  <2> QED
    BY <1>1, <1>2, <2>1, <2>5 DEF ClientInv
<1> QED
  BY <1>8, <1>9, <1>10, <1>11 DEF FramingInv

\* The fields of what has arrived are values of the field, whatever they are.
LEMMA BufferFields ==
  ASSUME NEW s \in Seq(Byte), Len(s) >= HEAD_TOTAL_LEN
  PROVE  FieldAt(s, 1) \in 0 .. Width - 1 /\ FieldAt(s, 3) \in 0 .. Width - 1
<1>1. Len(s) \in Nat /\ Len(s) >= 4
  BY DEF HEAD_TOTAL_LEN
<1>2. 1 \in 1 .. Len(s) /\ 2 \in 1 .. Len(s) /\ 3 \in 1 .. Len(s) /\ 4 \in 1 .. Len(s)
  BY <1>1
<1>3. s[1] \in Byte /\ s[2] \in Byte /\ s[3] \in Byte /\ s[4] \in Byte
  BY <1>2
<1>4. FieldAt(s, 1) = s[1] * Base + s[2] /\ FieldAt(s, 3) = s[3] * Base + s[4]
  BY DEF FieldAt
<1> QED
  BY <1>3, <1>4, FieldValue

\* A turn in which no whole head has arrived: the loop ends.
LEMMA TurnShort ==
  ASSUME FramingInv, Parse, ~tcp.pending, Len(tcp.buffer) < HEAD_TOTAL_LEN
  PROVE  FramingInv'
<1>1. Types /\ BufferInv /\ ServerInv /\ ClientInv
  BY DEF FramingInv
<1>2. /\ up' = up /\ down' = down /\ session' = session /\ sends' = sends /\ conns' = conns
      /\ asked' = asked /\ posted' = posted /\ replied' = replied /\ stale' = stale
      /\ handled' = handled
  BY DEF Parse, Turn, streams
<1>3. tcp \in [connected: BOOLEAN, buffer: Seq(Byte), pending: BOOLEAN, id: 0 .. Width - 1,
               len: 0 .. Width - 1, loop: BOOLEAN]
  BY <1>1 DEF Types
<1>4. tcp' = [tcp EXCEPT !.loop = FALSE, !.pending = FALSE, !.id = @, !.len = @, !.buffer = @]
  BY DEF Parse, Turn
<1>5. /\ tcp'.connected = tcp.connected /\ tcp'.buffer = tcp.buffer /\ tcp'.pending = FALSE
      /\ tcp'.id = tcp.id /\ tcp'.len = tcp.len /\ tcp'.loop = FALSE
      /\ tcp' \in [connected: BOOLEAN, buffer: Seq(Byte), pending: BOOLEAN, id: 0 .. Width - 1,
                   len: 0 .. Width - 1, loop: BOOLEAN]
  BY <1>3, <1>4
<1>6. Types'
  BY <1>1, <1>2, <1>5 DEF Types
<1>7. BufferInv'
  BY <1>1, <1>2, <1>5 DEF BufferInv
<1>8. ServerInv'
  BY <1>1, <1>2, ServerSame
<1>9. ClientInv'
  <2>1. SUFFICES ASSUME ~stale PROVE ClientInv'
    BY <1>2 DEF ClientInv
  <2>2. PICK t \in Seq(Byte) : Awaits(t)
    BY <1>1, <2>1 DEF ClientInv
  <2>3. Awaits(t)'
    BY <1>2, <1>5, <2>2 DEF Awaits, HeadTaken
  <2>4. \E x \in Seq(Byte) : Awaits(x)'
    BY <2>3
  <2> QED
    BY <1>1, <1>2, <2>1, <2>4 DEF ClientInv
<1> QED
  BY <1>6, <1>7, <1>8, <1>9 DEF FramingInv

\* A turn that knows the head: id and len are its fields, rest is what follows
\* it in the buffer.
LEMMA TurnBody ==
  ASSUME FramingInv, NEW id \in 0 .. Width - 1, NEW len \in 0 .. Width - 1, NEW rest \in Seq(Byte),
         ~stale => \E t \in Seq(Byte) : /\ tcp.connected => t = down
                                        /\ HeadTaken(rest \o t, replied, Len(handled), id, len),
         up' = up, down' = down, session' = session, sends' = sends, conns' = conns,
         asked' = asked, posted' = posted, replied' = replied, stale' = stale,
         tcp'.connected = tcp.connected, tcp'.id = id, tcp'.len = len,
         tcp' \in [connected: BOOLEAN, buffer: Seq(Byte), pending: BOOLEAN, id: 0 .. Width - 1,
                   len: 0 .. Width - 1, loop: BOOLEAN],
         \/ /\ Len(rest) < len /\ tcp'.pending /\ tcp'.buffer = rest /\ handled' = handled
         \/ /\ Len(rest) >= len /\ ~tcp'.pending /\ tcp'.buffer = Rest(rest, len) /\ tcp'.loop
            /\ handled' = Append(handled, [id |-> id, body |-> Take(rest, len)])
  PROVE  FramingInv'
<1> DEFINE h == Len(handled)
           n == Len(replied)
<1>1. Types /\ BufferInv /\ ServerInv /\ ClientInv
  BY DEF FramingInv
<1>2. /\ handled \in Seq(Messages) /\ h \in Nat /\ replied \in Seq(Sendable) /\ n \in Nat
      /\ Len(rest) \in Nat /\ len \in Nat
  <2>1. handled \in Seq(Messages) /\ replied \in Seq(Sendable)
    BY <1>1 DEF Types
  <2>2. h \in Nat /\ n \in Nat
    BY <2>1
  <2>3. Len(rest) \in Nat /\ len \in Nat
    OBVIOUS
  <2> QED
    BY <2>1, <2>2, <2>3
<1>3. ServerInv'
  BY <1>1, ServerSame
<1>4. CASE /\ Len(rest) < len /\ tcp'.pending /\ tcp'.buffer = rest /\ handled' = handled
  <2>1. Types'
    BY <1>1, <1>4 DEF Types
  <2>2. BufferInv'
    BY <1>1, <1>4 DEF BufferInv
  <2>3. ClientInv'
    <3>1. SUFFICES ASSUME ~stale PROVE ClientInv'
      BY DEF ClientInv
    <3>2. PICK t \in Seq(Byte) : /\ tcp.connected => t = down
                                 /\ HeadTaken(rest \o t, replied, h, id, len)
      BY <3>1
    <3>3. Awaits(t)'
      BY <1>4, <3>2 DEF Awaits, HeadTaken
    <3>4. \E x \in Seq(Byte) : Awaits(x)'
      BY <3>3
    <3> QED
      BY <1>1, <1>4, <3>1, <3>4 DEF ClientInv
  <2> QED
    BY <1>3, <2>1, <2>2, <2>3 DEF FramingInv
<1>5. CASE /\ Len(rest) >= len /\ ~tcp'.pending /\ tcp'.buffer = Rest(rest, len) /\ tcp'.loop
           /\ handled' = Append(handled, [id |-> id, body |-> Take(rest, len)])
  <2> DEFINE a == Take(rest, len)
             b == Rest(rest, len)
             new == [id |-> id, body |-> a]
  <2>1. len \in 0 .. Len(rest)
    BY <1>2, <1>5
  <2>2. a \in Seq(Byte) /\ Len(a) = len /\ b \in Seq(Byte)
    BY <2>1, TakeRest
  <2>3. tcp'.buffer = b /\ handled' = Append(handled, new)
    BY <1>5
  <2>10. ASSUME NEW t \in Seq(Byte) PROVE a \o (b \o t) = rest \o t
    BY <2>1, PasteTail
  <2> HIDE DEF a, b
  <2>4. new \in Messages
    BY <2>2 DEF Messages
  <2> HIDE DEF new
  <2>5. /\ handled' \in Seq(Messages) /\ Len(handled') = h + 1 /\ handled'[h + 1] = new
        /\ \A i \in 1 .. h : handled'[i] = handled[i]
    BY <1>2, <2>3, <2>4
  <2>6. Types'
    BY <1>1, <2>5 DEF Types
  <2>7. BufferInv'
    BY <1>1, <1>5 DEF BufferInv
  <2>8. ClientInv'
    <3>1. SUFFICES ASSUME ~stale PROVE ClientInv'
      BY DEF ClientInv
    <3>2. PICK t \in Seq(Byte) : /\ tcp.connected => t = down
                                 /\ HeadTaken(rest \o t, replied, h, id, len)
      BY <3>1
    <3>3. HeadTaken(a \o (b \o t), replied, h, id, Len(a)) /\ b \o t \in Seq(Byte)
      BY <2>2, <2>10, <3>2, Joined
    <3>4. /\ h + 1 \in 1 .. n /\ id = replied[h + 1].id /\ a = BodyOf(replied[h + 1])
          /\ Stream(b \o t, Frames(replied), h + 1, n)
      BY <1>2, <2>2, <3>3, BodyArrives
    <3>5. Awaits(t)'
      BY <1>5, <2>3, <2>5, <3>2, <3>4 DEF Awaits
    <3>6. \E x \in Seq(Byte) : Awaits(x)'
      BY <3>5
    <3>7. ASSUME NEW i \in 1 .. h + 1
          PROVE  handled'[i] = [id |-> replied[i].id, body |-> BodyOf(replied[i])]
      <4>1. CASE i = h + 1
        BY <2>5, <3>4, <4>1 DEF new
      <4>2. CASE i # h + 1
        <5>1. i \in 1 .. h
          BY <1>2, <4>2
        <5> QED
          BY <1>1, <2>5, <3>1, <5>1 DEF ClientInv
      <4> QED
        BY <4>1, <4>2
    <3>8. h + 1 <= n
      BY <3>4
    <3> QED
      BY <2>5, <3>6, <3>7, <3>8 DEF ClientInv
  <2> QED
    BY <1>3, <2>6, <2>7, <2>8 DEF FramingInv
<1> QED
  BY <1>4, <1>5

LEMMA StepParse ==
  ASSUME FramingInv, Parse
  PROVE  FramingInv'
<1>1. Types /\ ClientInv
  BY DEF FramingInv
<1>2. /\ up' = up /\ down' = down /\ session' = session /\ sends' = sends /\ conns' = conns
      /\ asked' = asked /\ posted' = posted /\ replied' = replied /\ stale' = stale
  BY DEF Parse, Turn, streams
<1>3. /\ tcp \in [connected: BOOLEAN, buffer: Seq(Byte), pending: BOOLEAN, id: 0 .. Width - 1,
                  len: 0 .. Width - 1, loop: BOOLEAN]
      /\ tcp.buffer \in Seq(Byte) /\ tcp.id \in 0 .. Width - 1 /\ tcp.len \in 0 .. Width - 1
      /\ tcp.pending \in BOOLEAN /\ Len(tcp.buffer) \in Nat
  BY <1>1 DEF Types
\* What a turn does once the head is known.
<1>4. ASSUME NEW id \in 0 .. Width - 1, NEW len \in 0 .. Width - 1, NEW rest \in Seq(Byte),
             \/ /\ Len(rest) >= len
                /\ tcp' = [tcp EXCEPT !.loop = TRUE, !.pending = FALSE, !.id = id, !.len = len,
                             !.buffer = Rest(rest, len)]
                /\ handled' = Append(handled, [id |-> id, body |-> Take(rest, len)])
             \/ /\ ~(Len(rest) >= len)
                /\ tcp' = [tcp EXCEPT !.loop = FALSE, !.pending = TRUE, !.id = id, !.len = len,
                             !.buffer = rest]
                /\ handled' = handled,
             ~stale => \E t \in Seq(Byte) : /\ tcp.connected => t = down
                                            /\ HeadTaken(rest \o t, replied, Len(handled), id, len)
      PROVE  FramingInv'
  <2>1. Len(rest) \in Nat /\ len \in Nat
    BY <1>4
  <2>2. CASE Len(rest) >= len
    <3>8. len \in 0 .. Len(rest)
      BY <2>1, <2>2
    <3>1. Rest(rest, len) \in Seq(Byte)
      BY <3>8, TakeRest
    <3> DEFINE b == Rest(rest, len)
    <3>2. tcp' = [tcp EXCEPT !.loop = TRUE, !.pending = FALSE, !.id = id, !.len = len, !.buffer = b]
      BY <1>4, <2>2
    <3> HIDE DEF b
    <3>3. b \in Seq(Byte)
      BY <3>1 DEF b
    <3>4. tcp' = [connected |-> tcp.connected, buffer |-> b, pending |-> FALSE, id |-> id, len |-> len, loop |-> TRUE]
      BY <1>3, <3>2
    <3>5. /\ tcp'.connected = tcp.connected /\ tcp'.id = id /\ tcp'.len = len
          /\ ~tcp'.pending /\ tcp'.buffer = b /\ tcp'.loop
      BY <3>4
    <3>6. tcp' \in [connected: BOOLEAN, buffer: Seq(Byte), pending: BOOLEAN, id: 0 .. Width - 1,
                    len: 0 .. Width - 1, loop: BOOLEAN]
      BY <1>3, <3>3, <3>4
    <3>7. handled' = Append(handled, [id |-> id, body |-> Take(rest, len)])
      BY <1>4, <2>2
    <3> QED
      BY <1>2, <1>4, <2>2, <3>5, <3>6, <3>7, TurnBody DEF b
  <2>3. CASE ~(Len(rest) >= len)
    <3>2. tcp' = [tcp EXCEPT !.loop = FALSE, !.pending = TRUE, !.id = id, !.len = len, !.buffer = rest]
      BY <1>4, <2>3
    <3>4. tcp' = [connected |-> tcp.connected, buffer |-> rest, pending |-> TRUE, id |-> id, len |-> len, loop |-> FALSE]
      BY <1>3, <3>2
    <3>5. /\ tcp'.connected = tcp.connected /\ tcp'.id = id /\ tcp'.len = len
          /\ tcp'.pending /\ tcp'.buffer = rest
      BY <3>4
    <3>6. tcp' \in [connected: BOOLEAN, buffer: Seq(Byte), pending: BOOLEAN, id: 0 .. Width - 1,
                    len: 0 .. Width - 1, loop: BOOLEAN]
      BY <1>3, <3>4
    <3>7. handled' = handled /\ Len(rest) < len
      BY <1>4, <2>1, <2>3
    <3> QED
      BY <1>2, <1>4, <3>5, <3>6, <3>7, TurnBody
  <2> QED
    BY <2>2, <2>3
<1>5. CASE ~tcp.pending /\ Len(tcp.buffer) < HEAD_TOTAL_LEN
  BY <1>5, TurnShort
<1>6. CASE tcp.pending
  <2>1. ASSUME ~stale
        PROVE  \E t \in Seq(Byte) : /\ tcp.connected => t = down
                                    /\ HeadTaken(tcp.buffer \o t, replied, Len(handled), tcp.id, tcp.len)
    BY <1>1, <1>6, <2>1 DEF ClientInv, Awaits
  <2> DEFINE id == tcp.id
             len == tcp.len
             rest == tcp.buffer
  <2>3. id \in 0 .. Width - 1 /\ len \in 0 .. Width - 1 /\ rest \in Seq(Byte)
    BY <1>3 DEF id, len, rest
  <2>4. ~stale => \E t \in Seq(Byte) : /\ tcp.connected => t = down
                                       /\ HeadTaken(rest \o t, replied, Len(handled), id, len)
    BY <2>1 DEF id, len, rest
  <2>5. CASE Len(rest) >= len
    <3>1. /\ tcp' = [tcp EXCEPT !.loop = TRUE, !.pending = FALSE, !.id = id, !.len = len,
                       !.buffer = Rest(rest, len)]
          /\ handled' = Append(handled, [id |-> id, body |-> Take(rest, len)])
      BY <1>6, <2>5 DEF Parse, Turn
    <3> HIDE DEF id, len, rest
    <3> QED
      BY <1>4, <2>5, <3>1, <2>3, <2>4
  <2>6. CASE ~(Len(rest) >= len)
    <3>1. /\ tcp' = [tcp EXCEPT !.loop = FALSE, !.pending = TRUE, !.id = id, !.len = len, !.buffer = rest]
          /\ handled' = handled
      BY <1>6, <2>6 DEF Parse, Turn
    <3> HIDE DEF id, len, rest
    <3> QED
      BY <1>4, <2>6, <3>1, <2>3, <2>4
  <2> QED
    BY <2>5, <2>6
<1>7. CASE ~tcp.pending /\ ~(Len(tcp.buffer) < HEAD_TOTAL_LEN)
  <2> DEFINE buf == tcp.buffer
             id == FieldAt(buf, 1)
             len == FieldAt(buf, 3)
             rest == Rest(buf, HEAD_TOTAL_LEN)
             g == Take(buf, HEAD_TOTAL_LEN)
  <2>2. buf \in Seq(Byte) /\ Len(buf) >= HEAD_TOTAL_LEN /\ HEAD_TOTAL_LEN \in 0 .. Len(buf)
    BY <1>3, <1>7 DEF HEAD_TOTAL_LEN
  <2>3. id \in 0 .. Width - 1 /\ len \in 0 .. Width - 1
    <3> HIDE DEF buf
    <3> QED
      BY <2>2, BufferFields
  <2>4. /\ rest \in Seq(Byte) /\ g \in Seq(Byte) /\ Len(g) = HEAD_TOTAL_LEN
        /\ \A j \in 1 .. HEAD_TOTAL_LEN : g[j] = buf[j]
    <3> HIDE DEF buf
    <3> QED
      BY <2>2, TakeRest
  <2>5. FieldAt(g, 1) = id /\ FieldAt(g, 3) = len
    <3> HIDE DEF g, buf
    <3>1. g[1] = buf[1] /\ g[2] = buf[2] /\ g[3] = buf[3] /\ g[4] = buf[4]
      BY <2>4 DEF HEAD_TOTAL_LEN
    <3> QED
      BY <3>1 DEF FieldAt
  <2>6. ASSUME NEW t \in Seq(Byte) PROVE g \o (rest \o t) = buf \o t /\ rest \o t \in Seq(Byte)
    <3> HIDE DEF buf
    <3> QED
      BY <2>2, PasteTail
  <2>7. ASSUME ~stale
        PROVE  \E t \in Seq(Byte) : /\ tcp.connected => t = down
                                    /\ HeadTaken(rest \o t, replied, Len(handled), id, len)
    <3> HIDE DEF id, len, g, rest
    <3>1. PICK t \in Seq(Byte) : Awaits(t)
      BY <1>1, <2>7 DEF ClientInv
    <3>2. Stream(buf \o t, Frames(replied), Len(handled), Len(replied)) /\ (tcp.connected => t = down)
      BY <1>7, <3>1 DEF Awaits, buf
    <3>3. replied \in Seq(Sendable) /\ Len(handled) \in 0 .. Len(replied)
      BY <1>1, <2>7 DEF Types, ClientInv
    <3>4. Stream(g \o (rest \o t), Frames(replied), Len(handled), Len(replied)) /\ rest \o t \in Seq(Byte)
      BY <2>6, <3>2
    <3>5. HeadTaken(rest \o t, replied, Len(handled), FieldAt(g, 1), FieldAt(g, 3))
      BY <2>4, <3>3, <3>4, HeadArrives
    <3> QED
      BY <2>5, <3>2, <3>5
  <2>8. CASE Len(rest) >= len
    <3>1. /\ tcp' = [tcp EXCEPT !.loop = TRUE, !.pending = FALSE, !.id = id, !.len = len,
                       !.buffer = Rest(rest, len)]
          /\ handled' = Append(handled, [id |-> id, body |-> Take(rest, len)])
      BY <1>7, <2>8 DEF Parse, Turn
    <3> HIDE DEF id, len, rest
    <3> QED
      BY <1>4, <2>8, <3>1, <2>3, <2>4, <2>7
  <2>9. CASE ~(Len(rest) >= len)
    <3>1. /\ tcp' = [tcp EXCEPT !.loop = FALSE, !.pending = TRUE, !.id = id, !.len = len, !.buffer = rest]
          /\ handled' = handled
      BY <1>7, <2>9 DEF Parse, Turn
    <3> HIDE DEF id, len, rest
    <3> QED
      BY <1>4, <2>9, <3>1, <2>3, <2>4, <2>7
  <2> QED
    BY <2>8, <2>9
<1> QED
  BY <1>3, <1>5, <1>6, <1>7

\* Every step preserves the invariant.
LEMMA FramingInvNext ==
  ASSUME FramingInv, [FramingNext]_framingVars
  PROVE  FramingInv'
<1>1. CASE Connect
  BY <1>1, StepConnect
<1>2. CASE Disconnect
  BY <1>2, StepDisconnect
<1>3. CASE \E m \in Requests : ClientSend(m)
  BY <1>3, StepClientSend
<1>4. CASE \E m \in Replies : ServerSend(m) \/ ServerSendThrows(m)
  BY <1>4, StepServerSend, StepServerSendThrows
<1>5. CASE ServerReads
  BY <1>5, StepReadMore, StepHeadRead, StepBodyRead DEF ServerReads
<1>6. CASE ClientReads
  BY <1>6, StepParse, StepReadyRead DEF ClientReads
<1>7. CASE UNCHANGED framingVars
  <2>1. /\ up' = up /\ down' = down /\ session' = session /\ tcp' = tcp /\ sends' = sends
        /\ conns' = conns /\ asked' = asked /\ posted' = posted /\ replied' = replied
        /\ handled' = handled /\ stale' = stale
    BY <1>7 DEF framingVars, streams, history
  <2>2. Types /\ BufferInv /\ ServerInv /\ ClientInv
    BY DEF FramingInv
  <2>3. Types'
    BY <2>1, <2>2 DEF Types
  <2>4. BufferInv'
    BY <2>1, <2>2 DEF BufferInv
  <2>5. ServerInv' /\ ClientInv'
    BY <2>1, <2>2, ServerSame, ClientSame
  <2> QED
    BY <2>3, <2>4, <2>5 DEF FramingInv
<1> QED
  BY <1>1, <1>2, <1>3, <1>4, <1>5, <1>6, <1>7 DEF FramingNext

THEOREM FramingInvariant == FramingSpec => []FramingInv
<1>1. FramingInit => FramingInv
  BY InvInit
<1>2. FramingInv /\ [FramingNext]_framingVars => FramingInv'
  BY FramingInvNext
<1> QED
  BY <1>1, <1>2, PTL DEF FramingSpec

\* The fields keep their widths, the server's fixed buffer holds whatever it is
\* reading, and the client's loop leaves no whole frame in its buffer.
THEOREM FramingTypeCorrect == FramingSpec => []FramingTypeOK
<1>1. ASSUME FramingInv PROVE FramingTypeOK
  <2>1. Types /\ BufferInv
    BY <1>1 DEF FramingInv
  <2>2. asked \in Seq(Messages) /\ posted \in Seq(Messages) /\ handled \in Seq(Messages)
    BY <2>1, AskedFits DEF Types
  <2>3. replied \in Seq(Messages)
    <3>1. Sendable \subseteq Messages /\ replied \in Seq(Sendable)
      BY <2>1 DEF Types, Sendable
    <3> QED
      BY <3>1
  <2>4. /\ up \in Seq(Byte) /\ down \in Seq(Byte)
        /\ session \in [open: BOOLEAN, at: {"head", "body"}, got: Seq(Byte),
                        id: 0 .. MAX_LENGTH, len: 0 .. Width \div 2 - 1]
        /\ tcp \in [connected: BOOLEAN, buffer: Seq(Byte), pending: BOOLEAN, id: 0 .. Width - 1,
                    len: 0 .. Width - 1, loop: BOOLEAN]
        /\ sends \in 0 .. MaxSends /\ conns \in 0 .. MaxConns /\ stale \in BOOLEAN
    BY <2>1 DEF Types
  <2>5. /\ session.at = "body" => session.len <= MAX_LENGTH
        /\ Len(session.got) <= session.len
        /\ ~tcp.loop => Len(tcp.buffer) < IF tcp.pending THEN tcp.len ELSE HEAD_TOTAL_LEN
    BY <2>1 DEF BufferInv
  <2>6. \A h \in {asked, posted, replied, handled} : h \in Seq(Messages)
    BY <2>2, <2>3
  <2> QED
    BY <2>4, <2>5, <2>6 DEF FramingTypeOK
<1> QED
  BY <1>1, FramingInvariant, PTL

\* Wherever TCP cuts the stream, CSession posts the requests of the connection
\* unchanged and in order.
THEOREM RequestsArriveInOrder == FramingSpec => []ServerReceives
<1>1. ASSUME FramingInv PROVE ServerReceives
  <2> DEFINE p == Len(posted)
             s == Take(asked, p)
  <2>1. /\ asked \in Seq(Messages) /\ posted \in Seq(Messages) /\ Len(posted) <= Len(asked)
        /\ \A i \in 1 .. Len(posted) : posted[i] = asked[i]
    BY <1>1, AskedFits DEF FramingInv, Types, ServerInv
  <2>2. p \in Nat /\ Len(asked) \in Nat /\ p \in 0 .. Len(asked)
    BY <2>1
  <2>3. s \in Seq(Messages) /\ Len(s) = p /\ \A i \in 1 .. p : s[i] = asked[i]
    BY <2>1, <2>2 DEF Take
  <2> HIDE DEF s
  <2>4. \A i \in 1 .. Len(posted) : posted[i] = s[i]
    BY <2>1, <2>3
  <2>5. posted = s
    BY <2>1, <2>3, <2>4, SeqEqual
  <2> QED
    BY <2>1, <2>5 DEF ServerReceives, IsPrefixOf, s
<1> QED
  BY <1>1, FramingInvariant, PTL

\* TcpMgr hands over the replies of the connection in order, each unchanged
\* unless it is longer than its length field can tell.
THEOREM RepliesArriveInOrder == FramingSpec => []ClientReceives
<1>1. ASSUME FramingInv PROVE ClientReceives
  <2>1. SUFFICES ASSUME ~stale PROVE ClientReceives
    BY DEF ClientReceives
  <2>2. /\ Len(handled) <= Len(replied) /\ replied \in Seq(Sendable) /\ handled \in Seq(Messages)
        /\ \A i \in 1 .. Len(handled) : handled[i] = [id |-> replied[i].id, body |-> BodyOf(replied[i])]
    BY <1>1, <2>1 DEF FramingInv, Types, ClientInv
  <2>3. ASSUME NEW i \in 1 .. Len(handled)
        PROVE  /\ handled[i].id = replied[i].id
               /\ IsPrefixOf(handled[i].body, replied[i].body)
               /\ Len(replied[i].body) < Width => handled[i] = replied[i]
    <3> DEFINE m == replied[i]
    <3>1. i \in 1 .. Len(replied)
      BY <2>2
    <3>2. m \in Sendable
      BY <2>2, <3>1
    <3>3. handled[i] = [id |-> m.id, body |-> BodyOf(m)]
      BY <2>2
    <3> HIDE DEF m
    <3>4. /\ Len(BodyOf(m)) = Short(Len(m.body)) /\ Len(BodyOf(m)) \in 0 .. Len(m.body)
          /\ Len(m.body) < Width => BodyOf(m) = m.body
      BY <3>2, BodyLength
    <3>5. m = [id |-> m.id, body |-> m.body]
      BY <3>2 DEF Sendable, Messages
    <3>6. IsPrefixOf(BodyOf(m), m.body)
      BY <3>4 DEF IsPrefixOf, BodyOf
    <3>7. handled[i].id = m.id /\ handled[i].body = BodyOf(m)
      BY <3>3
    <3>8. Len(m.body) < Width => handled[i] = m
      BY <3>3, <3>4, <3>5
    <3> QED
      BY <3>6, <3>7, <3>8 DEF m
  <2> QED
    BY <2>2, <2>3 DEF ClientReceives
<1> QED
  BY <1>1, FramingInvariant, PTL
=============================================================================
