------------------------------ MODULE CSession ------------------------------
(***************************************************************************)
(* The send path of one client connection of the chat server               *)
(* (ChatServer/CSession.cpp).  Threads of the logic pool call send; the    *)
(* io thread of the session's io_context runs the read handlers and        *)
(* handleWrite.  _send_mutex makes send and the success branch of          *)
(* handleWrite atomic with respect to each other; everything else          *)
(* interleaves.  An asio::async_write is a composed operation: it writes   *)
(* its frame in FRAGS pieces and only then is its handler queued, so two   *)
(* operations outstanding on one socket would mix their bytes.             *)
(***************************************************************************)
EXTENDS Naturals, Sequences

CONSTANTS
  Msgs,         \* payloads
  MAX_SENDQUE,  \* const.h: MAX_SENDQUE
  FRAGS,        \* pieces in which the socket takes one frame
  MaxAccepted   \* bound: messages accepted in a behaviour

ASSUME CSessionAssumption ==
  /\ MAX_SENDQUE \in Nat
  /\ FRAGS \in Nat \ {0}
  /\ MaxAccepted \in Nat

VARIABLES
  sendQueue,    \* _send_queue
  writes,       \* async_write operations whose handler has not run
  started,      \* how many async_writes were started (names operations)
  open,         \* the socket is open; its negation also is _b_close
  reading,      \* a read operation is outstanding
  accepted,     \* history: messages pushed by send, oldest first
  wire          \* history: the pieces the socket took

vars == <<sendQueue, writes, started, open, reading, accepted, wire>>

Write == [op: Nat, msg: Msgs, pos: 0 .. FRAGS, result: {"pending", "ok", "error"}]
Piece == [msg: Msgs, part: 1 .. FRAGS]

TypeOK ==
  /\ sendQueue \in Seq(Msgs)
  /\ writes \subseteq Write
  /\ started \in 0 .. Len(accepted)   \* at most one async_write per message
  /\ open \in BOOLEAN
  /\ reading \in BOOLEAN
  /\ accepted \in Seq(Msgs)
  /\ wire \in Seq(Piece)

\* handleAccept has called start(): the first header read is outstanding.
Init ==
  /\ sendQueue = <<>>
  /\ writes = {}
  /\ started = 0
  /\ open = TRUE
  /\ reading = TRUE
  /\ accepted = <<>>
  /\ wire = <<>>

\* The operation async_write(_socket, buffer(m), handleWrite) starts.
NewWrite(m) == [op |-> started + 1, msg |-> m, pos |-> 0, result |-> "pending"]

(***************************************************************************)
(* Plausible mistakes in send and handleWrite, used only to see that the   *)
(* properties below would notice them.                                     *)
(***************************************************************************)
\* send starts a write although one is already under way.
SendAlwaysWrites(m) ==
  /\ Len(sendQueue) <= MAX_SENDQUE
  /\ Len(accepted) < MaxAccepted
  /\ sendQueue' = Append(sendQueue, m)
  /\ accepted' = Append(accepted, m)
  /\ writes' = writes \cup {NewWrite(m)}
  /\ started' = started + 1
  /\ UNCHANGED <<open, reading, wire>>

\* send queues without looking at the limit.
SendUnbounded(m) ==
  /\ Len(accepted) < MaxAccepted
  /\ sendQueue' = Append(sendQueue, m)
  /\ accepted' = Append(accepted, m)
  /\ IF Len(sendQueue) > 0
       THEN UNCHANGED <<writes, started>>
       ELSE /\ writes' = writes \cup {NewWrite(m)}
            /\ started' = started + 1
  /\ UNCHANGED <<open, reading, wire>>

\* handleWrite pops the front and forgets to start the next write.
HandleWriteNoRearm(w) ==
  /\ w.result = "ok"
  /\ sendQueue' = Tail(sendQueue)
  /\ writes' = writes \ {w}
  /\ UNCHANGED <<started, open, reading, accepted, wire>>

(***************************************************************************)
(* send: over the limit the message is dropped; otherwise it is queued,    *)
(* and only the thread that found the queue empty starts writing.          *)
(***************************************************************************)
SendDropped ==
  /\ Len(sendQueue) > MAX_SENDQUE
  /\ UNCHANGED vars

SendQueued(m) ==
  /\ Len(sendQueue) <= MAX_SENDQUE
  /\ Len(accepted) < MaxAccepted
  /\ sendQueue' = Append(sendQueue, m)
  /\ accepted' = Append(accepted, m)
  /\ IF Len(sendQueue) > 0
       THEN UNCHANGED <<writes, started>>
       ELSE /\ writes' = writes \cup {NewWrite(m)}
            /\ started' = started + 1
  /\ UNCHANGED <<open, reading, wire>>

(***************************************************************************)
(* asio: the socket takes the next piece of an outstanding operation, or   *)
(* the operation fails (peer reset, or the socket has been closed).        *)
(***************************************************************************)
Advanced(w) ==
  [op |-> w.op, msg |-> w.msg, pos |-> w.pos + 1,
   result |-> IF w.pos + 1 = FRAGS THEN "ok" ELSE "pending"]

WriteSome(w) ==
  /\ open
  /\ w.result = "pending"
  /\ wire' = Append(wire, [msg |-> w.msg, part |-> w.pos + 1])
  /\ writes' = (writes \ {w}) \cup {Advanced(w)}
  /\ UNCHANGED <<sendQueue, started, open, reading, accepted>>

WriteFails(w) ==
  /\ w.result = "pending"
  /\ writes' = (writes \ {w}) \cup {[w EXCEPT !.result = "error"]}
  /\ UNCHANGED <<sendQueue, started, open, reading, accepted, wire>>

(***************************************************************************)
(* handleWrite.  Success pops the front and starts the next write; an      *)
(* error closes the session and leaves the queue as it is.                 *)
(***************************************************************************)
HandleWriteOk(w) ==
  /\ w.result = "ok"
  /\ sendQueue' = Tail(sendQueue)
  /\ IF Tail(sendQueue) # <<>>
       THEN /\ writes' = (writes \ {w}) \cup {NewWrite(Head(Tail(sendQueue)))}
            /\ started' = started + 1
       ELSE /\ writes' = writes \ {w}
            /\ UNCHANGED started
  /\ UNCHANGED <<open, reading, accepted, wire>>

HandleWriteError(w) ==
  /\ w.result = "error"
  /\ writes' = writes \ {w}
  /\ open' = FALSE
  /\ UNCHANGED <<sendQueue, started, reading, accepted, wire>>

\* A read handler gets an error or a malformed header and closes the session.
\* A well-formed frame re-arms the read and leaves this state alone.
ReadFails ==
  /\ reading
  /\ reading' = FALSE
  /\ open' = FALSE
  /\ UNCHANGED <<sendQueue, writes, started, accepted, wire>>

Next ==
  \/ SendDropped
  \/ \E m \in Msgs : SendQueued(m)
  \/ \E w \in writes : WriteSome(w) \/ WriteFails(w)
  \/ \E w \in writes : HandleWriteOk(w) \/ HandleWriteError(w)
  \/ ReadFails

Safety == Init /\ [][Next]_vars

(***************************************************************************)
(* The io thread runs ready handlers, the peer reads (an open socket takes *)
(* the next piece), and an operation on a closed socket completes.         *)
(***************************************************************************)
IoStep == \E w \in writes :
  \/ WriteSome(w)
  \/ ~open /\ WriteFails(w)
  \/ HandleWriteOk(w)
  \/ HandleWriteError(w)

Spec == Safety /\ WF_vars(IoStep)

-----------------------------------------------------------------------------
(***************************************************************************)
(* Properties.                                                             *)
(***************************************************************************)

\* The bytes on the connection are whole frames of the accepted messages, in
\* acceptance order, none skipped, repeated or mixed with another frame,
\* however sends, completions and closes interleave (send, handleWrite).
WireInOrder ==
  /\ Len(wire) <= Len(accepted) * FRAGS
  /\ \A k \in 1 .. Len(accepted), j \in 1 .. FRAGS :
       (k - 1) * FRAGS + j <= Len(wire)
         => wire[(k - 1) * FRAGS + j] = [msg |-> accepted[k], part |-> j]

\* No stall: while the socket is open, a queued message always has a write
\* under way that will pop it or close the session.  send relies on this
\* when it returns without writing because the queue was not empty.
NoStall == open /\ sendQueue # <<>> => writes # {}

\* The queue holds at most one message more than MAX_SENDQUE: the test is
\* "queue_size > MAX_SENDQUE" before the push.
QueueBound == Len(sendQueue) <= MAX_SENDQUE + 1

\* The send path implements the ordered channel: a message is delivered when
\* the last piece of its frame is taken.
Delivered ==
  (Len(accepted) - Len(sendQueue))
    + (IF \E w \in writes : w.result = "ok" THEN 1 ELSE 0)

Channel == INSTANCE OrderedChannel
             WITH sent <- accepted, delivered <- Delivered, up <- open

\* Everything the ordered channel promises, its progress included: an
\* accepted message gets out unless the connection breaks.
ImplementsChannel == Channel!ChannelSpec
=============================================================================
