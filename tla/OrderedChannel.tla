--------------------------- MODULE OrderedChannel ---------------------------
(***************************************************************************)
(* What a session's send path promises its callers, with no queue, mutex   *)
(* or socket in sight: messages accepted by send are handed to the         *)
(* connection whole, once each and in acceptance order, until the          *)
(* connection breaks.  "The queue guarantees the order of asynchronous     *)
(* sending" (ChatServer/CSession.h:73).  CSession implements it.           *)
(***************************************************************************)
EXTENDS Naturals, Sequences

CONSTANT Msgs

VARIABLES sent,       \* every message send accepted, oldest first
          delivered,  \* how many of them are completely on the connection
          up          \* the connection still works

cvars == <<sent, delivered, up>>

ChannelInit ==
  /\ sent = <<>>
  /\ delivered = 0
  /\ up = TRUE

\* send does not look at the state of the connection.
Accept(m) ==
  /\ sent' = Append(sent, m)
  /\ UNCHANGED <<delivered, up>>

\* The oldest undelivered message gets through: there is no other choice.
Deliver ==
  /\ up
  /\ delivered < Len(sent)
  /\ delivered' = delivered + 1
  /\ UNCHANGED <<sent, up>>

Break ==
  /\ up' = FALSE
  /\ UNCHANGED <<sent, delivered>>

ChannelNext == (\E m \in Msgs : Accept(m)) \/ Deliver \/ Break

ChannelSafety == ChannelInit /\ [][ChannelNext]_cvars

\* An accepted message is delivered unless the connection breaks first.
ChannelSpec == ChannelSafety /\ WF_cvars(Deliver)
=============================================================================
