----------------------------- MODULE MCFraming -----------------------------
(* Framing for TLC: a field of two digits of base 4 has 16 values, a short  *)
(* -8 .. 7.                                                                 *)
EXTENDS Framing

Fill(n) == [i \in 1 .. n |-> i % 2]

\* Empty, of the greatest length, and beyond it.
MCRequests == {[id |-> 1, body |-> Fill(n)] : n \in {0, 2, 3}}

\* Empty, of the greatest length that can be sent, too long with and without
\* Defer, and beyond the field.
MCReplies ==
  {[id |-> 1, body |-> Fill(n), deferred |-> FALSE] : n \in {0, 3, 4, 18}}
    \cup {[id |-> 2, body |-> Fill(9), deferred |-> TRUE]}
=============================================================================
