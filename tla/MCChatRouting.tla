---------------------------- MODULE MCChatRouting ----------------------------
(* Model checking of ChatRouting.  Servers and sessions are                *)
(* interchangeable; all runs check safety only.                            *)
EXTENDS ChatRouting, TLC

Symmetry == Permutations(Servers) \cup Permutations(Sessions)
=============================================================================
