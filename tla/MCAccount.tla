------------------------------ MODULE MCAccount ------------------------------
(* Model checking of Account.  Everything but the None value is            *)
(* interchangeable; all runs check safety only.                            *)
EXTENDS Account, TLC

Symmetry ==
  Permutations(Emails) \cup Permutations(Names) \cup Permutations(Passwords)
    \cup Permutations(Codes) \cup Permutations(Requests) \cup Permutations(Posts)
=============================================================================
