---------------------------- MODULE MCLoadBalance ----------------------------
(* Model checking of LoadBalance.  Chat servers and login handlers are     *)
(* interchangeable; no run that uses the symmetry checks liveness.         *)
EXTENDS LoadBalance, TLC

Symmetry == Permutations(Servers) \cup Permutations(Logins)
==============================================================================
