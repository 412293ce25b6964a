-------------------------- MODULE MCStatusRegistry --------------------------
(* Model checking of StatusRegistry; a tick is five seconds.               *)
EXTENDS StatusRegistry
=============================================================================
