----------------------------- MODULE MCCSession -----------------------------
(* Model checking of CSession: two payloads, a queue limit of one and      *)
(* frames that the socket takes in two pieces.                             *)
EXTENDS CSession
=============================================================================
