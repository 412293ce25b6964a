----------------------------- MODULE MCMySQLDao -----------------------------
(* MySQLDao for TLC. *)
EXTENDS MySQLDao
=============================================================================
