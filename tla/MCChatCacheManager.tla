------------------------- MODULE MCChatCacheManager -------------------------
(* ChatCacheManager for TLC. *)
EXTENDS ChatCacheManager, TLC

\* The messages are interchangeable.
Symmetry == Permutations(Msgs)
=============================================================================
