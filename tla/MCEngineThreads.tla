--------------------------- MODULE MCEngineThreads ---------------------------
(* Small instances of EngineThreads for TLC. *)
EXTENDS EngineThreads

CONSTANTS s1, s2, o1, m1, d1, r1, r2
=============================================================================
