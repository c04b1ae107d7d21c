----------------------------- MODULE MCColdTier -----------------------------
(* Small instances of ColdTier for TLC. *)
EXTENDS ColdTier, TLC

CONSTANTS c1, c2

CallerSymmetry == Permutations({c1, c2})
=============================================================================
