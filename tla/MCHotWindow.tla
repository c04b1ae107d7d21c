----------------------------- MODULE MCHotWindow -----------------------------
(* Small instances of HotWindow for TLC. *)
EXTENDS HotWindow
=============================================================================
