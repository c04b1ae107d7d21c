---------------------------- MODULE MCSensorRing ----------------------------
(* Small instances of SensorRing for TLC. *)
EXTENDS SensorRing

CONSTANT r1
=============================================================================
