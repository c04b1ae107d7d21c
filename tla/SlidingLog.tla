------------------------------ MODULE SlidingLog ------------------------------
(***************************************************************************)
(* What a sensor's ring and its eviction pass promise together, with no    *)
(* slots, threads or copies: a log of which the entries lo .. hi-1 are in  *)
(* memory.  The producer never waits.  When it is Capacity entries ahead   *)
(* of lo the oldest one in memory is given up, on record (overwrite        *)
(* counters), before the log grows past it; everything eviction passes     *)
(* over that was not given up is archived.                                 *)
(***************************************************************************)
EXTENDS Integers

CONSTANT Capacity

VARIABLES
    hi,         \* entries appended
    lo,         \* entries the sliding window has left behind
    lost,       \* entries given up, as the overwrite counters count them
    archive     \* entries that reached the eviction pass whole

vars == <<hi, lo, lost, archive>>

Init == hi = 0 /\ lo = 0 /\ lost = {} /\ archive = {}

GiveUp ==
    /\ hi - lo >= Capacity
    /\ lost' = lost \cup {hi - Capacity}
    /\ UNCHANGED <<hi, lo, archive>>

Append ==
    /\ hi - lo >= Capacity => hi - Capacity \in lost
    /\ hi' = hi + 1
    /\ UNCHANGED <<lo, lost, archive>>

Slide ==
    \E upto \in lo + 1 .. hi : \E kept \in SUBSET (lo .. upto - 1) :
        /\ (lo .. upto - 1) \ lost \subseteq kept
        /\ lo' = upto
        /\ archive' = archive \cup kept
        /\ UNCHANGED <<hi, lost>>

Next == GiveUp \/ Append \/ Slide

Spec == Init /\ [][Next]_vars
=============================================================================
