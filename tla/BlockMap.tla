------------------------------- MODULE BlockMap -------------------------------
(***************************************************************************)
(* What the cold tier promises to the engine, without keys, bytes or        *)
(* ranges: a map from sensors and block ids to blocks                       *)
(* (src/include/chronosv/storage_backend.h), and a counter per sensor of    *)
(* the running engine that gives the next block its id.                     *)
(***************************************************************************)
EXTENDS Integers, FiniteSets, FiniteSetsExt, Functions

CONSTANTS
    Contents,       \* the blocks an engine may store
    Unreadable      \* what reading a damaged block answers

VARIABLES
    blocks,         \* blocks by sensor and id
    next            \* next id by sensor of the running engine

vars == <<blocks, next>>

IdsOf(s) == {p[2] : p \in {q \in DOMAIN blocks : q[1] = s}}
StoredSensors == {p[1] : p \in DOMAIN blocks}
NextId(s) == IF s \in DOMAIN next THEN next[s] ELSE 0

Init == blocks = <<>> /\ next = <<>>

\* A block is what was written, under the sensor's next id, and no other block
\* is touched.
Store ==
    \E s \in DOMAIN next' :
        LET p == <<s, NextId(s)>>
        IN /\ next' = [r \in DOMAIN next \cup {s} |-> IF r = s THEN NextId(s) + 1 ELSE next[r]]
           /\ DOMAIN blocks' = DOMAIN blocks \cup {p}
           /\ \A q \in DOMAIN blocks' \ {p} : blocks'[q] = blocks[q]
           /\ blocks'[p] \in Contents

\* Every block of the sensor goes, and no other.
Drop ==
    \E s \in DOMAIN next :
        /\ next' = RestrictDomain(next, LAMBDA r : r # s)
        /\ blocks' = RestrictDomain(blocks, LAMBDA p : p[1] # s)

\* A damaged block is noticed by whoever reads it.
Spoil ==
    /\ UNCHANGED next
    /\ \E p \in DOMAIN blocks : blocks' = [blocks EXCEPT ![p] = Unreadable]

\* A new engine knows no sensor; a reopened one those with a block, and goes on
\* after the last of them.
StartEmpty == next' = <<>> /\ UNCHANGED blocks
StartSeeded ==
    /\ next' = [s \in StoredSensors |-> Max(IdsOf(s)) + 1]
    /\ UNCHANGED blocks

Next == Store \/ Drop \/ Spoil \/ StartEmpty \/ StartSeeded

Spec == Init /\ [][Next]_vars

=============================================================================
