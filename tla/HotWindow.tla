------------------------------ MODULE HotWindow ------------------------------
(***************************************************************************)
(* What the timestamps decide (src/engine.cpp): how much of a ring a pass   *)
(* of EvictSensor takes, which bounds the block it writes carries, and what *)
(* RehydrateSensorRing brings back into the ring when an engine with        *)
(* recover_hot_window = 1 is opened again.                                  *)
(*                                                                          *)
(* Calls are whole here (SensorRing and ColdTier interleave them), and the  *)
(* engine has one sensor.                                                   *)
(***************************************************************************)
EXTENDS Integers, Sequences, SequencesExt, FiniteSetsExt

CONSTANTS
    Capacity,       \* ring_capacity
    Times,          \* the timestamps of entries, and the cutoffs of Open
    MinTime, MaxTime,   \* the limits of int64, shifted to be naturals
    Windows,        \* the values of window_duration_ms; 0 evicts everything
    InOrder,        \* the producer appends in timestamp order
    MaxAppends,     \* bound on the entries
    MaxOpens,       \* bound on Open calls
    MaxRot          \* bound on blocks that become unreadable

ASSUME CapacityAssumption == Capacity \in Nat \ {0}
ASSUME LimitsAssumption == MinTime \in Nat /\ MaxTime \in Nat
ASSUME TimesAssumption == Times \subseteq MinTime .. MaxTime /\ Windows \subseteq Nat
ASSUME BoundsAssumption == {MaxAppends, MaxOpens, MaxRot} \subseteq Nat
ASSUME InOrderAssumption == InOrder \in BOOLEAN

VARIABLES
    recover,        \* cfg_.recover_hot_window
    window,         \* cfg_.window_duration_ms
    savedWindow,    \* the one in the metadata
    ring,           \* the ring from tail to head
    appended,       \* the number of entries so far
    latest,         \* the timestamp of the newest
    scratch,        \* evict_scratch_.timestamps: grows, never shrinks
    blocks,         \* the blocks by id
    opens, rotten   \* Open calls and unreadable blocks so far

cfgVars   == <<recover, window, savedWindow>>
boundVars == <<opens, rotten>>
vars == <<cfgVars, ring, appended, latest, scratch, blocks, boundVars>>

Never == -1
Entry(n, t) == [n |-> n, ts |-> t]
HotOnly(seq, cutoff) ==
    LET upTo[k \in 0 .. Len(seq)] ==
            IF k = 0 THEN <<>>
            ELSE IF seq[k].ts >= cutoff THEN Append(upTo[k - 1], seq[k]) ELSE upTo[k - 1]
    IN upTo[Len(seq)]

Init ==
    /\ recover \in BOOLEAN
    /\ window \in Windows \ {0} /\ savedWindow = window
    /\ ring = <<>>
    /\ appended = 0 /\ latest = Never
    /\ scratch = <<>>
    /\ blocks = <<>>
    /\ opens = 0 /\ rotten = 0

-----------------------------------------------------------------------------
(* Append *)

AppendedTo_Unbounded(r, e) == r \o <<e>>

\* A full ring gives up its oldest entry.
AppendedTo(r, e) == IF Len(r) < Capacity THEN r \o <<e>> ELSE Tail(r) \o <<e>>

AppendEntry(t) ==
    /\ appended < MaxAppends
    /\ InOrder => t >= latest
    /\ ring' = AppendedTo(ring, Entry(appended, t))
    /\ appended' = appended + 1
    /\ latest' = t
    /\ UNCHANGED <<cfgVars, scratch, blocks, boundVars>>

-----------------------------------------------------------------------------
(* EvictSensor *)

\* int64 subtraction as the builds do it (signed overflow is undefined in C++).
Wrapped(t) == MinTime + ((t - MinTime) % (MaxTime - MinTime + 1))

Latest(r) == Max({r[i].ts : i \in DOMAIN r})
Cutoff(r, w) == Wrapped(Latest(r) - w)

LeadingOld_Inclusive(r, cutoff) ==
    Max({k \in 0 .. Len(r) : \A i \in 1 .. k : r[i].ts <= cutoff})

\* The length of the leading run of entries older than the cutoff.
LeadingOld(r, cutoff) ==
    Max({k \in 0 .. Len(r) : \A i \in 1 .. k : r[i].ts < cutoff})

EvictLength(w) ==
    CASE ring = <<>> -> 0
      [] ring # <<>> /\ w = 0 -> Len(ring)
      [] OTHER -> LeadingOld(ring, Cutoff(ring, w))

\* The timestamps are copied over the start of the scratch vector.
CopiedTo(old, rows) ==
    [i \in 1 .. Max({Len(old), Len(rows)}) |->
        IF i <= Len(rows) THEN rows[i].ts ELSE old[i]]

\* Block.t_end_ms is back() of the scratch vector, whatever the count is.
Block(rows, stamps) == [rows |-> rows, tEnd |-> Last(stamps), readable |-> TRUE]

\* The tail is not advanced.
EvictSensor_KeepsTail(w) ==
    /\ EvictLength(w) > 0
    /\ LET rows == SubSeq(ring, 1, EvictLength(w))
       IN /\ scratch' = CopiedTo(scratch, rows)
          /\ blocks' = Append(blocks, Block(rows, scratch'))
    /\ UNCHANGED <<recover, savedWindow, ring, appended, latest, boundVars>>

EvictSensor(w) ==
    /\ EvictLength(w) > 0
    /\ LET rows == SubSeq(ring, 1, EvictLength(w))
       IN /\ scratch' = CopiedTo(scratch, rows)
          /\ blocks' = Append(blocks, Block(rows, scratch'))
    /\ ring' = SubSeq(ring, EvictLength(w) + 1, Len(ring))
    /\ UNCHANGED <<recover, savedWindow, appended, latest, boundVars>>

\* The background pass.
WindowPass == EvictSensor(window) /\ UNCHANGED window

\* Flush leaves the configured window as it is.
Flush == EvictSensor(0) /\ UNCHANGED window

\* The new window is this engine's, not the metadata's.
MaintainSlidingWindow(w) ==
    /\ window' = w
    /\ \/ EvictSensor(w)
       \/ /\ EvictLength(w) = 0
          /\ UNCHANGED <<recover, savedWindow, ring, appended, latest, scratch, blocks,
                         boundVars>>

-----------------------------------------------------------------------------
(* The store and Open *)

\* A stored block no longer passes the checks of decode_block.
Rot(b) ==
    /\ rotten < MaxRot
    /\ b \in DOMAIN blocks /\ blocks[b].readable
    /\ blocks' = [blocks EXCEPT ![b].readable = FALSE]
    /\ rotten' = rotten + 1
    /\ UNCHANGED <<cfgVars, ring, appended, latest, scratch, opens>>

HotRows_All(b, cutoff) == b.rows
HotRows(b, cutoff) == HotOnly(b.rows, cutoff)

\* One round of the loop: a block that cannot be read is skipped; one that ends
\* before the cutoff, or a full ring, makes the function return.
ReplayBlock(replay, b, cutoff) ==
    LET hot == HotRows(b, cutoff)
    IN CASE replay.returned \/ ~b.readable -> replay
         [] OTHER ->
              IF b.tEnd < cutoff \/ Len(replay.ring) + Len(hot) > Capacity
                THEN [replay EXCEPT !.returned = TRUE]
                ELSE [replay EXCEPT !.ring = @ \o hot]

\* The blocks are replayed newest first.
Replay(cutoff) ==
    LET upTo[k \in 0 .. Len(blocks)] ==
            IF k = 0 THEN [ring |-> <<>>, returned |-> FALSE]
                     ELSE ReplayBlock(upTo[k - 1], blocks[Len(blocks) - k + 1], cutoff)
    IN upTo[Len(blocks)]

\* Only the last line of RehydrateSensorRing gives the slot the ring; every
\* return before it leaves the sensor without one.
Rehydrated(cutoff) == IF Replay(cutoff).returned THEN <<>> ELSE Replay(cutoff).ring

\* Close, or a crash after the blocks were synced, and Open. `failed`: a read
\* of the store failed or memory ran out.
Open(cutoff, failed) ==
    /\ opens < MaxOpens
    /\ opens' = opens + 1
    /\ ring' = IF ~recover \/ failed THEN <<>> ELSE Rehydrated(cutoff)
    /\ scratch' = <<>>
    /\ window' = savedWindow
    /\ UNCHANGED <<recover, savedWindow, appended, latest, blocks, rotten>>

-----------------------------------------------------------------------------

Next ==
    \/ \E t \in Times : AppendEntry(t)
    \/ WindowPass
    \/ Flush
    \/ \E w \in Windows : MaintainSlidingWindow(w)
    \/ \E b \in DOMAIN blocks : Rot(b)
    \/ \E cutoff \in Times, failed \in BOOLEAN : Open(cutoff, failed)

Spec == Init /\ [][Next]_vars

-----------------------------------------------------------------------------
(* Properties *)

Entries == [n : Nat, ts : Times]
Persisted == UNION {ToSet(b.rows) : b \in {c \in ToSet(blocks) : c.readable}}
HotPersisted(cutoff) == {e \in Persisted : e.ts >= cutoff}

\* The ring, the scratch and the blocks.
TypeOK ==
    /\ recover \in BOOLEAN
    /\ window \in Windows /\ savedWindow \in Windows \ {0}
    /\ ring \in Seq(Entries) /\ Len(ring) <= Capacity
    /\ appended \in Nat /\ latest \in Times \cup {Never}
    /\ \A b \in ToSet(blocks) :
        /\ b.rows \in Seq(Entries) \ {<<>>}
        /\ b.tEnd \in Times /\ b.readable \in BOOLEAN
    /\ scratch \in Seq(Times)
    /\ opens \in Nat /\ rotten \in Nat

\* A windowed pass leaves every entry that is in the window, and when the ring
\* is in timestamp order nothing else (engine.cpp:1078-1098), as long as the
\* window starts within int64: before that the cutoff (1082) is in the future.
PassKeepsTheWindow ==
    [][window # 0 /\ WindowPass /\ Latest(ring) - window >= MinTime =>
        LET hot == HotOnly(ring, Latest(ring) - window)
        IN /\ ToSet(hot) \subseteq ToSet(ring')
           /\ IsSorted(ring, LAMBDA d, e : d.ts <= e.ts) => ring' = hot]_vars

\* What RehydrateSensorRing puts into the ring is hot and was stored, and if it
\* puts anything there it is all that is hot and can be read
\* (engine.cpp:1242-1317).
RestoresAllOrNothing ==
    [][\A cutoff \in Times, failed \in BOOLEAN :
        Open(cutoff, failed) => ring' = <<>> \/ ToSet(ring') = HotPersisted(cutoff)]_vars

\* No entry is stored twice as long as rings start out empty: the tail moves
\* past exactly what was copied (engine.cpp:1124-1144).
PersistedOnce ==
    recover \/ \A a, b \in DOMAIN blocks :
        \A i \in DOMAIN blocks[a].rows, j \in DOMAIN blocks[b].rows :
            blocks[a].rows[i].n = blocks[b].rows[j].n => a = b /\ i = j

\* Block.t_end_ms is the maximum timestamp of the block (storage_backend.h:59).
BlockEndIsMax ==
    \A b \in ToSet(blocks) : b.tEnd = Max({e.ts : e \in ToSet(b.rows)})

\* With recover_hot_window = 1 the persisted entries fresh enough are in the
\* ring after Open (test_engine.cpp:1225-1228), if there is room for them all.
HotEntriesComeBack ==
    [][\A cutoff \in Times :
        recover /\ Open(cutoff, FALSE) =>
            LET hot == HotPersisted(cutoff)
            IN Cardinality(hot) <= Capacity => hot \subseteq ToSet(ring')]_vars

=============================================================================
