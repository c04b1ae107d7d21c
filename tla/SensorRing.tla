------------------------------ MODULE SensorRing ------------------------------
(***************************************************************************)
(* One sensor's lock-free ring (include/chronosv/ring_buffer.h) with its   *)
(* three kinds of clients: the sensor's one producer thread (Append), the  *)
(* one eviction pass the engine lets run at a time (EvictSensor) and the   *)
(* query threads (QueryRange, QueryNearestN, DetectAnomaly).               *)
(*                                                                         *)
(* An entry is named by its virtual index: entry i is what the i-th call   *)
(* of Append wrote.  A slot keeps its timestamp, one aligned 8-byte word,  *)
(* apart from its body: vector, norm, scale and payload, which memcpy      *)
(* writes in pieces, so that for a while the slot's body is of no entry    *)
(* (Torn).  Slots are not protected by any lock; a client reads one field  *)
(* of one slot at a time and sees what is there at that moment.            *)
(*                                                                         *)
(* Atomic loads and stores take effect in one order, and a thread's slot   *)
(* writes in program order (what acquire and release give on x86-64).      *)
(***************************************************************************)
EXTENDS Integers, FiniteSets

CONSTANTS
    Capacity,       \* slots of the ring, a power of two >= 64 in the code
    MaxAppends,     \* bound on the number of Append calls
    Readers         \* query threads

ASSUME CapacityAssumption == Capacity \in Nat \ {0}
ASSUME MaxAppendsAssumption == MaxAppends \in Nat

VARIABLES
    head,           \* entries published so far
    tail,           \* first entry eviction has not taken
    ts,             \* slot -> entry whose timestamp is in the slot
    body,           \* slot -> entry whose vector, norm, scale, payload are in it
    overwritten,    \* entries counted by overwritten_entries_ and overwrite_events_
    ppc,            \* the producer's next step
    epc,            \* the eviction pass's next step
    ebegin, eend,   \* its interval of the ring
    ecur, ets,      \* the entry being copied, and the timestamp copied for it
    scratch,        \* evict_scratch_: what the pass copied so far
    evicted,        \* what all passes copied out and then dropped from the ring
    rpc,            \* each query's next step
    rbegin, rend,   \* its interval of the ring
    rcur,           \* the row it is at
    got             \* what it has read: which field, for which entry, whose

slotVars    == <<ts, body>>
evictorVars == <<epc, ebegin, eend, ecur, ets, scratch>>
readerVars  == <<rpc, rbegin, rend, rcur, got>>
vars == <<head, tail, slotVars, overwritten, ppc, evictorVars, evicted, readerVars>>

Slots == 0 .. Capacity - 1
Slot(i) == i % Capacity

Torn  == -1     \* a body some bytes of which are of another entry
Blank == -2     \* a slot never written

Entry == Nat \cup {Torn, Blank}

\* A row copied out for entry `at`, its timestamp and body read separately.
Copy(i, t, b) == [at |-> i, ts |-> t, body |-> b]
Intact(i) == Copy(i, i, i)

\* One field read by a query for entry `at`.
Sight(f, i, e) == [field |-> f, at |-> i, saw |-> e]

Init ==
    /\ head = 0 /\ tail = 0
    /\ ts = [s \in Slots |-> Blank]
    /\ body = [s \in Slots |-> Blank]
    /\ overwritten = {}
    /\ ppc = "idle"
    /\ epc = "idle" /\ ebegin = 0 /\ eend = 0 /\ ecur = 0 /\ ets = Blank
    /\ scratch = {} /\ evicted = {}
    /\ rpc = [r \in Readers |-> "idle"]
    /\ rbegin = [r \in Readers |-> 0]
    /\ rend = [r \in Readers |-> 0]
    /\ rcur = [r \in Readers |-> 0]
    /\ got = [r \in Readers |-> {}]

-----------------------------------------------------------------------------
(* The producer: SensorRing::Append, one step per visible effect. *)

\* The slot about to be written still holds an entry eviction has not taken.
Overfull_OnlyBeyondCapacity == head - tail > Capacity
Overfull == head - tail >= Capacity

AppendBegin ==
    /\ ppc = "idle"
    /\ head < MaxAppends
    /\ overwritten' = IF Overfull THEN overwritten \cup {head - Capacity}
                                  ELSE overwritten
    /\ ppc' = "ts"
    /\ UNCHANGED <<head, tail, slotVars, evictorVars, evicted, readerVars>>

AppendTimestamp ==
    /\ ppc = "ts"
    /\ ts' = [ts EXCEPT ![Slot(head)] = head]
    /\ ppc' = "body"
    /\ UNCHANGED <<head, tail, body, overwritten, evictorVars, evicted, readerVars>>

AppendBodyStart ==
    /\ ppc = "body"
    /\ body' = [body EXCEPT ![Slot(head)] = Torn]
    /\ ppc' = "half"
    /\ UNCHANGED <<head, tail, ts, overwritten, evictorVars, evicted, readerVars>>

AppendBodyEnd ==
    /\ ppc = "half"
    /\ body' = [body EXCEPT ![Slot(head)] = head]
    /\ ppc' = "publish"
    /\ UNCHANGED <<head, tail, ts, overwritten, evictorVars, evicted, readerVars>>

AppendPublish ==
    /\ ppc = "publish"
    /\ head' = head + 1
    /\ ppc' = "idle"
    /\ UNCHANGED <<tail, slotVars, overwritten, evictorVars, evicted, readerVars>>

Producer ==
    \/ AppendBegin
    \/ AppendTimestamp
    \/ AppendBodyStart
    \/ AppendBodyEnd
    \/ AppendPublish

-----------------------------------------------------------------------------
(* SensorRing::Snapshot: tail is loaded first, head in a later step. *)

SnapshotBegin_AlwaysClamped(t, h) == h - Capacity
SnapshotBegin_Unclamped(t, h) == t
SnapshotBegin(t, h) == IF h - t > Capacity THEN h - Capacity ELSE t

SnapshotEnd_PastHead(h) == h + 1
SnapshotEnd(h) == h

-----------------------------------------------------------------------------
(* The eviction pass over this ring: Engine::EvictSensor.  Which prefix of *)
(* the snapshot is old enough depends on the timestamps, which are the     *)
(* caller's: any non-empty prefix may be.  Flush (window 0) takes it all.  *)

EvictLoadTail ==
    /\ epc = "idle"
    /\ ebegin' = tail
    /\ epc' = "head"
    /\ UNCHANGED <<head, tail, slotVars, overwritten, ppc, eend, ecur, ets, scratch,
                   evicted, readerVars>>

EvictLoadHead ==
    /\ epc = "head"
    /\ ebegin' = SnapshotBegin(ebegin, head)
    /\ eend' = SnapshotEnd(head)
    /\ epc' = IF ebegin' = eend' THEN "idle" ELSE "split"
    /\ UNCHANGED <<head, tail, slotVars, overwritten, ppc, ecur, ets, scratch,
                   evicted, readerVars>>

\* AdvanceTail before the copy: the producer may reuse slots not yet copied.
EvictSplit_AdvancesTail ==
    /\ epc = "split"
    /\ \E split \in ebegin .. eend :
        /\ eend' = split
        /\ ecur' = ebegin
        /\ epc' = IF split = ebegin THEN "idle" ELSE "ts"
        /\ tail' = split
    /\ UNCHANGED <<head, slotVars, overwritten, ppc, ebegin, ets, scratch,
                   evicted, readerVars>>

\* The leading run of entries older than the cutoff ends at `split`.
EvictSplit ==
    /\ epc = "split"
    /\ \E split \in ebegin .. eend :
        /\ eend' = split
        /\ ecur' = ebegin
        /\ epc' = IF split = ebegin THEN "idle" ELSE "ts"
    /\ UNCHANGED <<head, tail, slotVars, overwritten, ppc, ebegin, ets, scratch,
                   evicted, readerVars>>

EvictCopyTimestamp ==
    /\ epc = "ts"
    /\ ets' = ts[Slot(ecur)]
    /\ epc' = "body"
    /\ UNCHANGED <<head, tail, slotVars, overwritten, ppc, ebegin, eend, ecur, scratch,
                   evicted, readerVars>>

EvictCopyBody ==
    /\ epc = "body"
    /\ scratch' = scratch \cup {Copy(ecur, ets, body[Slot(ecur)])}
    /\ ecur' = ecur + 1
    /\ epc' = IF ecur' = eend THEN "advance" ELSE "ts"
    /\ UNCHANGED <<head, tail, slotVars, overwritten, ppc, ebegin, eend, ets,
                   evicted, readerVars>>

\* The whole snapshot is dropped although only the split was copied.
EvictAdvanceTail_ToHead ==
    /\ epc = "advance"
    /\ tail' = head
    /\ evicted' = evicted \cup scratch
    /\ scratch' = {}
    /\ epc' = "idle"
    /\ UNCHANGED <<head, slotVars, overwritten, ppc, ebegin, eend, ecur, ets, readerVars>>

EvictAdvanceTail ==
    /\ epc = "advance"
    /\ tail' = eend
    /\ evicted' = evicted \cup scratch
    /\ scratch' = {}
    /\ epc' = "idle"
    /\ UNCHANGED <<head, slotVars, overwritten, ppc, ebegin, eend, ecur, ets, readerVars>>

Evictor ==
    \/ EvictLoadTail
    \/ EvictLoadHead
    \/ EvictSplit
    \/ EvictCopyTimestamp
    \/ EvictCopyBody
    \/ EvictAdvanceTail

-----------------------------------------------------------------------------
(* The queries.  QueryRange reads row by row: a timestamp, then, if it is  *)
(* in the asked range, the body.  QueryNearestN scores every body and only *)
(* afterwards reads the timestamps of the rows it ranked best, in that     *)
(* order; DetectAnomaly stops after the bodies.                            *)

QueryLoadTail(r) ==
    /\ rpc[r] = "idle"
    /\ rbegin' = [rbegin EXCEPT ![r] = tail]
    /\ rpc' = [rpc EXCEPT ![r] = "head"]
    /\ UNCHANGED <<head, tail, slotVars, overwritten, ppc, evictorVars, evicted,
                   rend, rcur, got>>

QueryLoadHead(r) ==
    /\ rpc[r] = "head"
    /\ LET begin == SnapshotBegin(rbegin[r], head)
           end   == SnapshotEnd(head)
       IN /\ rbegin' = [rbegin EXCEPT ![r] = begin]
          /\ rend' = [rend EXCEPT ![r] = end]
          /\ rcur' = [rcur EXCEPT ![r] = begin]
          /\ \E pc \in IF begin = end THEN {"idle"} ELSE {"row", "score"} :
                rpc' = [rpc EXCEPT ![r] = pc]
    /\ UNCHANGED <<head, tail, slotVars, overwritten, ppc, evictorVars, evicted, got>>

See(r, sight) == got' = [got EXCEPT ![r] = @ \cup {sight}]

\* Go on with the next entry, or with `done` after the last.
NextRow(r, step, done) ==
    /\ rcur' = [rcur EXCEPT ![r] = @ + 1]
    /\ rpc' = [rpc EXCEPT ![r] = IF rcur[r] + 1 = rend[r] THEN done ELSE step]

\* The row is in the range and its vector is copied, or it is passed over.
QueryRangeTimestamp(r) ==
    /\ rpc[r] = "row"
    /\ See(r, Sight("ts", rcur[r], ts[Slot(rcur[r])]))
    /\ \/ /\ rpc' = [rpc EXCEPT ![r] = "rowbody"]
          /\ UNCHANGED rcur
       \/ NextRow(r, "row", "return")
    /\ UNCHANGED <<head, tail, slotVars, overwritten, ppc, evictorVars, evicted,
                   rbegin, rend>>

\* The loop ends early when `max` rows have been written.
QueryRangeBody(r) ==
    /\ rpc[r] = "rowbody"
    /\ See(r, Sight("body", rcur[r], body[Slot(rcur[r])]))
    /\ \E step \in {"row", "return"} : NextRow(r, step, "return")
    /\ UNCHANGED <<head, tail, slotVars, overwritten, ppc, evictorVars, evicted,
                   rbegin, rend>>

\* FillScoresForRange, or the mean of DetectAnomaly.
QueryScore(r) ==
    /\ rpc[r] = "score"
    /\ See(r, Sight("body", rcur[r], body[Slot(rcur[r])]))
    /\ NextRow(r, "score", "rank")
    /\ UNCHANGED <<head, tail, slotVars, overwritten, ppc, evictorVars, evicted,
                   rbegin, rend>>

QueryRankTimestamp(r) ==
    /\ rpc[r] = "rank"
    /\ \E i \in rbegin[r] .. rend[r] - 1 :
        /\ \A g \in got[r] : ~(g.field = "ts" /\ g.at = i)
        /\ See(r, Sight("ts", i, ts[Slot(i)]))
    /\ UNCHANGED <<head, tail, slotVars, overwritten, ppc, evictorVars, evicted,
                   rpc, rbegin, rend, rcur>>

QueryReturn(r) ==
    /\ rpc[r] \in {"rank", "return"}
    /\ rpc' = [rpc EXCEPT ![r] = "idle"]
    /\ got' = [got EXCEPT ![r] = {}]
    /\ UNCHANGED <<head, tail, slotVars, overwritten, ppc, evictorVars, evicted,
                   rbegin, rend, rcur>>

Query(r) ==
    \/ QueryLoadTail(r)
    \/ QueryLoadHead(r)
    \/ QueryRangeTimestamp(r)
    \/ QueryRangeBody(r)
    \/ QueryScore(r)
    \/ QueryRankTimestamp(r)
    \/ QueryReturn(r)

-----------------------------------------------------------------------------

Next == Producer \/ Evictor \/ \E r \in Readers : Query(r)

Spec == Init /\ [][Next]_vars

-----------------------------------------------------------------------------
(* Properties *)

Fields == {"ts", "body"}
Copies == [at : Nat, ts : Entry, body : Entry]
Sights == [field : Fields, at : Nat, saw : Entry]

\* Every variable of the ring and its clients has the values the code gives it.
TypeOK ==
    /\ head \in Nat /\ tail \in Nat
    /\ ts \in [Slots -> Entry] /\ body \in [Slots -> Entry]
    /\ overwritten \subseteq Nat
    /\ ppc \in {"idle", "ts", "body", "half", "publish"}
    /\ epc \in {"idle", "head", "split", "ts", "body", "advance"}
    /\ ebegin \in Nat /\ eend \in Nat /\ ecur \in Nat /\ ets \in Entry
    /\ scratch \subseteq Copies /\ evicted \subseteq Copies
    /\ rpc \in [Readers -> {"idle", "head", "row", "rowbody", "score", "rank", "return"}]
    /\ rbegin \in [Readers -> Nat] /\ rend \in [Readers -> Nat]
    /\ rcur \in [Readers -> Nat]
    /\ got \in [Readers -> SUBSET Sights]

\* The canary of chronosv_stats_t (types.h:173-178): an entry that has left the
\* ring was copied out whole by eviction (EvictSensor, copy before AdvanceTail),
\* or overwritten_entries counted it (Append).  Nothing is lost silently.
NoSilentLoss ==
    \A i \in 0 .. tail - 1 : i \in overwritten \/ Intact(i) \in evicted

\* While the overwrite counters are zero, eviction has moved exactly the entries
\* below tail out of the ring, each once and each whole.
LosslessWhileNotFull ==
    overwritten = {} => evicted = {Intact(i) : i \in 0 .. tail - 1}

\* What head-based re-checking (tests/test_ring_buffer.cpp:227-232) may rely on:
\* a field read for entry i is entry i's as long as head < i + capacity.
CleanUnlessLapped ==
    \A r \in Readers : \A g \in got[r] : head < g.at + Capacity => g.saw = g.at

\* A query that was lapped sees later entries of the same slot or a half-written
\* body, never an entry older than the one it asked for.
LappedReadsAreNewer ==
    \A r \in Readers : \A g \in got[r] :
        g.saw = Torn \/ (g.saw >= g.at /\ Slot(g.saw) = Slot(g.at))

\* A window never spans more entries than the ring has slots: FillScoresForRange
\* and DetectAnomaly cut it into at most two runs of distinct slots.
WindowFits ==
    /\ epc \in {"split", "ts", "body", "advance"} => eend - ebegin \in 0 .. Capacity
    /\ \A r \in Readers :
        rpc[r] \in {"row", "rowbody", "score", "rank"} => rend[r] - rbegin[r] \in 1 .. Capacity

\* AdvanceTail's contract (ring_buffer.h:232-233): the new tail is not below the
\* current one and not beyond head.
TailAdvances == [][tail' >= tail /\ tail' <= head']_vars

\* The ring with its producer and eviction pass implements SlidingLog: a copy
\* counts as archived when it is whole, whatever interleaving made it.
Log == INSTANCE SlidingLog WITH
    hi <- head, lo <- tail, lost <- overwritten,
    archive <- {i \in 0 .. tail - 1 : Intact(i) \in evicted}
ImplementsSlidingLog == Log!Spec

\* EvictScratch's promise (engine.cpp:271-274): the producer cannot corrupt a
\* block that eviction copies out.
BlocksUncorrupted == \A c \in evicted : c = Intact(c.at)

=============================================================================
