------------------------------- MODULE ColdTier -------------------------------
(***************************************************************************)
(* How entries leave an engine's rings for its RocksDB store and come back *)
(* after a close or a crash: eviction passes of the background thread, of  *)
(* MaintainSlidingWindow and of Flush (src/engine.cpp), WriteBlock, Flush, *)
(* DeleteSensor and the metadata key (src/storage_rocksdb.cpp), Create and *)
(* Open.                                                                   *)
(*                                                                         *)
(* A sensor's ring is the interval lo .. hi-1 of its entries (SlidingLog   *)
(* says why an interval is enough); a block is such an interval under the  *)
(* key (sensor, block id).  Writes are not synced: what a crash may leave  *)
(* behind is any of the states the store went through since the last       *)
(* successful Flush (`images`), because the WAL is replayed in order.      *)
(* Open is modelled with recover_hot_window = 0.                           *)
(***************************************************************************)
EXTENDS Integers, FiniteSets

CONSTANTS
    Sensors,
    Callers,        \* application threads that call Flush
    Worker,         \* eviction passes with the configured window: the
                    \* background thread's and MaintainSlidingWindow's
    RingCapacity,
    MaxAppends,     \* bound on the entries of one sensor
    MaxFailures,    \* bound on failed calls of the store and allocations
    MaxRestarts,    \* bound on Create and Open calls
    PathsFit        \* Create gets a path without an engine's metadata or blocks

ASSUME RingCapacityAssumption == RingCapacity \in Nat \ {0}
ASSUME BoundsAssumption == {MaxAppends, MaxFailures, MaxRestarts} \subseteq Nat
ASSUME PathsFitAssumption == PathsFit \in BOOLEAN
ASSUME WorkerAssumption == Worker \notin Callers

Passers == Callers \cup {Worker}

VARIABLES
    up,             \* an engine is open on the path
    db,             \* the store: metadata present, blocks
    images,         \* the states of the store a crash may leave behind
    slots,          \* sensors in the engine's map
    rings,          \* those whose ring has been allocated
    nextId,         \* next_block_id of each slot
    lo, hi,         \* each sensor's ring
    pc,             \* where each thread is in its pass or Flush
    todo,           \* sensors its pass has not visited
    pend,           \* the block it has copied out and not yet written
    covers,         \* hi when its Flush was called
    deleting,       \* of each sensor, the drops whose DeleteSensor is still to be called
    leftover,       \* sensors whose blocks may be mixed with blocks from before a
                    \* drop: DeleteSensor failed, or they were back before it ran
    failures, restarts,
    guessed,        \* an engine was opened on the path without metadata
    failed,         \* entries a pass could not write
    gone,           \* entries overwritten, dropped, deleted, or in no block after a
                    \* restart
    flushed         \* entries a successful Flush has answered for

storeVars  == <<db, images>>
mapVars    == <<slots, rings, nextId>>
ringVars   == <<lo, hi>>
passVars   == <<pc, todo, pend, covers>>
dropVars   == <<deleting, leftover>>
countVars  == <<failures, restarts>>
ghostVars  == <<guessed, failed, gone, flushed>>
vars == <<up, storeVars, mapVars, ringVars, passVars, dropVars, countVars, ghostVars>>

NoBlock == [id |-> -1]
Block(s, i, f, t) == [sensor |-> s, id |-> i, from |-> f, to |-> t]
WithMetadata(store) == [store EXCEPT !.meta = TRUE]
BlocksOf(store, s) == {b \in store.blocks : b.sensor = s}
StoredSensors(store) == {s \in Sensors : BlocksOf(store, s) # {}}
Held(store, s) == UNION {b.from .. b.to - 1 : b \in BlocksOf(store, s)}

Init ==
    /\ up = FALSE
    /\ db = [meta |-> FALSE, blocks |-> {}]
    /\ images = {db}
    /\ slots = {} /\ rings = {}
    /\ nextId = [s \in Sensors |-> 0]
    /\ lo = [s \in Sensors |-> 0] /\ hi = [s \in Sensors |-> 0]
    /\ pc = [p \in Passers |-> "idle"]
    /\ todo = [p \in Passers |-> {}]
    /\ pend = [p \in Passers |-> NoBlock]
    /\ covers = [p \in Passers |-> [s \in Sensors |-> 0]]
    /\ deleting = [s \in Sensors |-> 0] /\ leftover = {}
    /\ failures = 0 /\ restarts = 0
    /\ guessed = FALSE
    /\ failed = [s \in Sensors |-> {}]
    /\ gone = [s \in Sensors |-> {}]
    /\ flushed = [s \in Sensors |-> {}]

\* An unsynced write.
Write(store) == db' = store /\ images' = images \cup {store}

-----------------------------------------------------------------------------
(* Locks *)

\* A pass holds eviction_pass_mu_ and, shared, map_mutex_.
InPass(p) == pc[p] = "pass"

\* Without eviction_pass_mu_.
PassFree_NoMutex == TRUE
PassFree == \A q \in Passers : ~InPass(q)

\* map_mutex_ can be taken exclusively.
MapFree == \A q \in Passers : ~InPass(q)

-----------------------------------------------------------------------------
(* Ingest *)

\* Append: the sensor's slot and ring are created first if need be
\* (GetOrCreateRing); a full ring gives up its oldest entry. Nothing keeps a
\* producer from recreating a sensor whose blocks are still to be deleted.
Append(s) ==
    /\ up
    /\ hi[s] < MaxAppends
    /\ s \in rings \/ MapFree
    /\ slots' = slots \cup {s}
    /\ rings' = rings \cup {s}
    /\ hi' = [hi EXCEPT ![s] = @ + 1]
    /\ IF hi[s] - lo[s] >= RingCapacity
         THEN /\ lo' = [lo EXCEPT ![s] = @ + 1]
              /\ gone' = [gone EXCEPT ![s] = @ \cup {lo[s]}]
         ELSE UNCHANGED <<lo, gone>>
    /\ leftover' = IF deleting[s] > 0 THEN leftover \cup {s} ELSE leftover
    /\ UNCHANGED <<up, storeVars, nextId, passVars, deleting, countVars, guessed, failed,
                   flushed>>

-----------------------------------------------------------------------------
(* Eviction: EvictOnce and EvictSensor *)

FlushCall(c) ==
    /\ up /\ pc[c] = "idle"
    /\ pc' = [pc EXCEPT ![c] = "wait"]
    /\ covers' = [covers EXCEPT ![c] = hi]
    /\ UNCHANGED <<up, storeVars, mapVars, ringVars, todo, pend, dropVars, countVars,
                   ghostVars>>

PassBegin(p) ==
    /\ up
    /\ pc[p] = IF p = Worker THEN "idle" ELSE "wait"
    /\ PassFree
    /\ pc' = [pc EXCEPT ![p] = "pass"]
    /\ todo' = [todo EXCEPT ![p] = slots]
    /\ UNCHANGED <<up, storeVars, mapVars, ringVars, pend, covers, dropVars, countVars,
                   ghostVars>>

\* The lengths of the prefix a pass may take: a Flush all of it, another pass
\* what is older than the window, which the timestamps decide.
Prefixes(p, n) == IF p = Worker THEN 0 .. n ELSE {n}

\* Snapshot, copy to scratch, AdvanceTail; or nothing to evict.
EvictCopy(p, s) ==
    /\ InPass(p) /\ s \in todo[p] /\ pend[p] = NoBlock
    /\ \E n \in Prefixes(p, hi[s] - lo[s]) :
        IF n = 0
          THEN /\ todo' = [todo EXCEPT ![p] = @ \ {s}]
               /\ UNCHANGED <<lo, pend>>
          ELSE /\ pend' = [pend EXCEPT ![p] = Block(s, nextId[s], lo[s], lo[s] + n)]
               /\ lo' = [lo EXCEPT ![s] = @ + n]
               /\ UNCHANGED todo
    /\ UNCHANGED <<up, storeVars, mapVars, hi, pc, covers, dropVars, countVars, ghostVars>>

\* bad_alloc while the scratch is sized: the ring is skipped, the pass goes on.
EvictNoMemory(p, s) ==
    /\ InPass(p) /\ s \in todo[p] /\ pend[p] = NoBlock
    /\ lo[s] < hi[s]
    /\ failures < MaxFailures
    /\ failures' = failures + 1
    /\ failed' = [failed EXCEPT ![s] = @ \cup (lo[s] .. hi[s] - 1)]
    /\ todo' = [todo EXCEPT ![p] = @ \ {s}]
    /\ UNCHANGED <<up, storeVars, mapVars, ringVars, pc, pend, covers, dropVars, restarts,
                   guessed, gone, flushed>>

\* Put replaces what was stored under the same key.
Put(store, b) ==
    [store EXCEPT !.blocks = {c \in @ : c.sensor # b.sensor \/ c.id # b.id} \cup {b}]

EvictWriteOK(p) ==
    /\ InPass(p) /\ pend[p] # NoBlock
    /\ LET b == pend[p]
       IN /\ Write(Put(db, b))
          /\ nextId' = [nextId EXCEPT ![b.sensor] = @ + 1]
          /\ todo' = [todo EXCEPT ![p] = @ \ {b.sensor}]
    /\ pend' = [pend EXCEPT ![p] = NoBlock]
    /\ UNCHANGED <<up, slots, rings, ringVars, pc, covers, dropVars, countVars, ghostVars>>

\* The id is used up although nothing was stored under it.
EvictWriteFails_AdvancesId(p) ==
    /\ InPass(p) /\ pend[p] # NoBlock
    /\ failures < MaxFailures
    /\ failures' = failures + 1
    /\ LET b == pend[p]
       IN /\ failed' = [failed EXCEPT ![b.sensor] = @ \cup (b.from .. b.to - 1)]
          /\ nextId' = [nextId EXCEPT ![b.sensor] = @ + 1]
          /\ todo' = [todo EXCEPT ![p] = @ \ {b.sensor}]
    /\ pend' = [pend EXCEPT ![p] = NoBlock]
    /\ UNCHANGED <<up, storeVars, slots, rings, ringVars, pc, covers, dropVars, restarts,
                   guessed, gone, flushed>>

\* The block is dropped: flush_errors_total_ and on_flush_error are all that is left.
EvictWriteFails(p) ==
    /\ InPass(p) /\ pend[p] # NoBlock
    /\ failures < MaxFailures
    /\ failures' = failures + 1
    /\ LET b == pend[p]
       IN /\ failed' = [failed EXCEPT ![b.sensor] = @ \cup (b.from .. b.to - 1)]
          /\ todo' = [todo EXCEPT ![p] = @ \ {b.sensor}]
    /\ pend' = [pend EXCEPT ![p] = NoBlock]
    /\ UNCHANGED <<up, storeVars, mapVars, ringVars, pc, covers, dropVars, restarts,
                   guessed, gone, flushed>>

\* The locks are released; Flush goes on to the backend.
PassEnd(p) ==
    /\ InPass(p) /\ todo[p] = {}
    /\ pc' = [pc EXCEPT ![p] = IF p = Worker THEN "idle" ELSE "sync"]
    /\ UNCHANGED <<up, storeVars, mapVars, ringVars, todo, pend, covers, dropVars,
                   countVars, ghostVars>>

\* RocksDBStorageBackend::Flush returned OK: memtable in SSTs, WAL synced.
FlushOK(c) ==
    /\ pc[c] = "sync"
    /\ pc' = [pc EXCEPT ![c] = "idle"]
    /\ covers' = [covers EXCEPT ![c] = [s \in Sensors |-> 0]]
    /\ images' = {db}
    /\ flushed' = [s \in Sensors |->
                    flushed[s] \cup ((0 .. covers[c][s] - 1) \ gone[s])]
    /\ UNCHANGED <<up, db, mapVars, ringVars, todo, pend, dropVars, countVars, guessed,
                   failed, gone>>

FlushError(c) ==
    /\ pc[c] = "sync"
    /\ pc' = [pc EXCEPT ![c] = "idle"]
    /\ covers' = [covers EXCEPT ![c] = [s \in Sensors |-> 0]]
    /\ UNCHANGED <<up, storeVars, mapVars, ringVars, todo, pend, dropVars, countVars,
                   ghostVars>>

-----------------------------------------------------------------------------
(* DropSensor: the map entry goes under the lock, the blocks after it. A    *)
(* sensor that is back may be dropped again before the first DeleteSensor.  *)

DropFromMap(s) ==
    /\ up /\ s \in slots /\ MapFree
    /\ slots' = slots \ {s}
    /\ rings' = rings \ {s}
    /\ nextId' = [nextId EXCEPT ![s] = 0]
    /\ lo' = [lo EXCEPT ![s] = hi[s]]
    /\ deleting' = [deleting EXCEPT ![s] = @ + 1]
    /\ gone' = [gone EXCEPT ![s] = 0 .. hi[s] - 1]
    /\ flushed' = [flushed EXCEPT ![s] = {}]
    /\ UNCHANGED <<up, storeVars, hi, passVars, leftover, countVars, guessed, failed>>

\* Whatever the store holds of the sensor by now, flushed or not.
DropBlocks(s) ==
    /\ deleting[s] > 0
    /\ Write([db EXCEPT !.blocks = @ \ BlocksOf(db, s)])
    /\ deleting' = [deleting EXCEPT ![s] = @ - 1]
    /\ gone' = [gone EXCEPT ![s] = @ \cup Held(db, s)]
    /\ flushed' = [flushed EXCEPT ![s] = @ \ Held(db, s)]
    /\ UNCHANGED <<up, mapVars, ringVars, passVars, leftover, countVars, guessed, failed>>

\* drop_sensor ignores the error and answers OK.
DropBlocksFails(s) ==
    /\ deleting[s] > 0
    /\ failures < MaxFailures
    /\ failures' = failures + 1
    /\ deleting' = [deleting EXCEPT ![s] = @ - 1]
    /\ leftover' = leftover \cup {s}
    /\ UNCHANGED <<up, storeVars, mapVars, ringVars, passVars, restarts, ghostVars>>

-----------------------------------------------------------------------------
(* The engine goes away and comes back. *)

\* What no block of the store holds is gone for good.
LoseAllBut(store) ==
    /\ lo' = hi
    /\ gone' = [s \in Sensors |-> (0 .. hi[s] - 1) \ Held(store, s)]

\* The process, its rings and its threads' state are gone.
Stop ==
    /\ up' = FALSE
    /\ slots' = {} /\ rings' = {}
    /\ nextId' = [s \in Sensors |-> 0]
    /\ pc' = [p \in Passers |-> "idle"]
    /\ todo' = [p \in Passers |-> {}]
    /\ pend' = [p \in Passers |-> NoBlock]
    /\ covers' = [p \in Passers |-> [s \in Sensors |-> 0]]
    /\ deleting' = [s \in Sensors |-> 0]
    /\ UNCHANGED <<hi, leftover, countVars, guessed, failed, flushed>>

\* Close and destroy; no other call may be running. Nothing is flushed.
Close ==
    /\ up
    /\ \A s \in Sensors : deleting[s] = 0
    /\ \A p \in Passers : pc[p] = "idle"
    /\ Stop
    /\ LoseAllBut(db)
    /\ UNCHANGED <<db, images>>

\* The process or the machine fails, between any two steps.
Crash ==
    /\ up
    /\ Stop
    /\ \E image \in images :
        /\ db' = image
        /\ images' = {image}
        /\ LoseAllBut(image)

\* The metadata is not written.
Create_NoMetadata ==
    /\ ~up
    /\ restarts < MaxRestarts
    /\ PathsFit => ~db.meta /\ db.blocks = {}
    /\ restarts' = restarts + 1
    /\ up' = TRUE
    /\ UNCHANGED <<storeVars, mapVars, ringVars, passVars, dropVars, failures, ghostVars>>

\* Create: metadata of the same schema is adopted and written again. The map
\* starts out empty whatever the store holds.
Create ==
    /\ ~up
    /\ restarts < MaxRestarts
    /\ PathsFit => ~db.meta /\ db.blocks = {}
    /\ restarts' = restarts + 1
    /\ up' = TRUE
    /\ Write(WithMetadata(db))
    /\ UNCHANGED <<mapVars, ringVars, passVars, dropVars, failures, ghostVars>>

Max0(S) == IF S = {} THEN -1 ELSE CHOOSE n \in S : \A m \in S : m <= n

SeededId_MaxId(s) == Max0({b.id : b \in BlocksOf(db, s)})
SeededId_LastBlock(s) ==
    LET last == Max0({b.id : b \in BlocksOf(db, s)}) IN IF last = -1 THEN 0 ELSE last
SeededId(s) == Max0({b.id : b \in BlocksOf(db, s)}) + 1

\* Open: every sensor with a block gets a slot without a ring. RocksDB replays
\* its WAL into SSTs as it opens. Without metadata it goes on with the
\* placeholder configuration, whose dim is a guess, and writes none.
Open ==
    /\ ~up
    /\ restarts < MaxRestarts
    /\ restarts' = restarts + 1
    /\ up' = TRUE
    /\ slots' = StoredSensors(db)
    /\ nextId' = [s \in Sensors |-> SeededId(s)]
    /\ images' = {db}
    /\ guessed' = (guessed \/ ~db.meta)
    /\ UNCHANGED <<db, rings, ringVars, passVars, dropVars, failures, failed, gone, flushed>>

-----------------------------------------------------------------------------

Next ==
    \/ \E s \in Sensors :
        Append(s) \/ DropFromMap(s) \/ DropBlocks(s) \/ DropBlocksFails(s)
    \/ \E c \in Callers : FlushCall(c) \/ FlushOK(c) \/ FlushError(c)
    \/ \E p \in Passers :
        \/ PassBegin(p)
        \/ \E s \in Sensors : EvictCopy(p, s) \/ EvictNoMemory(p, s)
        \/ EvictWriteOK(p)
        \/ EvictWriteFails(p)
        \/ PassEnd(p)
    \/ Close
    \/ Crash
    \/ Create
    \/ Open

Spec == Init /\ [][Next]_vars

-----------------------------------------------------------------------------
(* Properties *)

Blocks == [sensor : Sensors, id : Nat, from : Nat, to : Nat]
Stores == [meta : BOOLEAN, blocks : SUBSET Blocks]

\* The state of the engine, of the store and of the threads inside it.
TypeOK ==
    /\ up \in BOOLEAN
    /\ db \in Stores /\ images \subseteq Stores
    /\ slots \subseteq Sensors /\ rings \subseteq Sensors
    /\ nextId \in [Sensors -> Nat]
    /\ lo \in [Sensors -> Nat] /\ hi \in [Sensors -> Nat]
    /\ pc \in [Passers -> {"idle", "wait", "pass", "sync"}]
    /\ todo \in [Passers -> SUBSET Sensors]
    /\ pend \in [Passers -> Blocks \cup {NoBlock}]
    /\ covers \in [Passers -> [Sensors -> Nat]]
    /\ deleting \in [Sensors -> Nat] /\ leftover \subseteq Sensors
    /\ failures \in Nat /\ restarts \in Nat /\ guessed \in BOOLEAN
    /\ failed \in [Sensors -> SUBSET Nat]
    /\ gone \in [Sensors -> SUBSET Nat]
    /\ flushed \in [Sensors -> SUBSET Nat]

\* What chronosv_flush answered OK for (chronos_vector.h:360-369): every entry
\* appended before the call is in the store whatever crash follows, unless it
\* was overwritten, its WriteBlock failed, or a drop_sensor took it: the sensor
\* was dropped, or recreated before the DeleteSensor of an earlier drop ran.
FlushedIsDurable ==
    \A s \in Sensors : \A e \in flushed[s] :
        e \in failed[s] \/ \A image \in images : e \in Held(image, s)

\* next_block_id (engine.cpp:263-265) is above every stored id of its sensor, so
\* no WriteBlock lands on a key in use; unless the sensor's blocks from before
\* a drop were still there when it came back.
NextIdIsFresh ==
    up => \A s \in slots \ leftover : \A b \in BlocksOf(db, s) : b.id < nextId[s]

\* Whatever a crash leaves, a sensor's block ids have no gaps, and a higher id
\* holds later entries (ListBlocks: ascending is temporal order).
BlocksInOrder ==
    \A image \in images : \A s \in Sensors \ leftover :
        LET bs == BlocksOf(image, s)
        IN /\ {b.id : b \in bs} = 0 .. Cardinality(bs) - 1
           /\ \A b, c \in bs : b.id < c.id => b.to <= c.from

\* Create writes the metadata before the first block and the WAL keeps the order
\* (engine.cpp:459-466): whatever a crash leaves, blocks without the schema to read
\* them by are there only if an engine was opened on the path when it had lost its
\* metadata, or never had any, and went on with a guess (engine.cpp:326-344).
SchemaBeforeBlocks == \A image \in images : image.blocks # {} => image.meta \/ guessed

\* A running engine never replaces a stored block by another one (WriteBlock is
\* a Put and would do so without an error): only DeleteSensor takes blocks away.
BlocksAreImmutable ==
    [][up' => \A b \in db.blocks : \A c \in db'.blocks :
        (b.sensor = c.sensor /\ b.id = c.id) => b = c \/ b.sensor \in leftover]_vars

=============================================================================
