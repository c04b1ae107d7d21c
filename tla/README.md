# ChronosVector in TLA+

ChronosVector is an embedded store for streams of timestamped vectors. Each sensor has a lock-free
ring in memory; a background thread moves what has left a sliding time window into RocksDB; queries
read the rings while both go on. These modules model that machinery, check it with TLC on small
instances, and prove with TLAPS, for every value of the constants, all the safety properties that the runs
find to hold.

Paths below are relative to the repository (`src/engine.cpp`, `include/chronosv/ring_buffer.h`);
`PROJECT.json` maps every definition to the lines it stands for.

## The system

| Component | State | Operations | Shared with |
|---|---|---|---|
| **Sensor ring** (`ring_buffer.h`) | `head_`, `tail_`, columns of slots, two overwrite counters | `Append`, `Snapshot`, `AdvanceTail`, slot readers | one producer, one eviction pass, any number of queries; no lock |
| **Engine: ingest, sensor map** | `sensors_` (sensor to slot: ring and `next_block_id`), `map_mutex_`, `max_sensors`, totals of dropped sensors | `Append`, `AppendBatch`, `PreallocateSensor`, `DropSensor`, `ListSensors` | every thread |
| **Engine: queries** | thread-local scratch | `QueryNearestN`, `QueryRange`, `DetectAnomaly` | rings, under the shared map lock |
| **Engine: eviction** | `evict_scratch_`, `eviction_pass_mu_`, the window | `EvictOnce`, `EvictSensor`, called by the background thread, `Flush`, `MaintainSlidingWindow` | rings, backend |
| **Engine: lifecycle** | `closed_`, `stop_requested_`, `eviction_mu_`, `eviction_cv_` | `Create`, `Open`, `Close`, `EvictionLoop`, `RehydrateSensorRing` | backend |
| **Engine: statistics, sink** | relaxed counters, callbacks | `GetStats` | rings, map |
| **Cold tier** (`storage_rocksdb.cpp`) | the RocksDB store: blocks under (sensor, id), one metadata key | `WriteBlock`, `ReadBlock`, `ListBlocks`, `ListSensors`, `DeleteSensor`, `Flush`, metadata | eviction, `DropSensor`, `Open` |
| **Block codec**, **kernels** | none | encode and decode a block; distances, quantization | cold tier; queries |
| **C interface, C++ wrapper, CLI** | none | checks and exception walls around the engine | |

How they interact: a producer calls `Append`, which finds its ring under the shared map lock and then
writes to it with no lock at all. A pass takes `eviction_pass_mu_`, then the map lock shared, and for
each sensor copies a prefix of the ring to the one scratch buffer, advances the tail and only then
writes a block. Writes are not synced; `Flush` runs a pass that takes everything and then asks RocksDB
to flush and sync. `Open` finds the sensors, rebuilds the block counters and, if configured, refills
the rings.

What is hard in this code:

- three kinds of clients on slots no lock protects; by design the producer overwrites what the others
  are reading, and only counters say so;
- a block leaves the ring before it is stored, is stored before it is durable, and its id must be free
  after any crash;
- one mutex, one shared mutex and one condition variable between producers, queries, passes, drops and
  `Close`, with some work deliberately outside them (the ring pointer in `Append`, `DeleteSensor` in
  `DropSensor`, the dropped totals in `GetStats`);
- timestamps are the caller's: out of order they decide what is evicted and what is recovered.

What makes each component correct: *ring*: nothing leaves it unless archived or counted, and a read is
of the entry asked for unless lapped. *Sensor map*: rings in use exist, the limit holds, losses stay
counted. *Eviction*: one pass at a time, entries in the window stay, none is stored twice. *Lifecycle*:
`Close` leaves nothing running and is not kept waiting; every call returns. *Cold tier*: what `Flush`
answered for survives; ids are fresh and ordered; blocks are never replaced; no sensor's keys lie in
another's range; a damaged block is refused. *Queries*: an answer is about the entries of the window,
and an OK is not given for a range that was cut. *Sink*: it is never told of a loss that did not
happen. The 40 hazards in `PROJECT.json` name the lines where each could go wrong and the properties that would tell.

## Modules

### SensorRing, SlidingLog, SensorRing_proofs

`SensorRing` is one ring with its producer, the one eviction pass there can be, and query threads. An
entry is named by its virtual index. A slot keeps two things apart, the timestamp (one aligned word)
and the body (vector, norm, scale, payload), which is `Torn` while `memcpy` runs. Every atomic load and
store and every field copy is a step: `AppendBegin` (the overflow test and counters),
`AppendTimestamp`, `AppendBodyStart`, `AppendBodyEnd`, `AppendPublish`; `EvictLoadTail`,
`EvictLoadHead` (`Snapshot`), `EvictSplit`, `EvictCopyTimestamp`, `EvictCopyBody`, `EvictAdvanceTail`;
and for queries the two loads of `Snapshot`, then row by row a timestamp and a body (`QueryRange`), or
all bodies and only then timestamps in any order (`QueryNearestN`; `DetectAnomaly` stops after the
bodies). Which prefix is old enough is left open here: it is the timestamps' business (`HotWindow`).

Memory: atomic accesses take effect in one order and a thread's slot writes in program order. That is
what acquire and release give on x86-64. On the C++ abstract machine the unsynchronized slot reads are
a data race, hence undefined; the model gives the outcomes such a build can produce: the old value, the
new one, or a mixture.

`SlidingLog` is the abstract specification: a log of which `lo .. hi-1` is in memory; the oldest entry
is given up, on record, before the log grows past it; eviction archives the rest. `SensorRing`
implements it (`ImplementsSlidingLog`) with `hi <- head`, `lo <- tail`, `lost <- overwritten` and, as
the archive, the entries below tail of which a whole copy exists. The other modules rely on this: they
treat a ring as an interval or a sequence.

### ColdTier

How entries get to the store and survive. A ring is an interval `lo .. hi-1`, a block such an interval
under an id. Passes are split where something can go wrong: `EvictCopy` (scratch and `AdvanceTail`),
`EvictNoMemory` (`bad_alloc`), `EvictWriteOK` or `EvictWriteFails`, `PassEnd`; `FlushOK` is the
backend's sync. `images` holds every state of the store since the last sync: `Crash`, possible between
any two steps, picks one, because RocksDB replays a prefix of its log. `Create`, `Open`, `Close` and
`DropSensor` with its separate `DeleteSensor` complete it. `failed`, `gone` and `flushed` are history:
what a pass failed to write, what was overwritten, dropped or not recovered, what a successful `Flush`
answered for.

One assumption is a constant: `PathsFit`, `Create` is called on a fresh path, one with neither metadata
nor blocks; without it `BlocksAreImmutable` fails (run `cold_create`). It says nothing of `Open`, which
may be called on any path, as in the code: on one without metadata, because no engine was ever
created there or because a crash took the unsynced blob, it goes on with a guessed configuration and
writes none. `guessed` remembers that. `SchemaBeforeBlocks` says that blocks without metadata have no
other origin; that there are some is a disagreement with the header, listed below. Nothing is assumed of who appends or drops when: between `DropFromMap`
and `DropBlocks` any thread may recreate the sensor, or drop it again (`deleting` counts the deletions
due); its new blocks go with the old ones (their entries become `gone`) and its ids are no longer fresh
(the sensor joins `leftover`).

### ColdPath, KeySpace, BlockCodec, EngineConfig, BlockMap

The same cold tier from the other side: what is in the store, key by key and byte by byte, over the
lives of several engines. `KeySpace` has the keys (name, separator, id in `IdBytes` bytes of
`ByteValues` values), RocksDB's order, and what `ListBlocks`, `ListSensors` and `DeleteSensor` take out of
a set of keys. `BlockCodec` has `serialize_block` and `decode_block`: stored bytes are a function from
offsets to fields, and the checksum field holds what it was computed over. `EngineConfig` has
`validate_and_default` and the metadata blob. `ColdPath` puts them together: `Create` with its schema
check and the caller's uuid or a generated one, `Open` with its placeholder, `Close`, a whole eviction
of one sensor as `StoreBlock`, `DropSensor`, `MaintainSlidingWindow`, and `Damage`, which changes, drops or adds one field of any value. Bytes that are not a
whole field read as the constant `Junk`. A block that is already corrupt is not damaged further: a
second change could undo the first, which the model leaves out. Metadata may be damaged again and again.

`MaintainSlidingWindow` sets the window of the running engine, 0 included, and leaves the metadata
alone. So there are three configurations to tell apart: `cfg`, the running one; `given`, what the last
`Create` put on the path; and what can be read from the metadata. `MetadataIsTheConfig` says that the
last two agree, whatever engines were opened and windows set since, and that `cfg` differs from them in
the window at most: the next `Open` is back at the window of `Create`. `RunningConfigIsValid` says that
`cfg` is one `validate_and_default` accepts and has nothing left to default but such a window of 0.

`BlockMap` is the abstract specification, the backend's interface without keys and bytes: a map from
sensors and ids to blocks and a counter per sensor. `ColdPath` implements it (`ImplementsBlockMap`) with
`blocks <- seen`, what the listings and `ReadBlock` answer about the store. `seen` is a variable only
because TLC would otherwise compute it again for every comparison; every step sets it to
`SeenIn(kv')`. That is where a name that begins with another one, an id in the wrong byte order or a
field no check looks at would show.

### EngineCalls, Kernels

What the calls answer. Calls are whole; what is detailed is their data: a slot has a timestamp, a
vector (quantized for INT8), a norm, a scale and a payload, and a ring wraps. Every call of the C
interface is there with its checks in their order (`Checks`, `Refused`), the two-run scoring
(`FillScores`), the bounded heap (`Kept`, score by score `KeptWith`) and the final sort (`BestFirst`), the early stop and the
warning of `QueryRange`, the mean of `DetectAnomaly`, the overwrite report with its counter per thread
(`Report`), and the rows a pass stores. `Kernels` has the four kernels and the quantizer on integers: a
score is exact in units of 1/`One`; quantization rounds as `lround` does, and the reference allows for
half a step per component. An engine made by
`Create` has a sink and starts empty; one made by `Open` has the sensors found, and neither a sink nor a
limit, since both are per process. Memory may run out for a ring (`Refused`), for the scratch of an
append or a query (`IngestNoScratch`, which leaves the sensor registered; `QueryNoScratch`), and for
the rows of a pass, which then skips the ring, also under `Flush` (`Takes`). Vectors have one length, the configured dim, and are chosen so that their norms
are whole (`VectorsAssumption`): a float norm is not a value these modules have. An n or max below 1 is a
refused call like any other bad argument (`QueriesAssumption`).

An INT8 row read by `QueryRange` is `Garbage`, and the verdict of `DetectAnomaly` on an INT8 ring
arbitrary: both read four bytes per component where a slot has one. A fresh slot's payload is `Garbage`
too: the ring does not clear it.

### EngineThreads

The threads in one open engine and their locks. A ring is an identity and a count. Sections that hold
the map exclusively are one step, those that hold it shared for longer (passes, `GetStats`) are split
at every ring. `GetOrCreateRing` has its fast path, its second look under the exclusive lock
(`RingExists`), the limit and its failures; the pointer is used after all locks are gone
(`AppendToRing`). The condition variable is modelled down to the gap between testing the predicate and
falling asleep. `live` tells whether a ring still exists. `Droppers` are threads
that drop sensors they do not feed: a ring may go between `GetOrCreateRing` and the end of `Append`. Such
a producer is `undercut` until its `Append` is over; what it does to the destroyed ring is undefined
in the program and lost in the model. A query or `ListSensors` holds the map
exactly as `GetStats` does and is not repeated.

### HotWindow

What timestamps decide, with whole calls and one sensor: the leading run a pass takes, the bounds the
block carries (through the scratch vector, which keeps its old tail), and `RehydrateSensorRing` block by
block, with the early returns that lose the ring it has built. Timestamps live in `MinTime .. MaxTime`
and the cutoff wraps around at its ends, as a 64-bit subtraction does.

### MC modules

`MCSensorRing`, `MCColdTier`, `MCEngineThreads`, `MCHotWindow`, `MCColdPath` and `MCEngineCalls` extend
these and give model values and input sets (names, requests, entries, setups); `MCColdTier` adds the symmetry of the
two `Flush` callers (used for safety only).

## Runs

| Run | Bounds | Shows |
|---|---|---|
| `ring` | 2 slots, 4 appends, 1 query, eviction unbounded | all properties of the ring and the refinement, 1.2 million states |
| `ring_blocks` | 2 slots, 4 appends | *violated*: a block copied from a full ring may be torn |
| `cold_tier` | 1 sensor, ring of 2, 3 appends, 2 `Flush` callers and the background pass, 1 failure, 2 restarts | durability, ids, order, metadata, 2.7 million states |
| `cold_create` | the same with 1 caller | *violated*: blocks replaced after a `Create` on an old path |
| `cold_path` | bytes 0..2, ids of 2 bytes, names `2` and `2 2` and an invalid one, 8 requests (3 schemas), a given or a generated uuid, windows -1 and 0, blocks of 2 entries, 4 keys, 3 engines, 1 damaged value | keys, ranges, codec, schema, metadata, configuration and the refinement, 0.4 million states |
| `engine_calls` | 2 sensors, rings of 2, 4 appends, both types and metrics, 1 or 2 producer threads, a limit of 1 sensor for INT8, an opened engine, 1 failed write, 1 drop | answers, warnings, overwrite reports, stored rows and payloads, 1.9 million states |
| `threads_safety` | 2 producers, 1 observer, 1 `Flush` caller, 1 thread that only drops, the eviction thread, 2 ring objects, 1 overwrite each, limit 1 | locks, lifetimes, limit, loss counters, 2.4 million states |
| `threads_liveness` | 1 producer, 1 observer, 1 `Flush` caller, the eviction thread; sensors dropped by their producer | calls return, `Close` returns |
| `threads_stats` | as above, with overwrites | *violated*: the overwrite total may go back |
| `hot_window` | ring of 3, timestamps 1..3 in any order, windows 0 and 1, 4 appends, 2 `Open`s, 1 unreadable block | window, duplicates, recovery |
| `window_bounds`, `window_recovery` | ring of 4, timestamps in order | *violated*: `t_end_ms`; recovery of hot entries |

Why the bounds are enough. Two slots and four appends let the producer lap both a pass and a query
once and start again; a third lap repeats the residues. In `cold_tier` the second restart recovers what
the first left behind, and one failure separates every step of a pass; with two sensors nothing new is
shared but the pass itself. In `cold_path` three byte values are the least that have a separator, a byte
after it and one below; the second name is the first followed by exactly the byte the range ends with,
the invalid one reads like a key of the first; three blocks leave one between the first and the last of
a range; that ids stay in order where they pass from the low byte to a higher one is proved
(`LastListedIsGreatest`), for every width; three engines let a block of the first be met by an engine that
read the metadata of a second. In
`engine_calls` four appends to a ring of two lap it and leave both runs of a wrapped window in use; the
second sensor has an entry of norm 0. Two producers are needed for the limit and
for the second look; two rings let one be dropped and another take its place. Three timestamps suffice for old, at the cutoff, new.
Query threads never write anything shared, so one of them at a time meets every interleaving; the
proofs cover any number.

`CHECK_DEADLOCK FALSE` stands where a run's bounds on appends and restarts, or the process being gone,
may leave nothing to do.

The violated properties are the promises of a header, a comment or a test, quoted in
`PROJECT.json` under "findings"; next to each stands the weaker property that does hold
(`NoSilentLoss`, `FlushedIsDurable`, `StatsRewindNeedsDrop`, `RestoresAllOrNothing`).

## Fairness

`FairSpec` of `EngineThreads` assumes that a thread inside a call keeps running (weak fairness) and that
a lock which is free again and again is obtained in the end (strong fairness). No thread has to start a
call, and the timer of `wait_for` is not assumed to fire: `CloseReturns` shows that the notification
alone is enough. `WritersFirst` says that a `std::shared_mutex` makes new readers wait for a waiting
writer. The C++ standard leaves that open: with readers first, overlapping `get_stats` calls and passes
can keep a producer that needs a new ring out for good, and with several writers in turn a reader can
wait for good. The liveness run therefore has one thread that takes the map exclusively, its one
producer, which also does the dropping, and writers first; the safety run does not depend on either.

## Proofs

Seven modules hold the proofs about one module each, an eighth (`FiniteLemmas`) the lemmas they share. All
of them hold for any sets of sensors, threads, entries and requests (the sensors of `EngineCalls` are
finitely many), any capacity and any bounds, so the bounds of the runs play no part in them. The only
assumptions are the `ASSUME`s of the modules, which TLC evaluates in every run; where a theorem has one
of its own it is named below.

| Module | Proves | Inductive invariant |
|---|---|---|
| `SensorRing_proofs` | `TypeOK`, `NoSilentLoss`, `LosslessWhileNotFull`, `CleanUnlessLapped`, `LappedReadsAreNewer`, `WindowFits`, `TailAdvances`, `ImplementsSlidingLog` | `RingInv`, `QueryInv` |
| `EngineThreads_proofs` | `TypeOK`, `LimitRespected`, `OneScratchUser`, `ClosedIsQuiet`, `LossIsNotInflated`, `LossIsNeverForgotten`, `StatsRewindNeedsDrop`, `RingsInUseExist` | `ThreadsInv`, `ProducerInv` |
| `ColdTier_proofs` | `TypeOK`, `FlushedIsDurable`, `NextIdIsFresh`, `BlocksInOrder`, `SchemaBeforeBlocks`, `BlocksAreImmutable` | `TierInv` |
| `KeySpace_proofs` | an id comes back out of its bytes; no key is in another sensor's range; `ListBlocks` and `ListSensors` answer what is stored, the greatest id last | |
| `ColdPath_proofs` | `TypeOK`, `BlocksMatchSchema`, `RunningConfigIsValid`, `MetadataIsTheConfig`, `IdentityIsStable`, `ImplementsBlockMap`; that `decode_block` is the inverse of `serialize_block` and damage is noticed; that `DropSensor` deletes exactly one sensor | `PathInv`, `TypeInv`, `BlockInv` |
| `HotWindow_proofs` | `TypeOK`, `PersistedOnce`, `PassKeepsTheWindow`, `RestoresAllOrNothing` | `WindowInv` |
| `EngineCalls_proofs` | `TypeOK`, `SinkKnowsTheLosses`, `EveryEntryIsAccountedFor`, `PayloadIsOwnOrStale`, `RangeOkIsComplete`, `AnswersAreOfTheWindow` | `CallsInv`, `VecsHold` |

None of the safety properties is inductive as it stands.

**SensorRing.** That a copy is whole depends on what was in the slot when it was read. `RingInv` says
which slots hold the entry their index names at each step of the producer (`SlotsHold`), that an entry
whose slot is being or has been reused was counted or already lay below tail (`Counted`), what interval
the pass is working on (`EvictionWindow`), and that what it has copied is whole or counted
(`CopiesAccounted`, `EvictedAccounted`). A slot read for entry *i* in a window the pass took is either
still *i*'s, or *i* is overtaken, and then `Counted` applies because the pass has not advanced tail past
it. `QueryInv` adds what the queries have seen: a field read for *i* was *i*'s or a later entry's of the
same slot, which needs `SlotDistinct`, that two indices less than a capacity apart have different slots.
The refinement maps `AppendBegin` on a full ring to `GiveUp`, `AppendPublish` to `Append`,
`EvictAdvanceTail` to `Slide`, and everything else to a stutter.

**EngineThreads.** `ThreadsInv` ties each lock to the program counters of its holders (`LocksHeld`), the
rings that exist to the map, one sensor each (`MapOwnsRings`), the limit to the map rather than to the
check that was made (`RoomLeft`), and `Close` to idle threads (`ClosingIsQuiet`). For the statistics,
what an observer has added up and the rings it still has to visit are bounded together (`StatsBounds`):
by all losses so far from above, and, if no drop came between, by the last answer from below; this
rests on sums over finite sets. `RingsInUseExist` needs nothing of who drops: passes and
`GetStats` keep the map lock, so no drop comes near their rings; a producer's pointer outside the locks
stays good unless a drop of its own sensor comes, which is when the producer joins `undercut`
(`ProducerInv`). Neither the header nor the code rules such a drop out, or says that it is harmless.

**ColdTier.** `TierInv` says where every entry is: in its ring, in the block the one pass holds, in a
stored block, or known to be lost (`Accounted`), and that what a pass has visited is no longer in the
first two places (`Settled`), so that the sync at its end covers it (`Durable`, for every state the
store may fall back to). No block may be replaced that holds an entry someone counts on: ids continue
those of the store (`Logs`, `Seeded`) but for sensors in `leftover`, of which only superseded
blocks are left (`Superseded`). These four theorems assume `PathsFit`, as `cold_create` shows they must for
`BlocksAreImmutable`. `TypeOK` and `SchemaBeforeBlocks` do not: they rest on `ShapeInv`, which holds on any
path: without a guess, an engine that is running has its metadata in every state a crash may leave.

**KeySpace.** The results hold for names of any length over any number of byte values, and ids of any
number of bytes. A key of one sensor differs from the bounds of another's range within the shorter name
or at the separator (`RangesAreSeparate`). Shifting an id byte by byte takes it apart and reading the
bytes puts it together (`IdRoundTrip`); the first byte in which two ids differ decides their order
(`KeysInOrder`), so that what RocksDB lists last is the greatest (`LastListedIsGreatest`), which `Open`
relies on for the next id. `ListBlocksIs` and `ListSensorsIs` assume what `TypeOK` of `ColdPath` says of a store
(`IsStore`): it holds keys of valid names and fitting ids, and metadata.

**ColdPath.** Until an engine had to guess, the metadata on disk is the serialization of the accepted
configuration last given to a `Create` (`given`), and a running engine's configuration is that but for
its window (`PathInv`), so they share the schema (`SameShape`). That rests on the round trip of the
metadata, field by field, and on defaults being filled in once. For `TypeOK`, `TypeInv` adds that the
engine's map has names of callers only and that what the metadata holds where a schema is read is a
number, whatever was damaged; that `Open` seeds ids within the bound is the last listing's.

The codec: the sections of a block follow one another without a gap up to the checksum (`LayoutIs`,
`BodyIs`), so every field is where `decode_block` reads it and `Decode` gives back what `Serialize` was given
(`BlockRoundTrip`, for any block with as many rows in every section as it counts). Stored bytes are
`Intact` for a block if they still begin with it and its checksum and have no other checksum. Damage leaves them so, or
no checksum matches any more (`DamageIsNoticed`): a field before the checksum differs, the checksum does,
or it is gone; what comes after it is not read. `BlockInv` says that every stored block is intact for
one an engine may write, or corrupt, and that those that can be read have the schema of the metadata.
A `Create` of another schema would break that, and is refused. From `BlockInv` and `PathInv` follows
`BlocksMatchSchema`.

`ImplementsBlockMap` needs all of it, step by step: `Create` and `Close` are `StartEmpty`, and nothing they
write is listed; `Open` is `StartSeeded`, by the three theorems about listings; `StoreBlock` is `Store`,
since a key is of one block and what is read is what was written; `DropSensor` is `Drop`, since ranges are
separate; `Damage` of a block is `Spoil` or a stutter, of metadata a stutter.

**HotWindow.** `PersistedOnce` speaks of blocks; to survive a pass it needs that the rows of the blocks,
block after block, and then the ring are in the order of the appends (`RingOrdered`). The two action
properties need that what a pass leaves is what `HotOnly` keeps when the ring is sorted, and that a
replay that returns has put in exactly the hot rows of the readable blocks.

**EngineCalls.** `RingInv` relates one ring to the log of its appends and to the rows taken out of it:
which entry, and whose payload, each slot holds; that rows and window do not overlap; that what is
below the window was taken or counted. The number of entries follows by counting these disjoint sets.
`SinkInv` relates what an observer was told to the counter of its producer thread; if that thread feeds
another sensor, only one direction is left. `RangeOkIsComplete` holds because a scan that stops at `max`
rows and has put out fewer was over the whole window (`ScanIsWhole`), so the least timestamp it saw is
the window's first, and an answer without a warning means that the range starts no earlier; with
ascending timestamps nothing evicted or overwritten can lie in it. That its rows are the entries' rests
on the slots (`RingInv`, and `VecsHold` for the vectors), their order on `RankIs`.

`AnswersAreOfTheWindow` needs `VecsHold` for both types: every slot of the window has the norm of its
entry's vector and the vector itself, or its quantized form and its scale. On that it rests in four steps. A kernel's
score is within what the reference allows (`KernelIsClose`): exact for float32, where the distance by the
norms is the direct one (`ByNorms`) and never negative; for INT8 a component is off by half a step
(`QuantizedIs`), a product of two by a bound that adds up over the components (`QuantizedProduct`,
`QuantizedDot`), and division and clamping lose no more (`CloseQuotient`, `MaxZero`). The heap, after each
score, holds the best so far (`KeptWithIs`): no score outside it is better than one in it, which survives
the replacement of a worst one because `Better` orders the scores up to equal ones; sorted, it is the
answer (`OrderIs`), and an entry that is worse by more than both may be off cannot come first
(`WorseIsWorse`). The two runs of slots, up to the end of the ring and from its start, are the window in
order, without a gap or an overlap (`RunsAreWindow`), so scores belong to the entries they are
reported for (`FillScoresIs`), and the two sums of `DetectAnomaly` add up to the window's
(`SumsAreWindow`). The verdict for INT8 is not claimed, as it is arbitrary.

An induction over data (a sum, a recursive function such as `HotOnly` or `Replay`) is carried out as a
minimal counterexample: `FiniteLemmas` derives least numbers and minimal finite sets from the library's
well-founded relations, and that a function recursive over `0 .. n` exists (`Iterates`).

Only model-checked: `CallsReturn` and `CloseReturns`, since liveness under fairness is out of the prover's
reach.

## Disagreements met in the source

Five are shown by a run and listed under "findings". The others, met while translating, follow what the
code does in the models:

- `Close` does not flush: what is still in a ring is lost, although `chronos_vector.h:125` says "Flush hot
  data" and 132-133 promises the error of the final flush (`engine.cpp:484-497`; `ColdTier.Close`). It
  also answers `INVALID_ARG` for NULL, which line 131 calls a no-op (`engine.cpp:1581`), and
  `ListSensors` and `GetStats` go on answering after it (127).
- `Flush` answers OK when a block could not be copied or written (`engine.cpp:1118-1123`, 1176-1186);
  `metrics_sink.h:70-71` says a failed eviction "is retried on the next pass", which nothing does. This is
  why `FlushedIsDurable` exempts the entries in `failed`.
- `Open` on a path without metadata answers OK, goes on with dim 128 and writes no metadata
  (`engine.cpp:319`, 340-344), although `chronos_vector.h:119` documents `CHRONOSV_ERR_IO` for "RocksDB open
  failed or metadata missing"; its blocks have nothing that says how to read them, also after a crash took
  `Create`'s unsynced metadata (459). `SchemaBeforeBlocks` exempts exactly the paths where that happened.
- The metadata has no checksum, which `chronos_vector.h:120` speaks of: a changed field that `validate_and_default` lets through is believed
  (`misled` in `ColdPath`).
- `storage_rocksdb.cpp:400-402` says that names may contain neither byte 1 nor byte 2; only byte 1 is
  refused (`engine.cpp:232`). The ranges are right without it: that is part of `ImplementsBlockMap`.
- Nothing calls `on_corruption`, though `block_codec.cpp:200` and `storage_rocksdb.cpp:289-290` say the
  engine does; `on_warning` is not called for `PARTIAL_RESULT`.
- `QueryRange` answers OK, with no row, from a ring a pass has emptied, whatever was evicted; and from
  one with equal timestamps at its old end. `chronos_vector.h:278-280` calls silent truncation "the worst
  possible outcome". `RangeOkIsComplete` exempts exactly these two.
- `QueryRange` and `DetectAnomaly` read an INT8 ring as floats.
- `on_overwrite` compares with one counter per thread, whatever ring or engine it came from
  (`engine.cpp:583`), and `AppendBatch` never calls it.

## Not modelled

The C++ wrapper, command line, examples, benchmarks and soak test: clients, with no state of the
store's own. In what is modelled: rounding of floats; callbacks that follow one call each and counters
that are one relaxed add; out-parameters and null handles; hot_bytes and the cold-size estimate; the
debug-only check for a second producer; CRC32 collisions; RocksDB failing to open or to list, its tuning
and its own checksums. Each would add a value that no other part of the system reads.

## Plan

Done: `SensorRing`, `SlidingLog` and their proofs; `ColdTier`; `EngineThreads`; `HotWindow`; `ColdPath`
with its three data modules and `BlockMap`; `EngineCalls` with `Kernels`.

The proofs of all of them: every invariant and every action property of a passing run, and both
refinements.

Each run answers a question of its own; a new module gets one run for its properties, and a second
one only where the code breaks a promise that its documentation makes.
