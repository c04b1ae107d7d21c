---------------------------- MODULE EngineThreads ----------------------------
(***************************************************************************)
(* The threads inside one open engine (src/engine.cpp) and what they share: *)
(* the sensor map under map_mutex_, the rings it owns, the counters that    *)
(* survive a dropped sensor, the mutex that serializes eviction passes, and *)
(* the condition variable on which the eviction thread sleeps and Close     *)
(* wakes it.                                                                *)
(*                                                                          *)
(* A ring is its identity and its count of overwritten entries; SensorRing  *)
(* models what is in it.  A section that holds map_mutex_ exclusively, or   *)
(* only looks a sensor up, is one step; one that holds it shared for longer *)
(* (a pass, get_stats) is split, and so are the sections of eviction_mu_.   *)
(***************************************************************************)
EXTENDS Integers, FiniteSets, FiniteSetsExt

CONSTANTS
    Sensors,        \* the producer of a sensor is the thread of the same name
    Observers,      \* threads that call get_stats
    Maintainers,    \* threads that call flush, maintain_sliding_window or
                    \* preallocate_sensor
    Worker,         \* the background eviction thread
    Droppers,       \* threads, not producers, that call drop_sensor
    MaxSensors,     \* config max_sensors, 0 for no limit
    WritersFirst,   \* std::shared_mutex makes new readers wait for a waiting
                    \* writer: implementation-defined
    Rings,          \* bound: the ring objects there can be
    NoRing,         \* a null pointer; in the map, a slot that has no ring yet
    Absent,         \* not in the map
    MaxOverwrites   \* bound on the entries one ring overwrites

ASSUME ThreadsAssumption ==
    /\ Worker \notin UNION {Sensors, Observers, Maintainers, Droppers}
    /\ Sensors \cap UNION {Observers, Maintainers, Droppers} = {}
    /\ Observers \cap (Maintainers \cup Droppers) = {} /\ Maintainers \cap Droppers = {}
ASSUME LimitsAssumption == MaxSensors \in Nat /\ MaxOverwrites \in Nat
ASSUME WritersFirstAssumption == WritersFirst \in BOOLEAN

Callers == UNION {Sensors, Observers, Maintainers, Droppers}
Threads == Callers \cup {Worker}
Passers == Maintainers \cup {Worker}

ASSUME RingsAssumption == Absent \notin Rings /\ NoRing \notin Rings /\ Absent # NoRing

VARIABLES
    cap,            \* cfg_.max_sensors
    map,            \* sensors_: each sensor's ring
    live,           \* rings that exist
    unused,         \* rings not allocated yet
    overwritten,    \* overwritten_entries_ of each ring
    dropped,        \* dropped_overwritten_entries_
    pc,             \* what each thread does next
    ptr,            \* the ring a producer got from GetOrCreateRing
    readers,        \* threads that hold map_mutex_ shared
    passOwner,      \* eviction_pass_mu_: the threads in it
    sum, todo,      \* get_stats: the total so far; rings (pass: sensors) to visit
    closing,        \* Close: "open" -> "stop" -> "notify" -> "join" -> "closed"
    stop,           \* stop_requested_
    evictionMu,     \* eviction_mu_: whether the eviction thread holds it
    reported,       \* what each observer's last get_stats answered
    raced,          \* observers whose get_stats overlapped a drop_sensor
    undercut        \* producers whose ring another thread's drop_sensor has
                    \* destroyed since they got it

mapVars   == <<cap, map, live, unused>>
countVars == <<overwritten, dropped, undercut>>     \* changed by appends and drops
lockVars  == <<readers, passOwner>>
statsVars == <<sum, reported, raced>>
closeVars == <<closing, stop, evictionMu>>
vars == <<mapVars, countVars, pc, ptr, lockVars, todo, statsVars, closeVars>>

Registered == {s \in Sensors : map[s] # Absent}

\* Create: an empty map. Open: a slot without a ring for each sensor that has
\* blocks, and no limit, because max_sensors is not in the metadata.
Init ==
    /\ \/ cap = MaxSensors /\ map = [s \in Sensors |-> Absent]
       \/ cap = 0 /\ map \in [Sensors -> {Absent, NoRing}]
    /\ live = {} /\ unused = Rings
    /\ overwritten = [r \in Rings |-> 0]
    /\ dropped = 0
    /\ pc = [t \in Threads |-> IF t = Worker THEN "check" ELSE "idle"]
    /\ ptr = [s \in Sensors |-> NoRing]
    /\ readers = {} /\ passOwner = {}
    /\ sum = [o \in Observers |-> 0]
    /\ todo = [t \in Observers \cup Passers |-> {}]
    /\ closing = "open" /\ stop = FALSE /\ evictionMu = FALSE
    /\ reported = [o \in Observers |-> 0]
    /\ raced = {} /\ undercut = {}

Goto(t, label) == pc' = [pc EXCEPT ![t] = label]

\* Close and destroy must not overlap another call on the handle
\* (chronos_vector.h:35-37).
MayCall(t) == pc[t] = "idle" /\ closing = "open"

\* map_mutex_ can be taken shared, exclusively.
MapShared == WritersFirst => \A t \in Callers : pc[t] \notin {"create", "drop"}
MapExclusive == readers = {}

-----------------------------------------------------------------------------
(* GetOrCreateRing, for Append and AppendBatch of the sensor's producer and  *)
(* for PreallocateSensor.  The header asks for the producer's thread there,  *)
(* too; the code searches the map again in case it is another one.           *)

MayCreate(t, s) == t = s \/ t \in Maintainers

\* The producer goes on with the pointer, PreallocateSensor returns.
GotRing(t, s, r) ==
    IF t = s THEN ptr' = [ptr EXCEPT ![s] = r] /\ Goto(t, "append")
             ELSE Goto(t, "idle") /\ UNCHANGED ptr

\* Fast path: look the sensor up with the map shared.
FindRing(t, s) ==
    /\ MayCall(t) /\ MayCreate(t, s) /\ MapShared
    /\ IF map[s] \in Rings THEN GotRing(t, s, map[s])
                           ELSE Goto(t, "create") /\ UNCHANGED ptr
    /\ UNCHANGED <<mapVars, countVars, lockVars, todo, statsVars, closeVars>>

\* Slow path, with the map exclusive: another thread was faster.
RingExists(t, s) ==
    /\ pc[t] = "create" /\ MayCreate(t, s) /\ MapExclusive
    /\ map[s] \in Rings
    /\ GotRing(t, s, map[s])
    /\ UNCHANGED <<mapVars, countVars, lockVars, todo, statsVars, closeVars>>

\* max_sensors leaves no room for another slot.
Full(s) == map[s] = Absent /\ cap > 0 /\ Cardinality(Registered) >= cap

\* Insert a slot, or attach a ring to the one Open recovered. A ring that was
\* there would be destroyed.
PutRing(t, s) ==
    /\ \E r \in unused :
        /\ unused' = unused \ {r}
        /\ live' = (live \ {map[s]}) \cup {r}
        /\ map' = [map EXCEPT ![s] = r]
        /\ GotRing(t, s, r)
    /\ UNCHANGED <<cap, countVars, lockVars, todo, statsVars, closeVars>>

\* The limit is not tested.
CreateRing_LimitUnchecked(t, s) ==
    /\ pc[t] = "create" /\ MayCreate(t, s) /\ MapExclusive
    /\ map[s] \notin Rings
    /\ PutRing(t, s)

\* The map is not searched again under the exclusive lock.
CreateRing_NoRecheck(t, s) ==
    /\ pc[t] = "create" /\ MayCreate(t, s) /\ MapExclusive
    /\ ~Full(s)
    /\ PutRing(t, s)

CreateRing(t, s) ==
    /\ pc[t] = "create" /\ MayCreate(t, s) /\ MapExclusive
    /\ map[s] \notin Rings /\ ~Full(s)
    /\ PutRing(t, s)

\* The call tries again instead of answering CAPACITY or OOM.
CreateFails_Retries(t, s) ==
    /\ pc[t] = "create" /\ MayCreate(t, s) /\ MapExclusive
    /\ map[s] \notin Rings
    /\ UNCHANGED vars

\* CAPACITY, or OOM because the ring cannot be allocated.
CreateFails(t, s) ==
    /\ pc[t] = "create" /\ MayCreate(t, s) /\ MapExclusive
    /\ map[s] \notin Rings
    /\ Goto(t, "idle")
    /\ UNCHANGED <<mapVars, countVars, ptr, lockVars, todo, statsVars, closeVars>>

\* The locks are gone: ring->Append works on the pointer. It may overwrite.
\* What it does to a ring that has been destroyed is lost here; in the program
\* it is undefined.
AppendToRing(s) ==
    /\ pc[s] = "append"
    /\ \E lost \in {0, 1} :
        /\ overwritten[ptr[s]] + lost <= MaxOverwrites
        /\ overwritten' = [overwritten EXCEPT ![ptr[s]] = @ + lost]
    /\ ptr' = [ptr EXCEPT ![s] = NoRing]
    /\ undercut' = undercut \ {s}
    /\ Goto(s, "idle")
    /\ UNCHANGED <<mapVars, dropped, lockVars, todo, statsVars, closeVars>>

-----------------------------------------------------------------------------
(* DropSensor; ColdTier has its DeleteSensor. *)

MayDrop(t, s) == t = s \/ t \in Droppers

DropCall(t) ==
    /\ MayCall(t) /\ t \in Sensors \cup Droppers
    /\ Goto(t, "drop")
    /\ UNCHANGED <<mapVars, countVars, ptr, lockVars, todo, statsVars, closeVars>>

\* Nothing keeps the ring for a producer that is between GetOrCreateRing and the
\* end of its Append.
Forget(s) ==
    /\ map' = [map EXCEPT ![s] = Absent]
    /\ live' = live \ {map[s]}
    /\ undercut' = undercut \cup {r \in {s} : pc[r] = "append"}
    /\ raced' = raced \cup {o \in Observers : pc[o] # "idle"}

\* The ring goes, its count is not added to the dropped total.
DropSensor_CountLost(t, s) ==
    /\ pc[t] = "drop" /\ MayDrop(t, s) /\ MapExclusive
    /\ map[s] # Absent
    /\ Forget(s)
    /\ Goto(t, "idle")
    /\ UNCHANGED <<cap, unused, overwritten, dropped, ptr, lockVars, todo, sum, reported, closeVars>>

\* The count of the ring is subtracted.
DropSensor_WrongSign(t, s) ==
    /\ pc[t] = "drop" /\ MayDrop(t, s) /\ MapExclusive
    /\ map[s] # Absent
    /\ dropped' = dropped - IF map[s] \in Rings THEN overwritten[map[s]] ELSE 0
    /\ Forget(s)
    /\ Goto(t, "idle")
    /\ UNCHANGED <<cap, unused, overwritten, ptr, lockVars, todo, sum, reported, closeVars>>

DropSensor(t, s) ==
    /\ pc[t] = "drop" /\ MayDrop(t, s) /\ MapExclusive
    /\ map[s] # Absent
    /\ dropped' = dropped + IF map[s] \in Rings THEN overwritten[map[s]] ELSE 0
    /\ Forget(s)
    /\ Goto(t, "idle")
    /\ UNCHANGED <<cap, unused, overwritten, ptr, lockVars, todo, sum, reported, closeVars>>

DropNotFound(t, s) ==
    /\ pc[t] = "drop" /\ MayDrop(t, s) /\ MapExclusive
    /\ map[s] = Absent
    /\ Goto(t, "idle")
    /\ UNCHANGED <<mapVars, countVars, ptr, lockVars, todo, statsVars, closeVars>>

-----------------------------------------------------------------------------
(* GetStats *)

\* The caller's structure is not zeroed.
StatsBegin_NoReset(o) ==
    /\ pc[o] = "idle" /\ closing \in {"open", "closed"}
    /\ sum' = [sum EXCEPT ![o] = @ + dropped]
    /\ raced' = raced \ {o}
    /\ Goto(o, "stats")
    /\ UNCHANGED <<mapVars, countVars, ptr, lockVars, todo, reported, closeVars>>

\* The dropped total is read before the map is locked. There is no IsClosed test.
StatsBegin(o) ==
    /\ pc[o] = "idle" /\ closing \in {"open", "closed"}
    /\ sum' = [sum EXCEPT ![o] = dropped]
    /\ raced' = raced \ {o}
    /\ Goto(o, "stats")
    /\ UNCHANGED <<mapVars, countVars, ptr, lockVars, todo, reported, closeVars>>

StatsLock(o) ==
    /\ pc[o] = "stats" /\ MapShared
    /\ readers' = readers \cup {o}
    /\ todo' = [todo EXCEPT ![o] = {map[s] : s \in Registered} \ {NoRing}]
    /\ Goto(o, "sum")
    /\ UNCHANGED <<mapVars, countVars, ptr, passOwner, statsVars, closeVars>>

StatsAdd(o, r) ==
    /\ pc[o] = "sum" /\ r \in todo[o]
    /\ sum' = [sum EXCEPT ![o] = @ + overwritten[r]]
    /\ todo' = [todo EXCEPT ![o] = @ \ {r}]
    /\ UNCHANGED <<mapVars, countVars, pc, ptr, lockVars, reported, raced, closeVars>>

StatsEnd(o) ==
    /\ pc[o] = "sum" /\ todo[o] = {}
    /\ readers' = readers \ {o}
    /\ reported' = [reported EXCEPT ![o] = sum[o]]
    /\ Goto(o, "idle")
    /\ UNCHANGED <<mapVars, countVars, ptr, passOwner, todo, sum, raced, closeVars>>

-----------------------------------------------------------------------------
(* Eviction passes: Flush, MaintainSlidingWindow, the background thread *)

PassCall(m) ==
    /\ m \in Maintainers /\ MayCall(m)
    /\ Goto(m, "pass")
    /\ UNCHANGED <<mapVars, countVars, ptr, lockVars, todo, statsVars, closeVars>>

\* eviction_pass_mu_ is not taken.
PassLock_NotTaken(p) ==
    /\ pc[p] = "pass"
    /\ passOwner' = passOwner \cup {p}
    /\ Goto(p, "passmap")
    /\ UNCHANGED <<mapVars, countVars, ptr, readers, todo, statsVars, closeVars>>

PassLock(p) ==
    /\ pc[p] = "pass" /\ passOwner = {}
    /\ passOwner' = passOwner \cup {p}
    /\ Goto(p, "passmap")
    /\ UNCHANGED <<mapVars, countVars, ptr, readers, todo, statsVars, closeVars>>

PassMap(p) ==
    /\ pc[p] = "passmap" /\ MapShared
    /\ readers' = readers \cup {p}
    /\ todo' = [todo EXCEPT ![p] = {map[s] : s \in Registered} \ {NoRing}]
    /\ Goto(p, "evict")
    /\ UNCHANGED <<mapVars, countVars, ptr, passOwner, statsVars, closeVars>>

\* EvictSensor, with the one scratch buffer the engine has.
EvictRing(p, r) ==
    /\ pc[p] = "evict" /\ r \in todo[p]
    /\ todo' = [todo EXCEPT ![p] = @ \ {r}]
    /\ UNCHANGED <<mapVars, countVars, pc, ptr, lockVars, statsVars, closeVars>>

PassEnd(p) ==
    /\ pc[p] = "evict" /\ todo[p] = {}
    /\ readers' = readers \ {p}
    /\ passOwner' = passOwner \ {p}
    /\ Goto(p, IF p = Worker THEN "check" ELSE "idle")
    /\ UNCHANGED <<mapVars, countVars, ptr, todo, statsVars, closeVars>>

-----------------------------------------------------------------------------
(* EvictionLoop *)

workerOnly == <<mapVars, countVars, ptr, lockVars, todo, statsVars, closing, stop>>

LoopCheck ==
    /\ pc[Worker] \in {"check", "recheck"}
    /\ Goto(Worker, IF stop THEN "exited"
                    ELSE IF pc[Worker] = "check" THEN "lock" ELSE "pass")
    /\ UNCHANGED <<workerOnly, evictionMu>>

\* Take eviction_mu_ to wait, or again after a wakeup.
LoopLock ==
    /\ pc[Worker] \in {"lock", "woken"}
    /\ evictionMu' = TRUE
    /\ Goto(Worker, "test")
    /\ UNCHANGED workerOnly

\* The predicate of wait_for, under eviction_mu_.
LoopTest ==
    /\ pc[Worker] = "test"
    /\ IF stop THEN evictionMu' = FALSE /\ Goto(Worker, "recheck")
               ELSE Goto(Worker, "wait") /\ UNCHANGED evictionMu
    /\ UNCHANGED workerOnly

\* Releasing the mutex and going to sleep is one step.
LoopSleep ==
    /\ pc[Worker] = "wait"
    /\ evictionMu' = FALSE
    /\ Goto(Worker, "asleep")
    /\ UNCHANGED workerOnly

\* The interval is over: the loop goes on whatever the predicate says.
LoopTimeout ==
    /\ pc[Worker] = "asleep"
    /\ Goto(Worker, "recheck")
    /\ UNCHANGED <<workerOnly, evictionMu>>

-----------------------------------------------------------------------------
(* Close *)

closeOnly == <<mapVars, countVars, ptr, lockVars, todo, statsVars>>

\* closed_.exchange(true) was the first to be.
CloseBegin ==
    /\ closing = "open"
    /\ \A t \in Callers : pc[t] = "idle"
    /\ closing' = "stop"
    /\ UNCHANGED <<closeOnly, pc, stop, evictionMu>>

CloseStop ==
    /\ closing = "stop"
    /\ stop' = TRUE
    /\ closing' = "notify"
    /\ UNCHANGED <<closeOnly, pc, evictionMu>>

Wake == IF pc[Worker] = "asleep" THEN Goto(Worker, "woken") ELSE UNCHANGED pc

\* notify_all without eviction_mu_.
CloseNotify_NoMutex ==
    /\ closing = "notify"
    /\ Wake
    /\ closing' = "join"
    /\ UNCHANGED <<closeOnly, stop, evictionMu>>

\* notify_all with eviction_mu_ held.
CloseNotify ==
    /\ closing = "notify" /\ ~evictionMu
    /\ Wake
    /\ closing' = "join"
    /\ UNCHANGED <<closeOnly, stop, evictionMu>>

\* The thread is not joined.
CloseJoin_Detached ==
    /\ closing = "join"
    /\ closing' = "closed"
    /\ UNCHANGED <<closeOnly, pc, stop, evictionMu>>

CloseJoin ==
    /\ closing = "join" /\ pc[Worker] = "exited"
    /\ closing' = "closed"
    /\ UNCHANGED <<closeOnly, pc, stop, evictionMu>>

-----------------------------------------------------------------------------

GetRing(t) ==
    \E s \in Sensors : RingExists(t, s) \/ CreateRing(t, s) \/ CreateFails(t, s)
Drop(t) == \E s \in Sensors : DropSensor(t, s) \/ DropNotFound(t, s)
Observe(o) ==
    StatsBegin(o) \/ StatsLock(o) \/ (\E r \in Rings : StatsAdd(o, r)) \/ StatsEnd(o)
Pass(p) == PassMap(p) \/ (\E r \in Rings : EvictRing(p, r)) \/ PassEnd(p)
Loop == LoopCheck \/ LoopLock \/ LoopTest \/ LoopSleep
CloseStep == CloseStop \/ CloseNotify \/ CloseJoin

Next ==
    \/ \E t \in Sensors \cup Maintainers : (\E s \in Sensors : FindRing(t, s)) \/ GetRing(t)
    \/ \E s \in Sensors : AppendToRing(s)
    \/ \E t \in Sensors \cup Droppers : DropCall(t) \/ Drop(t)
    \/ \E o \in Observers : Observe(o)
    \/ \E m \in Maintainers : PassCall(m)
    \/ \E p \in Passers : PassLock(p) \/ Pass(p)
    \/ Loop \/ LoopTimeout
    \/ CloseBegin \/ CloseStep

\* A thread inside a call runs on. A lock that is free again and again is got
\* in the end. Nothing is assumed of the timer, so an interval may be as long
\* as the configuration likes, and no call has to be made.
Fairness ==
    /\ \A t \in Sensors \cup Maintainers : SF_vars(GetRing(t))
    /\ \A s \in Sensors : WF_vars(AppendToRing(s))
    /\ \A t \in Sensors \cup Droppers : SF_vars(Drop(t))
    /\ \A o \in Observers : SF_vars(pc[o] # "idle" /\ Observe(o))
    /\ \A p \in Passers : SF_vars(PassLock(p)) /\ SF_vars(Pass(p))
    /\ WF_vars(Loop)
    /\ WF_vars(CloseStep)

Spec == Init /\ [][Next]_vars
FairSpec == Spec /\ Fairness

-----------------------------------------------------------------------------
(* Properties *)

\* The state of the engine and of the threads inside it.
TypeOK ==
    /\ cap \in {0, MaxSensors}
    /\ map \in [Sensors -> Rings \cup {Absent, NoRing}]
    /\ live \subseteq Rings /\ unused \subseteq Rings \ live
    /\ overwritten \in [Rings -> Nat]
    /\ dropped \in Nat
    /\ pc \in [Threads -> {"idle", "create", "append", "drop", "stats", "sum", "pass",
                           "passmap", "evict", "check", "lock", "test", "wait", "asleep",
                           "woken", "recheck", "exited"}]
    /\ ptr \in [Sensors -> Rings \cup {NoRing}]
    /\ readers \subseteq Threads /\ passOwner \subseteq Passers
    /\ sum \in [Observers -> Nat]
    /\ todo \in [Observers \cup Passers -> SUBSET Rings]
    /\ closing \in {"open", "stop", "notify", "join", "closed"}
    /\ stop \in BOOLEAN /\ evictionMu \in BOOLEAN
    /\ reported \in [Observers -> Nat]
    /\ raced \subseteq Observers /\ undercut \subseteq Sensors

\* Every ring a thread still works on exists: a producer's outside all locks
\* (engine.cpp:556-571), until some other thread calls drop_sensor for its sensor;
\* a pass's and get_stats' under the shared map lock, whoever drops.
RingsInUseExist ==
    /\ \A s \in Sensors : pc[s] = "append" => ptr[s] \in live \/ s \in undercut
    /\ \A t \in Observers \cup Passers : todo[t] \subseteq live

\* max_sensors holds although the fast path counts nothing: two producers that
\* both missed cannot both take the last place (engine.cpp:1334-1347).
LimitRespected == cap = 0 \/ Cardinality(Registered) <= cap

\* One pass at a time: they share evict_scratch_ (engine.cpp:1482-1484).
OneScratchUser == Cardinality({p \in Passers : pc[p] \in {"passmap", "evict"}}) <= 1

\* When chronosv_close has returned no pass runs or ever will.
ClosedIsQuiet == closing = "closed" => \A p \in Passers : pc[p] \in {"idle", "exited"}

Lifetime == dropped + MapThenSumSet(LAMBDA r : overwritten[r], live)

\* Entries once counted as overwritten stay counted: a drop moves the count of
\* its ring to the engine's (engine.cpp:516-528).
LossIsNeverForgotten == [][Lifetime' >= Lifetime]_vars

\* get_stats never counts a loss twice, whatever drops and appends overlap it.
LossIsNotInflated == \A o \in Observers : sum[o] <= Lifetime

\* What an observer reads in total_overwritten_entries never goes back
\* (test_engine.cpp:913-950), if no drop_sensor overlapped the call.
StatsRewindNeedsDrop ==
    [][\A o \in Observers : o \in raced \/ reported'[o] >= reported[o]]_vars

\* The same for every call, as "an honest lifetime overwrite total" promises
\* (engine.cpp:516-520).
StatsNeverRewind == [][\A o \in Observers : reported'[o] >= reported[o]]_vars

\* Every call returns, whatever the others do.
CallsReturn == \A t \in Callers : pc[t] # "idle" ~> pc[t] = "idle"

\* Close joins the eviction thread without waiting for the interval to run out:
\* the notification is not lost (engine.cpp:488-495, 1003-1011).
CloseReturns == closing # "open" ~> closing = "closed"

=============================================================================
