-------------------------- MODULE EngineThreads_proofs --------------------------
(***************************************************************************)
(* Proofs about EngineThreads, for any number of sensors, callers and       *)
(* rings, any limit, and either kind of lock.                               *)
(*                                                                         *)
(* ThreadsInv ties the map to the rings that exist (MapOwnsRings), the      *)
(* locks to where their holders are (LocksHeld), Close to the threads it    *)
(* has found idle (ClosingIsQuiet), and what a get_stats has added up so    *)
(* far to what is still to be added (StatsBounds).  That a producer's ring  *)
(* exists needs ProducerInv on top, and that no thread but the producer of  *)
(* a sensor drops it.                                                       *)
(***************************************************************************)
EXTENDS EngineThreads, FiniteLemmas

-----------------------------------------------------------------------------
(* The inductive invariant *)

\* A ring exists as long as the map has it, for one sensor.
MapOwnsRings ==
    /\ live = {map[s] : s \in Sensors} \cap Rings
    /\ \A s, u \in Sensors : map[s] \in Rings /\ map[s] = map[u] => s = u
    /\ IsFiniteSet(live)

\* Who holds which lock, and that rings still to be visited need the map's.
LocksHeld ==
    /\ readers = {t \in Threads : pc[t] \in {"sum", "evict"}}
    /\ passOwner = {p \in Passers : pc[p] \in {"passmap", "evict"}}
    /\ \A p, q \in passOwner : p = q
    /\ \A t \in Observers \cup Passers : todo[t] # {} => t \in readers

RoomLeft == cap = 0 \/ (IsFiniteSet(Registered) /\ Cardinality(Registered) <= cap)

ClosingIsQuiet ==
    /\ closing # "open" => \A t \in UNION {Sensors, Maintainers, Droppers} : pc[t] = "idle"
    /\ closing = "closed" => pc[Worker] = "exited"

ToAdd(o) == SumOver(overwritten, todo[o])

\* What get_stats has plus what it will add is bounded by the losses so far, and
\* by the last answer from below if no drop came between.
StatsBounds ==
    \A o \in Observers :
        /\ pc[o] = "stats" => sum[o] <= dropped
        /\ sum[o] + ToAdd(o) <= Lifetime
        /\ reported[o] <= Lifetime
        /\ pc[o] = "stats" /\ o \notin raced => sum[o] = dropped
        /\ pc[o] = "sum" /\ o \notin raced => reported[o] <= sum[o] + ToAdd(o)

ThreadsInv ==
    /\ TypeOK
    /\ \A s \in Sensors : pc[s] = "append" => ptr[s] \in Rings
    /\ MapOwnsRings
    /\ LocksHeld
    /\ RoomLeft
    /\ ClosingIsQuiet
    /\ \A t \in Observers \cup Passers : todo[t] \subseteq live
    /\ StatsBounds

\* A producer that appends works on the ring the map has for its sensor.
ProducerInv == \A s \in Sensors : pc[s] = "append" => ptr[s] = map[s] \/ s \in undercut

-----------------------------------------------------------------------------
(* Which steps touch what *)

\* The steps one by one.
LEMMA Steps ==
  ASSUME [Next]_vars
  PROVE  \/ \E t \in Sensors \cup Maintainers, s \in Sensors :
              \/ FindRing(t, s)
              \/ RingExists(t, s)
              \/ CreateRing(t, s)
              \/ CreateFails(t, s)
         \/ \E s \in Sensors : AppendToRing(s)
         \/ \E t \in Sensors \cup Droppers : DropCall(t)
         \/ \E t \in Sensors \cup Droppers, s \in Sensors :
              DropSensor(t, s) \/ DropNotFound(t, s)
         \/ \E o \in Observers : StatsBegin(o) \/ StatsLock(o) \/ StatsEnd(o)
         \/ \E o \in Observers, r \in Rings : StatsAdd(o, r)
         \/ \E m \in Maintainers : PassCall(m)
         \/ \E p \in Passers : PassLock(p) \/ PassMap(p) \/ PassEnd(p)
         \/ \E p \in Passers, r \in Rings : EvictRing(p, r)
         \/ LoopCheck \/ LoopLock \/ LoopTest \/ LoopSleep \/ LoopTimeout
         \/ CloseBegin \/ CloseStop \/ CloseNotify \/ CloseJoin
         \/ UNCHANGED vars
BY Zenon DEF Next, GetRing, Drop, Observe, Pass, Loop, CloseStep

\* The threads of each kind are threads.
LEMMA Kinds ==
  /\ Sensors \subseteq Threads /\ Observers \subseteq Threads
  /\ Maintainers \subseteq Threads /\ Droppers \subseteq Threads
  /\ Passers \subseteq Threads /\ Worker \in Threads /\ Worker \in Passers
  /\ Worker \notin UNION {Sensors, Observers, Maintainers, Droppers}
  /\ Sensors \cap Observers = {} /\ Sensors \cap Passers = {}
  /\ Observers \cap Passers = {} /\ Droppers \cap Passers = {}
  /\ Observers \cap Droppers = {}
BY ThreadsAssumption DEF Threads, Callers, Passers

\* The map changes when a ring is put into it and when a sensor is dropped.
LEMMA MapSteps ==
  ASSUME [Next]_vars
  PROVE  \/ UNCHANGED mapVars
         \/ \E t \in Sensors \cup Maintainers, s \in Sensors : CreateRing(t, s)
         \/ \E t \in Sensors \cup Droppers, s \in Sensors : DropSensor(t, s)
<1> USE Steps DEF vars, closeOnly, workerOnly
<1>1. CASE \E t \in Sensors \cup Maintainers, s \in Sensors :
              FindRing(t, s) \/ RingExists(t, s) \/ CreateFails(t, s)
  BY <1>1 DEF FindRing, RingExists, CreateFails
<1>2. CASE \E s \in Sensors : AppendToRing(s)
  BY <1>2 DEF AppendToRing
<1>3. CASE \E t \in Sensors \cup Droppers : DropCall(t) \/ \E s \in Sensors : DropNotFound(t, s)
  BY <1>3 DEF DropCall, DropNotFound
<1>4. CASE \E o \in Observers : \/ StatsBegin(o) \/ StatsLock(o) \/ StatsEnd(o)
                               \/ \E r \in Rings : StatsAdd(o, r)
  BY <1>4 DEF StatsBegin, StatsLock, StatsAdd, StatsEnd
<1>5. CASE \E p \in Passers : \/ PassLock(p) \/ PassMap(p) \/ PassEnd(p)
                             \/ \E r \in Rings : EvictRing(p, r)
  BY <1>5 DEF PassLock, PassMap, EvictRing, PassEnd
<1>6. CASE \E m \in Maintainers : PassCall(m)
  BY <1>6 DEF PassCall
<1>7. CASE LoopCheck \/ LoopLock \/ LoopTest \/ LoopSleep \/ LoopTimeout
  BY <1>7 DEF LoopCheck, LoopLock, LoopTest, LoopSleep, LoopTimeout
<1>8. CASE CloseBegin \/ CloseStop \/ CloseNotify \/ CloseJoin
  BY <1>8 DEF CloseBegin, CloseStop, CloseNotify, CloseJoin
<1>9. CASE UNCHANGED vars
  BY <1>9
<1> QED
  BY <1>1, <1>2, <1>3, <1>4, <1>5, <1>6, <1>7, <1>8, <1>9, Steps

-----------------------------------------------------------------------------
(* Types *)

\* A new engine's state has its types.
LEMMA TypeInit == Init => TypeOK
<1> SUFFICES ASSUME Init PROVE TypeOK
  OBVIOUS
<1>1. cap \in {0, MaxSensors} /\ map \in [Sensors -> Rings \cup {Absent, NoRing}]
  BY DEF Init
<1> QED
  BY <1>1, Kinds DEF Init, TypeOK

\* The label a thread goes to is one.
LEMMA GotoTyped ==
  ASSUME TypeOK, NEW t \in Threads,
         NEW l \in {"idle", "create", "append", "drop", "stats", "sum", "pass", "passmap",
                    "evict", "check", "lock", "test", "wait", "asleep", "woken", "recheck",
                    "exited"},
         Goto(t, l)
  PROVE  pc' \in [Threads -> {"idle", "create", "append", "drop", "stats", "sum", "pass",
                           "passmap", "evict", "check", "lock", "test", "wait", "asleep",
                           "woken", "recheck", "exited"}]
BY DEF TypeOK, Goto

\* A producer that got a ring goes on to append with it.
LEMMA GotRingTyped ==
  ASSUME TypeOK, NEW t \in Threads, NEW s \in Sensors, NEW r \in Rings, GotRing(t, s, r)
  PROVE  /\ pc' \in [Threads -> {"idle", "create", "append", "drop", "stats", "sum", "pass",
                           "passmap", "evict", "check", "lock", "test", "wait", "asleep",
                           "woken", "recheck", "exited"}]
         /\ ptr' \in [Sensors -> Rings \cup {NoRing}]
BY GotoTyped DEF TypeOK, GotRing

\* No step leaves the types.
LEMMA TypeStep == TypeOK /\ [Next]_vars => TypeOK'
<1> SUFFICES ASSUME TypeOK, [Next]_vars PROVE TypeOK'
  OBVIOUS
<1> USE Kinds, GotoTyped DEF TypeOK, mapVars, countVars, lockVars, statsVars, closeVars
<1>1. ASSUME NEW t \in Sensors \cup Maintainers, NEW s \in Sensors, FindRing(t, s)
      PROVE  TypeOK'
  BY <1>1, GotRingTyped DEF FindRing
<1>2. ASSUME NEW t \in Sensors \cup Maintainers, NEW s \in Sensors, RingExists(t, s)
      PROVE  TypeOK'
  BY <1>2, GotRingTyped DEF RingExists
<1>3. ASSUME NEW t \in Sensors \cup Maintainers, NEW s \in Sensors, CreateRing(t, s)
      PROVE  TypeOK'
  <2>1. PICK r \in unused :
          /\ unused' = unused \ {r} /\ live' = (live \ {map[s]}) \cup {r}
          /\ map' = [map EXCEPT ![s] = r] /\ GotRing(t, s, r)
    BY <1>3 DEF CreateRing, PutRing
  <2>2. r \in Rings /\ t \in Threads
    OBVIOUS
  <2> QED
    BY <1>3, <2>1, <2>2, GotRingTyped DEF CreateRing, PutRing
<1>4. ASSUME NEW t \in Sensors \cup Maintainers, NEW s \in Sensors, CreateFails(t, s)
      PROVE  TypeOK'
  BY <1>4 DEF CreateFails
<1>5. ASSUME NEW s \in Sensors, AppendToRing(s) PROVE TypeOK'
  <2>1. PICK lost \in {0, 1} : overwritten' = [overwritten EXCEPT ![ptr[s]] = @ + lost]
    BY <1>5 DEF AppendToRing
  <2>2. overwritten' \in [Rings -> Nat]
    <3>1. CASE ptr[s] \in Rings
      BY <2>1, <3>1
    <3>2. CASE ptr[s] \notin Rings
      BY <2>1, <3>2
    <3> QED
      BY <3>1, <3>2
  <2> QED
    BY <1>5, <2>2 DEF AppendToRing
<1>6. ASSUME NEW t \in Sensors \cup Droppers, DropCall(t) PROVE TypeOK'
  BY <1>6 DEF DropCall
<1>7. ASSUME NEW t \in Sensors \cup Droppers, NEW s \in Sensors, DropSensor(t, s)
      PROVE  TypeOK'
  BY <1>7 DEF DropSensor, Forget
<1>8. ASSUME NEW t \in Sensors \cup Droppers, NEW s \in Sensors, DropNotFound(t, s)
      PROVE  TypeOK'
  BY <1>8 DEF DropNotFound
<1>9. ASSUME NEW o \in Observers, StatsBegin(o) PROVE TypeOK'
  BY <1>9 DEF StatsBegin
<1>10. ASSUME NEW o \in Observers, StatsLock(o) PROVE TypeOK'
  BY <1>10 DEF StatsLock, Registered
<1>11. ASSUME NEW o \in Observers, NEW r \in Rings, StatsAdd(o, r) PROVE TypeOK'
  BY <1>11 DEF StatsAdd
<1>12. ASSUME NEW o \in Observers, StatsEnd(o) PROVE TypeOK'
  BY <1>12 DEF StatsEnd
<1>13. ASSUME NEW m \in Maintainers, PassCall(m) PROVE TypeOK'
  BY <1>13 DEF PassCall
<1>14. ASSUME NEW p \in Passers, PassLock(p) PROVE TypeOK'
  BY <1>14 DEF PassLock
<1>15. ASSUME NEW p \in Passers, PassMap(p) PROVE TypeOK'
  BY <1>15 DEF PassMap, Registered
<1>16. ASSUME NEW p \in Passers, NEW r \in Rings, EvictRing(p, r) PROVE TypeOK'
  BY <1>16 DEF EvictRing
<1>17. ASSUME NEW p \in Passers, PassEnd(p) PROVE TypeOK'
  BY <1>17 DEF PassEnd
<1>18. CASE LoopCheck
  BY <1>18 DEF LoopCheck, workerOnly
<1>19. CASE LoopLock
  BY <1>19 DEF LoopLock, workerOnly
<1>20. CASE LoopTest
  BY <1>20 DEF LoopTest, workerOnly
<1>21. CASE LoopSleep
  BY <1>21 DEF LoopSleep, workerOnly
<1>22. CASE LoopTimeout
  BY <1>22 DEF LoopTimeout, workerOnly
<1>23. CASE CloseBegin
  BY <1>23 DEF CloseBegin, closeOnly
<1>24. CASE CloseStop
  BY <1>24 DEF CloseStop, closeOnly
<1>25. CASE CloseNotify
  BY <1>25 DEF CloseNotify, Wake, closeOnly
<1>26. CASE CloseJoin
  BY <1>26 DEF CloseJoin, closeOnly
<1>27. CASE UNCHANGED vars
  BY <1>27 DEF vars
<1> QED
  BY <1>1, <1>2, <1>3, <1>4, <1>5, <1>6, <1>7, <1>8, <1>9, <1>10, <1>11, <1>12, <1>13,
     <1>14, <1>15, <1>16, <1>17, <1>18, <1>19, <1>20, <1>21, <1>22, <1>23, <1>24, <1>25,
     <1>26, <1>27, Steps

-----------------------------------------------------------------------------
(* The map and its rings *)

\* Rings are created for one sensor and destroyed with its entry of the map:
\* the second look under the exclusive lock keeps two producers from creating one each.
LEMMA MapOwnsRingsStep == TypeOK /\ MapOwnsRings /\ [Next]_vars => MapOwnsRings'
<1> SUFFICES ASSUME TypeOK, MapOwnsRings, [Next]_vars PROVE MapOwnsRings'
  OBVIOUS
<1>1. CASE UNCHANGED mapVars
  BY <1>1 DEF mapVars, MapOwnsRings
<1>2. ASSUME NEW t \in Sensors \cup Maintainers, NEW s \in Sensors, CreateRing(t, s)
      PROVE  MapOwnsRings'
  <2>1. PICK r \in unused :
          live' = (live \ {map[s]}) \cup {r} /\ map' = [map EXCEPT ![s] = r]
    BY <1>2 DEF CreateRing, PutRing
  <2>2. r \in Rings /\ r \notin live /\ map[s] \notin live
    BY <1>2 DEF TypeOK, CreateRing
  <2>3. live' = live \cup {r}
    BY <2>1, <2>2
  <2>4. \A u \in Sensors : map'[u] = IF u = s THEN r ELSE map[u]
    BY <2>1 DEF TypeOK
  <2>5. live' = {map'[u] : u \in Sensors} \cap Rings
    <3>1. ASSUME NEW x \in live' PROVE x \in {map'[u] : u \in Sensors} \cap Rings
      <4>1. CASE x = r
        BY <4>1, <2>2, <2>4
      <4>2. CASE x \in live
        <5>1. PICK u \in Sensors : x = map[u]
          BY <4>2 DEF MapOwnsRings
        <5>2. u # s
          BY <5>1, <4>2, <2>2
        <5> QED
          BY <5>1, <5>2, <2>4, <4>2 DEF TypeOK
      <4> QED
        BY <4>1, <4>2, <2>3
    <3>2. ASSUME NEW u \in Sensors, map'[u] \in Rings PROVE map'[u] \in live'
      BY <3>2, <2>3, <2>4 DEF MapOwnsRings
    <3> QED
      BY <3>1, <3>2
  <2>6. \A u, v \in Sensors : map'[u] \in Rings /\ map'[u] = map'[v] => u = v
    <3>1. \A u \in Sensors : map[u] # r
      BY <2>2 DEF MapOwnsRings
    <3> QED
      BY <3>1, <2>4 DEF MapOwnsRings
  <2>7. IsFiniteSet(live')
    BY <2>3, FS_AddElement DEF MapOwnsRings
  <2> QED
    BY <2>5, <2>6, <2>7 DEF MapOwnsRings
<1>3. ASSUME NEW t \in Sensors \cup Droppers, NEW s \in Sensors, DropSensor(t, s)
      PROVE  MapOwnsRings'
  <2>1. live' = live \ {map[s]} /\ \A u \in Sensors : map'[u] = IF u = s THEN Absent ELSE map[u]
    BY <1>3 DEF TypeOK, DropSensor, Forget
  <2>2. live' = {map'[u] : u \in Sensors} \cap Rings
    <3>1. ASSUME NEW x \in live' PROVE x \in {map'[u] : u \in Sensors} \cap Rings
      <4>1. PICK u \in Sensors : x = map[u] /\ x # map[s]
        BY <2>1 DEF MapOwnsRings
      <4> QED
        BY <4>1, <2>1 DEF MapOwnsRings
    <3>2. ASSUME NEW u \in Sensors, map'[u] \in Rings PROVE map'[u] \in live'
      BY <3>2, <2>1, RingsAssumption DEF MapOwnsRings
    <3> QED
      BY <3>1, <3>2
  <2>3. \A u, v \in Sensors : map'[u] \in Rings /\ map'[u] = map'[v] => u = v
    BY <2>1, RingsAssumption DEF MapOwnsRings
  <2>4. IsFiniteSet(live')
    BY <2>1, FS_RemoveElement DEF MapOwnsRings
  <2> QED
    BY <2>2, <2>3, <2>4 DEF MapOwnsRings
<1> QED
  BY <1>1, <1>2, <1>3, MapSteps

\* A sensor joins the map only when the limit leaves room, and under the
\* exclusive lock the count cannot change before it does.
LEMMA RoomLeftStep == TypeOK /\ RoomLeft /\ [Next]_vars => RoomLeft'
<1> SUFFICES ASSUME TypeOK, RoomLeft, [Next]_vars PROVE RoomLeft'
  OBVIOUS
<1>1. CASE UNCHANGED mapVars
  BY <1>1 DEF mapVars, RoomLeft, Registered
<1>2. ASSUME NEW t \in Sensors \cup Maintainers, NEW s \in Sensors, CreateRing(t, s)
      PROVE  RoomLeft'
  <2>1. cap' = cap /\ ~Full(s) /\ cap \in Nat
    BY <1>2, LimitsAssumption DEF CreateRing, PutRing, TypeOK
  <2>2. PICK r \in Rings : map' = [map EXCEPT ![s] = r]
    BY <1>2 DEF CreateRing, PutRing, TypeOK
  <2>3. Registered' = Registered \cup {s}
    BY <2>2, RingsAssumption DEF Registered, TypeOK
  <2>4. CASE cap # 0
    <3>1. IsFiniteSet(Registered) /\ Cardinality(Registered) \in Nat
      BY <2>4, FS_CardinalityType DEF RoomLeft
    <3>2. CASE s \in Registered
      <4>1. Registered' = Registered
        BY <2>3, <3>2
      <4> QED
        BY <4>1, <2>1 DEF RoomLeft
    <3>3. CASE s \notin Registered
      <4>1. Cardinality(Registered) < cap
        BY <2>1, <2>4, <3>1, <3>3 DEF Full, Registered
      <4>2. IsFiniteSet(Registered') /\ Cardinality(Registered') = Cardinality(Registered) + 1
        BY <2>3, <3>1, <3>3, FS_AddElement
      <4> QED
        BY <4>1, <4>2, <3>1, <2>1 DEF RoomLeft
    <3> QED
      BY <3>2, <3>3
  <2> QED
    BY <2>1, <2>4 DEF RoomLeft
<1>3. ASSUME NEW t \in Sensors \cup Droppers, NEW s \in Sensors, DropSensor(t, s)
      PROVE  RoomLeft'
  <2>1. cap' = cap /\ cap \in Nat
    BY <1>3, LimitsAssumption DEF DropSensor, TypeOK
  <2>2. Registered' \in SUBSET Registered
    BY <1>3 DEF DropSensor, Forget, Registered, TypeOK
  <2>3. CASE cap # 0
    <3>1. IsFiniteSet(Registered) /\ Cardinality(Registered) \in Nat
      BY <2>3, FS_CardinalityType DEF RoomLeft
    <3>2. IsFiniteSet(Registered') /\ Cardinality(Registered') <= Cardinality(Registered)
      BY <3>1, <2>2, FS_Subset
    <3>3. Cardinality(Registered') \in Nat
      BY <3>2, FS_CardinalityType
    <3> QED
      BY <3>1, <3>2, <3>3, <2>1 DEF RoomLeft
  <2> QED
    BY <2>1, <2>3 DEF RoomLeft
<1> QED
  BY <1>1, <1>2, <1>3, MapSteps

-----------------------------------------------------------------------------
(* The locks *)

\* Every step takes and gives back the locks its place in the code says.
LEMMA LocksHeldStep == TypeOK /\ LocksHeld /\ [Next]_vars => LocksHeld'
<1> SUFFICES ASSUME TypeOK, LocksHeld, [Next]_vars PROVE LocksHeld'
  OBVIOUS
<1> USE Kinds DEF TypeOK, LocksHeld, Goto, mapVars, countVars, lockVars, statsVars, closeVars
<1>1. ASSUME NEW t \in Sensors \cup Maintainers, NEW s \in Sensors,
             FindRing(t, s) \/ RingExists(t, s) \/ CreateRing(t, s) \/ CreateFails(t, s)
      PROVE  LocksHeld'
  <2>1. /\ pc[t] \in {"idle", "create"} /\ pc'[t] \in {"idle", "create", "append"}
        /\ \A u \in Threads : u # t => pc'[u] = pc[u]
        /\ UNCHANGED <<readers, passOwner, todo>>
    BY <1>1 DEF FindRing, RingExists, CreateRing, CreateFails, PutRing, GotRing, MayCall
  <2> QED
    BY <2>1
<1>2. ASSUME NEW s \in Sensors, AppendToRing(s) PROVE LocksHeld'
  BY <1>2 DEF AppendToRing
<1>3. ASSUME NEW t \in Sensors \cup Droppers,
             DropCall(t) \/ \E s \in Sensors : DropSensor(t, s) \/ DropNotFound(t, s)
      PROVE  LocksHeld'
  <2>1. /\ pc[t] \in {"idle", "drop"} /\ pc'[t] \in {"idle", "drop"}
        /\ \A u \in Threads : u # t => pc'[u] = pc[u]
        /\ UNCHANGED <<readers, passOwner, todo>>
    BY <1>3 DEF DropCall, DropSensor, DropNotFound, MayCall
  <2> QED
    BY <2>1
<1>4. ASSUME NEW o \in Observers, StatsBegin(o) PROVE LocksHeld'
  BY <1>4 DEF StatsBegin
<1>5. ASSUME NEW o \in Observers, StatsLock(o) PROVE LocksHeld'
  BY <1>5 DEF StatsLock
<1>6. ASSUME NEW o \in Observers, NEW r \in Rings, StatsAdd(o, r) PROVE LocksHeld'
  BY <1>6 DEF StatsAdd
<1>7. ASSUME NEW o \in Observers, StatsEnd(o) PROVE LocksHeld'
  BY <1>7 DEF StatsEnd
<1>8. ASSUME NEW m \in Maintainers, PassCall(m) PROVE LocksHeld'
  BY <1>8 DEF PassCall, MayCall
<1>9. ASSUME NEW p \in Passers, PassLock(p) PROVE LocksHeld'
  BY <1>9 DEF PassLock
<1>10. ASSUME NEW p \in Passers, PassMap(p) PROVE LocksHeld'
  BY <1>10 DEF PassMap
<1>11. ASSUME NEW p \in Passers, NEW r \in Rings, EvictRing(p, r) PROVE LocksHeld'
  BY <1>11 DEF EvictRing
<1>12. ASSUME NEW p \in Passers, PassEnd(p) PROVE LocksHeld'
  BY <1>12 DEF PassEnd
<1>13. CASE LoopCheck \/ LoopLock \/ LoopTest \/ LoopSleep \/ LoopTimeout
  <2>1. /\ pc[Worker] \in {"check", "recheck", "lock", "woken", "test", "wait", "asleep"}
        /\ pc'[Worker] \notin {"sum", "evict", "passmap"}
        /\ \A u \in Threads : u # Worker => pc'[u] = pc[u]
        /\ UNCHANGED <<readers, passOwner, todo>>
    BY <1>13 DEF LoopCheck, LoopLock, LoopTest, LoopSleep, LoopTimeout, workerOnly
  <2> QED
    BY <2>1
<1>14. CASE CloseBegin \/ CloseStop \/ CloseJoin
  BY <1>14 DEF CloseBegin, CloseStop, CloseJoin, closeOnly
<1>15. CASE CloseNotify
  BY <1>15 DEF CloseNotify, Wake, closeOnly
<1>16. CASE UNCHANGED vars
  BY <1>16 DEF vars
<1> QED
  BY <1>1, <1>2, <1>3, <1>4, <1>5, <1>6, <1>7, <1>8, <1>9, <1>10, <1>11, <1>12, <1>13,
     <1>14, <1>15, <1>16, Steps

\* A producer that appends has a ring.
LEMMA PointerStep ==
  ASSUME TypeOK, \A s \in Sensors : pc[s] = "append" => ptr[s] \in Rings, [Next]_vars
  PROVE  (\A s \in Sensors : pc[s] = "append" => ptr[s] \in Rings)'
<1> USE Kinds DEF TypeOK, Goto, mapVars, countVars, lockVars, statsVars, closeVars
<1> DEFINE Good == \A s \in Sensors : pc[s] = "append" => ptr[s] \in Rings
<1>1. ASSUME NEW t \in Sensors \cup Maintainers, NEW s \in Sensors,
             \/ FindRing(t, s) \/ RingExists(t, s)
             \/ CreateRing(t, s) \/ CreateFails(t, s)
      PROVE  Good'
  <2>1. \/ Goto(t, "create") /\ UNCHANGED ptr
        \/ Goto(t, "idle") /\ UNCHANGED ptr
        \/ \E r \in Rings : t = s /\ ptr' = [ptr EXCEPT ![s] = r] /\ Goto(t, "append")
    BY <1>1 DEF FindRing, RingExists, CreateRing, PutRing, CreateFails, GotRing
  <2> QED
    BY <2>1
<1>2. ASSUME NEW s \in Sensors, AppendToRing(s) PROVE Good'
  BY <1>2 DEF AppendToRing
<1>3. ASSUME NEW t \in Threads, NEW l \in {"idle", "drop", "stats", "sum", "pass", "passmap",
                    "evict", "check", "lock", "test", "wait", "asleep", "woken", "recheck",
                    "exited"},
             Goto(t, l) \/ UNCHANGED pc, UNCHANGED ptr
      PROVE  Good'
  BY <1>3
<1>4. ASSUME NEW t \in Sensors \cup Droppers,
             DropCall(t) \/ \E s \in Sensors : DropSensor(t, s) \/ DropNotFound(t, s)
      PROVE  Good'
  BY <1>3, <1>4 DEF DropCall, DropSensor, DropNotFound
<1>5. ASSUME NEW o \in Observers,
             \/ StatsBegin(o) \/ StatsLock(o) \/ StatsEnd(o)
             \/ \E r \in Rings : StatsAdd(o, r)
      PROVE  Good'
  BY <1>3, <1>5 DEF StatsBegin, StatsLock, StatsEnd, StatsAdd
<1>6. ASSUME NEW m \in Maintainers, PassCall(m) PROVE Good'
  BY <1>3, <1>6 DEF PassCall
<1>7. ASSUME NEW p \in Passers,
             PassLock(p) \/ PassMap(p) \/ PassEnd(p) \/ \E r \in Rings : EvictRing(p, r)
      PROVE  Good'
  BY <1>3, <1>7 DEF PassLock, PassMap, PassEnd, EvictRing
<1>8. CASE LoopCheck \/ LoopLock \/ LoopTest \/ LoopSleep \/ LoopTimeout
  BY <1>3, <1>8 DEF LoopCheck, LoopLock, LoopTest, LoopSleep, LoopTimeout, workerOnly
<1>9. CASE CloseBegin \/ CloseStop \/ CloseNotify \/ CloseJoin
  BY <1>3, <1>9 DEF CloseBegin, CloseStop, CloseNotify, CloseJoin, Wake, closeOnly
<1>10. CASE UNCHANGED vars
  BY <1>10 DEF vars
<1> QED
  BY <1>1, <1>2, <1>4, <1>5, <1>6, <1>7, <1>8, <1>9, <1>10, Steps

\* Rings still to be visited are in the map: it cannot lose them as long as it
\* has readers.
LEMMA TodoStep ==
  ASSUME TypeOK, MapOwnsRings, LocksHeld, [Next]_vars,
         \A t \in Observers \cup Passers : todo[t] \subseteq live
  PROVE  (\A t \in Observers \cup Passers : todo[t] \subseteq live)'
<1> USE Kinds DEF TypeOK, mapVars, countVars, lockVars, statsVars, closeVars
<1> DEFINE Good == \A t \in Observers \cup Passers : todo[t] \subseteq live
<1>1. ASSUME NEW t \in Sensors \cup Maintainers, NEW s \in Sensors, CreateRing(t, s)
      PROVE  Good'
  <2>1. live \subseteq live' /\ UNCHANGED todo
    BY <1>1 DEF CreateRing, PutRing
  <2> QED
    BY <2>1
<1>2. ASSUME NEW t \in Sensors \cup Droppers, NEW s \in Sensors, DropSensor(t, s) PROVE Good'
  <2>1. UNCHANGED todo /\ \A u \in Observers \cup Passers : todo[u] = {}
    BY <1>2 DEF DropSensor, MapExclusive, LocksHeld
  <2> QED
    BY <2>1
<1>3. ASSUME NEW t \in Observers \cup Passers, UNCHANGED live,
             \/ UNCHANGED todo
             \/ \E r \in Rings : todo' = [todo EXCEPT ![t] = @ \ {r}]
             \/ todo' = [todo EXCEPT ![t] = {map[s] : s \in Registered} \ {NoRing}]
      PROVE  Good'
  <2>1. {map[s] : s \in Registered} \ {NoRing} \subseteq live
    BY DEF MapOwnsRings, Registered
  <2> QED
    BY <1>3, <2>1
<1>4. ASSUME NEW o \in Observers,
             \/ StatsBegin(o) \/ StatsLock(o) \/ StatsEnd(o)
             \/ \E r \in Rings : StatsAdd(o, r)
      PROVE  Good'
  BY <1>3, <1>4 DEF StatsBegin, StatsLock, StatsEnd, StatsAdd
<1>5. ASSUME NEW p \in Passers,
             PassLock(p) \/ PassMap(p) \/ PassEnd(p) \/ \E r \in Rings : EvictRing(p, r)
      PROVE  Good'
  BY <1>3, <1>5 DEF PassLock, PassMap, PassEnd, EvictRing
<1>6. ASSUME UNCHANGED <<live, todo>> PROVE Good'
  BY <1>6
<1>7. ASSUME NEW t \in Sensors \cup Maintainers, NEW s \in Sensors,
             FindRing(t, s) \/ RingExists(t, s) \/ CreateFails(t, s)
      PROVE  Good'
  BY <1>6, <1>7 DEF FindRing, RingExists, CreateFails
<1>8. ASSUME NEW t \in Sensors \cup Droppers,
             DropCall(t) \/ \E s \in Sensors : DropNotFound(t, s)
      PROVE  Good'
  BY <1>6, <1>8 DEF DropCall, DropNotFound
<1>9. ASSUME \/ \E s \in Sensors : AppendToRing(s)
             \/ \E m \in Maintainers : PassCall(m)
             \/ LoopCheck \/ LoopLock \/ LoopTest \/ LoopSleep \/ LoopTimeout
             \/ CloseBegin \/ CloseStop \/ CloseNotify \/ CloseJoin
             \/ UNCHANGED vars
      PROVE  Good'
  BY <1>6, <1>9 DEF AppendToRing, PassCall, LoopCheck, LoopLock, LoopTest, LoopSleep,
     LoopTimeout, CloseBegin, CloseStop, CloseNotify, CloseJoin, vars, workerOnly, closeOnly
<1> QED
  BY <1>1, <1>2, <1>4, <1>5, <1>7, <1>8, <1>9, Steps

-----------------------------------------------------------------------------
(* Close *)

\* Once Close was called no call starts, and it returns after the join.
LEMMA ClosingStep == TypeOK /\ ClosingIsQuiet /\ [Next]_vars => ClosingIsQuiet'
<1> SUFFICES ASSUME TypeOK, ClosingIsQuiet, [Next]_vars PROVE ClosingIsQuiet'
  OBVIOUS
<1> USE Kinds DEF TypeOK, ClosingIsQuiet, Goto, mapVars, countVars, lockVars, statsVars, closeVars
<1>1. ASSUME NEW t \in UNION {Sensors, Maintainers, Droppers}, closing = "open",
             UNCHANGED closing
      PROVE  ClosingIsQuiet'
  BY <1>1
<1>2. ASSUME NEW t \in Observers \cup Passers, pc[t] # "exited",
             t \in Maintainers => closing = "open",
             UNCHANGED closing, UNCHANGED pc \/ \E l : Goto(t, l)
      PROVE  ClosingIsQuiet'
  <2>1. t \in Maintainers \/ t \notin UNION {Sensors, Maintainers, Droppers}
    BY DEF Passers
  <2>2. \A u \in Threads : u # t => pc'[u] = pc[u]
    BY <1>2
  <2>3. closing = "closed" => t # Worker
    BY <1>2
  <2> QED
    BY <1>2, <2>1, <2>2, <2>3
<1>3. ASSUME NEW t \in Sensors \cup Maintainers, NEW s \in Sensors,
             FindRing(t, s) \/ RingExists(t, s) \/ CreateRing(t, s) \/ CreateFails(t, s)
      PROVE  ClosingIsQuiet'
  BY <1>1, <1>3 DEF FindRing, RingExists, CreateRing, CreateFails, PutRing, MayCall
<1>4. ASSUME NEW s \in Sensors, AppendToRing(s) PROVE ClosingIsQuiet'
  BY <1>1, <1>4 DEF AppendToRing
<1>5. ASSUME NEW t \in Sensors \cup Droppers,
             DropCall(t) \/ \E s \in Sensors : DropSensor(t, s) \/ DropNotFound(t, s)
      PROVE  ClosingIsQuiet'
  BY <1>1, <1>5 DEF DropCall, DropSensor, DropNotFound, MayCall
<1>6. ASSUME NEW o \in Observers,
             \/ StatsBegin(o) \/ StatsLock(o) \/ StatsEnd(o)
             \/ \E r \in Rings : StatsAdd(o, r)
      PROVE  ClosingIsQuiet'
  <2>1. o \notin Maintainers
    BY ThreadsAssumption
  <2> QED
    BY <1>2, <1>6, <2>1 DEF StatsBegin, StatsLock, StatsEnd, StatsAdd
<1>7. ASSUME NEW m \in Maintainers, PassCall(m) PROVE ClosingIsQuiet'
  BY <1>1, <1>7 DEF PassCall, MayCall
<1>8. ASSUME NEW p \in Passers,
             PassLock(p) \/ PassMap(p) \/ PassEnd(p) \/ \E r \in Rings : EvictRing(p, r)
      PROVE  ClosingIsQuiet'
  <2>1. pc[p] \in {"pass", "passmap", "evict"} /\ UNCHANGED closing
        /\ (UNCHANGED pc \/ \E l : Goto(p, l))
    BY <1>8 DEF PassLock, PassMap, PassEnd, EvictRing
  <2> QED
    BY <1>2, <2>1
<1>9. CASE LoopCheck \/ LoopLock \/ LoopTest \/ LoopSleep \/ LoopTimeout
  <2>1. pc[Worker] # "exited" /\ UNCHANGED closing /\ \E l : Goto(Worker, l)
    BY <1>9 DEF LoopCheck, LoopLock, LoopTest, LoopSleep, LoopTimeout, workerOnly
  <2> QED
    BY <1>2, <2>1
<1>10. CASE CloseBegin
  <2>1. \A t \in UNION {Sensors, Maintainers, Droppers} : pc[t] = "idle"
    BY <1>10 DEF CloseBegin, Callers
  <2> QED
    BY <1>10, <2>1 DEF CloseBegin
<1>11. CASE CloseStop \/ CloseJoin
  BY <1>11 DEF CloseStop, CloseJoin
<1>12. CASE CloseNotify
  BY <1>12 DEF CloseNotify, Wake
<1>13. CASE UNCHANGED vars
  BY <1>13 DEF vars
<1> QED
  BY <1>3, <1>4, <1>5, <1>6, <1>7, <1>8, <1>9, <1>10, <1>11, <1>12, <1>13, Steps

-----------------------------------------------------------------------------
(* What get_stats adds up *)

\* The losses of the engine, in terms of SumOver.
LEMMA LifetimeIs == Lifetime = dropped + SumOver(overwritten, live)
BY Zenon DEF Lifetime, SumOver

\* The same after a step.
LEMMA LifetimeIsPrime == Lifetime' = dropped' + SumOver(overwritten', live')
<1>1. (Lifetime = dropped + SumOver(overwritten, live))'
  BY LifetimeIs, PTL
<1> QED
  BY <1>1

\* The sums are naturals.
LEMMA SumsAreNat ==
  ASSUME TypeOK, IsFiniteSet(live)
  PROVE  /\ SumOver(overwritten, live) \in Nat /\ Lifetime \in Nat
         /\ \A T \in SUBSET live : IsFiniteSet(T) /\ SumOver(overwritten, T) \in Nat
<1>1. \A T \in SUBSET live : IsFiniteSet(T)
  BY FS_Subset
<1>2. \A T \in SUBSET live : SumOver(overwritten, T) \in Nat
  BY <1>1, SumOverNat DEF TypeOK
<1> QED
  BY <1>1, <1>2, LifetimeIs DEF TypeOK

\* An append counts what it overwrites once, if its ring is one of these.
LEMMA AppendAddsTo ==
  ASSUME TypeOK, IsFiniteSet(live), NEW s \in Sensors, ptr[s] \in Rings, AppendToRing(s)
  PROVE  \E lost \in {0, 1} : \A T \in SUBSET live :
            SumOver(overwritten', T) = SumOver(overwritten, T) + IF ptr[s] \in T THEN lost ELSE 0
<1>1. PICK lost \in {0, 1} : overwritten' = [overwritten EXCEPT ![ptr[s]] = @ + lost]
  BY DEF AppendToRing
<1>2. ASSUME NEW T \in SUBSET live
      PROVE  SumOver(overwritten', T) = SumOver(overwritten, T) + IF ptr[s] \in T THEN lost ELSE 0
  <2>1. IsFiniteSet(T) /\ T \in SUBSET Rings /\ lost \in Nat
    BY SumsAreNat DEF TypeOK
  <2>2. \A r \in T : /\ overwritten[r] \in Nat
                     /\ overwritten'[r] = overwritten[r] + IF r = ptr[s] THEN lost ELSE 0
    BY <1>1, <2>1 DEF TypeOK
  <2>3. CASE ptr[s] \in T
    <3>1. /\ \A r \in T : overwritten[r] \in Nat
          /\ overwritten'[ptr[s]] = overwritten[ptr[s]] + lost
          /\ \A r \in T \ {ptr[s]} : overwritten'[r] = overwritten[r]
      BY <2>2, <2>3
    <3>2. SumOver(overwritten', T) = SumOver(overwritten, T) + lost
      BY <2>1, <2>3, <3>1, SumOverUpdate
    <3> QED
      BY <2>3, <3>2
  <2>4. CASE ptr[s] \notin T
    <3>1. \A r \in T : overwritten[r] \in Nat /\ overwritten[r] = overwritten'[r]
      BY <2>2, <2>4
    <3>2. SumOver(overwritten, T) = SumOver(overwritten', T)
      BY <2>1, <3>1, SumOverAgrees
    <3> QED
      BY <2>1, <2>4, <3>2, SumsAreNat
  <2> QED
    BY <2>3, <2>4
<1> QED
  BY <1>2

\* A drop moves the count of the ring, and no more, to the engine's.
LEMMA DropMovesCount ==
  ASSUME TypeOK, MapOwnsRings, NEW t \in Threads, NEW s \in Sensors, DropSensor(t, s)
  PROVE  Lifetime' = Lifetime /\ dropped' >= dropped
<1>1. UNCHANGED overwritten /\ live' = live \ {map[s]}
  BY DEF DropSensor, Forget
<1>2. dropped' = dropped + IF map[s] \in Rings THEN overwritten[map[s]] ELSE 0
  BY DEF DropSensor
<1>3. IsFiniteSet(live)
  BY DEF MapOwnsRings
<1>4. CASE map[s] \in Rings
  <2>1. map[s] \in live
    BY <1>4 DEF MapOwnsRings
  <2>2. SumOver(overwritten, live) = overwritten[map[s]] + SumOver(overwritten, live')
    <3>1. \A r \in live : overwritten[r] \in Nat
      BY DEF TypeOK
    <3> QED
      BY <1>1, <1>3, <2>1, <3>1, SumOverRemove
  <2>3. SumOver(overwritten, live') \in Nat /\ overwritten[map[s]] \in Nat /\ dropped \in Nat
    BY <1>1, <1>3, <1>4, SumsAreNat DEF TypeOK
  <2>4. SumOver(overwritten', live') = SumOver(overwritten, live')
    BY <1>1
  <2> QED
    BY <1>2, <1>4, <2>2, <2>3, <2>4, LifetimeIs, LifetimeIsPrime
<1>5. CASE map[s] \notin Rings
  <2>1. live' = live
    BY <1>1, <1>5 DEF TypeOK
  <2> QED
    BY <1>1, <1>2, <1>5, <2>1, LifetimeIs, LifetimeIsPrime DEF TypeOK
<1> QED
  BY <1>4, <1>5

\* A new ring brings its count.
LEMMA CreateAddsCount ==
  ASSUME TypeOK, MapOwnsRings, NEW t \in Threads, NEW s \in Sensors, CreateRing(t, s)
  PROVE  Lifetime' >= Lifetime /\ UNCHANGED countVars
<1>1. UNCHANGED countVars
  BY DEF CreateRing, PutRing
<1>2. PICK r \in unused : live' = (live \ {map[s]}) \cup {r}
  BY DEF CreateRing, PutRing
<1>3. r \in Rings /\ r \notin live /\ live' = live \cup {r}
  BY <1>2 DEF TypeOK, CreateRing
<1>4. IsFiniteSet(live) /\ SumOver(overwritten, live) \in Nat /\ dropped \in Nat
  BY SumsAreNat DEF MapOwnsRings, TypeOK
<1>5. SumOver(overwritten, live') = overwritten[r] + SumOver(overwritten, live)
  <2>1. overwritten[r] \in Nat /\ \A q \in live : overwritten[q] \in Nat
    BY <1>3 DEF TypeOK
  <2> QED
    BY <1>3, <1>4, <2>1, SumOverAdd
<1>6. overwritten[r] \in Nat
  BY <1>3 DEF TypeOK
<1>7. SumOver(overwritten', live') = SumOver(overwritten, live')
  BY <1>1 DEF countVars
<1> QED
  BY <1>1, <1>4, <1>5, <1>6, <1>7, LifetimeIs, LifetimeIsPrime DEF countVars

\* Appends, drops and new rings are the steps that touch counts or rings.
LEMMA CountSteps ==
  ASSUME [Next]_vars
  PROVE  \/ \E s \in Sensors : AppendToRing(s)
         \/ \E t \in Sensors \cup Maintainers, s \in Sensors : CreateRing(t, s)
         \/ \E t \in Sensors \cup Droppers, s \in Sensors : DropSensor(t, s)
         \/ UNCHANGED <<countVars, live>>
<1> USE DEF closeOnly, workerOnly, mapVars
<1>1. CASE \E t \in Sensors \cup Maintainers, s \in Sensors :
              FindRing(t, s) \/ RingExists(t, s) \/ CreateFails(t, s)
  BY <1>1 DEF FindRing, RingExists, CreateFails
<1>2. CASE \E t \in Sensors \cup Droppers : DropCall(t) \/ \E s \in Sensors : DropNotFound(t, s)
  BY <1>2 DEF DropCall, DropNotFound
<1>3. CASE \E o \in Observers : \/ StatsBegin(o) \/ StatsLock(o) \/ StatsEnd(o)
                               \/ \E r \in Rings : StatsAdd(o, r)
  BY <1>3 DEF StatsBegin, StatsLock, StatsAdd, StatsEnd
<1>4. CASE \E p \in Passers : \/ PassLock(p) \/ PassMap(p) \/ PassEnd(p)
                             \/ \E r \in Rings : EvictRing(p, r)
  BY <1>4 DEF PassLock, PassMap, EvictRing, PassEnd
<1>5. CASE \E m \in Maintainers : PassCall(m)
  BY <1>5 DEF PassCall
<1>6. CASE LoopCheck \/ LoopLock \/ LoopTest \/ LoopSleep \/ LoopTimeout
  BY <1>6 DEF LoopCheck, LoopLock, LoopTest, LoopSleep, LoopTimeout
<1>7. CASE CloseBegin \/ CloseStop \/ CloseNotify \/ CloseJoin
  BY <1>7 DEF CloseBegin, CloseStop, CloseNotify, CloseJoin
<1>8. CASE UNCHANGED vars
  BY <1>8 DEF vars
<1> QED
  BY <1>1, <1>2, <1>3, <1>4, <1>5, <1>6, <1>7, <1>8, Steps

\* No step forgets a loss.
LEMMA LifetimeStep ==
  ASSUME TypeOK, MapOwnsRings, [Next]_vars,
         \A s \in Sensors : pc[s] = "append" => ptr[s] \in Rings
  PROVE  Lifetime' >= Lifetime
<1>1. Lifetime \in Nat /\ IsFiniteSet(live)
  BY SumsAreNat DEF MapOwnsRings
<1>2. ASSUME NEW s \in Sensors, AppendToRing(s) PROVE Lifetime' >= Lifetime
  <2>1. ptr[s] \in Rings /\ UNCHANGED <<live, dropped>>
    BY <1>2 DEF AppendToRing, mapVars
  <2>2. PICK lost \in {0, 1} :
          SumOver(overwritten', live)
            = SumOver(overwritten, live) + IF ptr[s] \in live THEN lost ELSE 0
    BY <1>1, <1>2, <2>1, AppendAddsTo
  <2>3. SumOver(overwritten, live) \in Nat /\ dropped \in Nat
    BY <1>1, SumsAreNat DEF TypeOK
  <2>4. SumOver(overwritten', live') = SumOver(overwritten', live)
    BY <2>1
  <2> QED
    BY <2>1, <2>2, <2>3, <2>4, LifetimeIs, LifetimeIsPrime
<1>3. CASE UNCHANGED <<countVars, live>>
  BY <1>1, <1>3, LifetimeIs, LifetimeIsPrime DEF countVars
<1>4. CASE \E t \in Sensors \cup Maintainers, s \in Sensors : CreateRing(t, s)
  BY <1>4, CreateAddsCount, Kinds
<1>5. CASE \E t \in Sensors \cup Droppers, s \in Sensors : DropSensor(t, s)
  BY <1>1, <1>5, DropMovesCount, Kinds
<1> QED
  BY <1>2, <1>3, <1>4, <1>5, CountSteps

\* An observer is where it was unless the step is its own.
LEMMA OthersStay ==
  ASSUME TypeOK, [Next]_vars, NEW o \in Observers,
         ~ StatsBegin(o), ~ StatsLock(o), ~ StatsEnd(o), \A r \in Rings : ~ StatsAdd(o, r)
  PROVE  /\ pc'[o] = pc[o] /\ todo'[o] = todo[o]
         /\ sum'[o] = sum[o] /\ reported'[o] = reported[o]
<1> USE Kinds DEF TypeOK, Goto, mapVars, countVars, lockVars, statsVars, closeVars
<1> DEFINE Same == /\ pc'[o] = pc[o] /\ todo'[o] = todo[o]
                   /\ sum'[o] = sum[o] /\ reported'[o] = reported[o]
<1>1. ASSUME NEW t \in Sensors \cup Maintainers, NEW s \in Sensors,
             FindRing(t, s) \/ RingExists(t, s) \/ CreateRing(t, s) \/ CreateFails(t, s)
      PROVE  Same
  <2>1. t # o
    BY ThreadsAssumption
  <2> QED
    BY <1>1, <2>1 DEF FindRing, RingExists, CreateRing, CreateFails, PutRing, GotRing
<1>2. ASSUME NEW s \in Sensors, AppendToRing(s) PROVE Same
  BY <1>2 DEF AppendToRing
<1>3. ASSUME NEW t \in Sensors \cup Droppers,
             DropCall(t) \/ \E s \in Sensors : DropSensor(t, s) \/ DropNotFound(t, s)
      PROVE  Same
  BY <1>3 DEF DropCall, DropSensor, DropNotFound
<1>4. ASSUME NEW q \in Observers,
             \/ StatsBegin(q) \/ StatsLock(q) \/ StatsEnd(q)
             \/ \E r \in Rings : StatsAdd(q, r)
      PROVE  Same
  <2>1. q # o
    BY <1>4
  <2> QED
    BY <1>4, <2>1 DEF StatsBegin, StatsLock, StatsEnd, StatsAdd
<1>5. ASSUME NEW m \in Maintainers, PassCall(m) PROVE Same
  <2>1. m # o
    BY ThreadsAssumption
  <2> QED
    BY <1>5, <2>1 DEF PassCall
<1>6. ASSUME NEW p \in Passers,
             PassLock(p) \/ PassMap(p) \/ PassEnd(p) \/ \E r \in Rings : EvictRing(p, r)
      PROVE  Same
  BY <1>6 DEF PassLock, PassMap, PassEnd, EvictRing
<1>7. CASE LoopCheck \/ LoopLock \/ LoopTest \/ LoopSleep \/ LoopTimeout
  BY <1>7 DEF LoopCheck, LoopLock, LoopTest, LoopSleep, LoopTimeout, workerOnly
<1>8. CASE CloseBegin \/ CloseStop \/ CloseNotify \/ CloseJoin
  BY <1>8 DEF CloseBegin, CloseStop, CloseNotify, CloseJoin, Wake, closeOnly
<1>9. CASE UNCHANGED vars
  BY <1>9 DEF vars
<1> QED
  BY <1>1, <1>2, <1>3, <1>4, <1>5, <1>6, <1>7, <1>8, <1>9, Steps

\* Only the observers' own first steps and drops say who has been overtaken.
LEMMA RacedSteps ==
  ASSUME TypeOK, [Next]_vars
  PROVE  \/ \E o \in Observers : StatsBegin(o) /\ raced' = raced \ {o}
         \/ /\ \E t \in Sensors \cup Droppers, s \in Sensors : DropSensor(t, s)
            /\ raced' = raced \cup {o \in Observers : pc[o] # "idle"}
         \/ UNCHANGED raced
<1> USE DEF statsVars
<1>1. CASE \E t \in Sensors \cup Maintainers, s \in Sensors :
              FindRing(t, s) \/ RingExists(t, s) \/ CreateRing(t, s) \/ CreateFails(t, s)
  BY <1>1 DEF FindRing, RingExists, CreateRing, PutRing, CreateFails
<1>2. CASE \E t \in Sensors \cup Droppers : DropCall(t) \/ \E s \in Sensors : DropNotFound(t, s)
  BY <1>2 DEF DropCall, DropNotFound
<1>3. CASE \E t \in Sensors \cup Droppers, s \in Sensors : DropSensor(t, s)
  BY <1>3 DEF DropSensor, Forget
<1>4. CASE \E o \in Observers : StatsBegin(o)
  BY <1>4 DEF StatsBegin
<1>5. CASE \E o \in Observers : StatsLock(o) \/ StatsEnd(o) \/ \E r \in Rings : StatsAdd(o, r)
  BY <1>5 DEF StatsLock, StatsAdd, StatsEnd
<1>6. CASE \E p \in Passers : \/ PassLock(p) \/ PassMap(p) \/ PassEnd(p)
                             \/ \E r \in Rings : EvictRing(p, r)
  BY <1>6 DEF PassLock, PassMap, EvictRing, PassEnd
<1>7. CASE \/ \E m \in Maintainers : PassCall(m)
           \/ \E s \in Sensors : AppendToRing(s)
  BY <1>7 DEF PassCall, AppendToRing
<1>8. CASE LoopCheck \/ LoopLock \/ LoopTest \/ LoopSleep \/ LoopTimeout
  BY <1>8 DEF LoopCheck, LoopLock, LoopTest, LoopSleep, LoopTimeout, workerOnly
<1>9. CASE CloseBegin \/ CloseStop \/ CloseNotify \/ CloseJoin
  BY <1>9 DEF CloseBegin, CloseStop, CloseNotify, CloseJoin, closeOnly
<1>10. CASE UNCHANGED vars
  BY <1>10 DEF vars
<1> QED
  BY <1>1, <1>2, <1>3, <1>4, <1>5, <1>6, <1>7, <1>8, <1>9, <1>10, Steps

\* The bounds on one observer's sum.
StatsBound(o) ==
    /\ pc[o] = "stats" => sum[o] <= dropped
    /\ sum[o] + ToAdd(o) <= Lifetime
    /\ reported[o] <= Lifetime
    /\ pc[o] = "stats" /\ o \notin raced => sum[o] = dropped
    /\ pc[o] = "sum" /\ o \notin raced => reported[o] <= sum[o] + ToAdd(o)

\* No step of any thread breaks the bounds on what a get_stats adds up.
LEMMA StatsStep == ThreadsInv /\ [Next]_vars => StatsBounds'
<1> SUFFICES ASSUME ThreadsInv, [Next]_vars, NEW o \in Observers PROVE StatsBound(o)'
  BY Zenon DEF StatsBounds, StatsBound
<1>1. /\ TypeOK /\ MapOwnsRings /\ LocksHeld /\ StatsBound(o) /\ todo[o] \subseteq live
      /\ \A s \in Sensors : pc[s] = "append" => ptr[s] \in Rings
  BY DEF ThreadsInv, StatsBounds, StatsBound
<1>2. /\ IsFiniteSet(live) /\ SumOver(overwritten, live) \in Nat /\ Lifetime \in Nat
      /\ ToAdd(o) \in Nat /\ IsFiniteSet(todo[o])
  BY <1>1, SumsAreNat DEF MapOwnsRings, ToAdd
<1>3. Lifetime' >= Lifetime /\ Lifetime' \in Nat /\ TypeOK' /\ IsFiniteSet(live')
  <2>1. TypeOK' /\ MapOwnsRings'
    BY <1>1, TypeStep, MapOwnsRingsStep
  <2>2. (TypeOK /\ IsFiniteSet(live) => Lifetime \in Nat)'
    <3>1. TypeOK /\ IsFiniteSet(live) => Lifetime \in Nat
      BY SumsAreNat
    <3> QED
      BY SumsAreNat, PTL
  <2> QED
    BY <1>1, <2>1, <2>2, LifetimeStep DEF MapOwnsRings
<1>4. /\ sum[o] \in Nat /\ reported[o] \in Nat /\ dropped \in Nat /\ dropped' \in Nat
      /\ o \in Threads /\ o \in Observers \cup Passers
  BY <1>1, <1>3, Kinds DEF TypeOK
<1>5. /\ Lifetime = dropped + SumOver(overwritten, live)
      /\ Lifetime' = dropped' + SumOver(overwritten', live')
  BY LifetimeIs, LifetimeIsPrime
<1>6. pc[o] \notin {"sum", "evict"} => todo[o] = {}
  BY <1>1, <1>4, Kinds DEF LocksHeld, TypeOK
<1> USE DEF StatsBound, ToAdd, mapVars, countVars, lockVars, statsVars, closeVars
<1>7. CASE StatsBegin(o)
  <2>1. /\ pc[o] = "idle" /\ pc'[o] = "stats" /\ sum'[o] = dropped /\ o \notin raced'
        /\ UNCHANGED <<overwritten, dropped, live, todo, reported>>
    BY <1>1, <1>4, <1>7 DEF StatsBegin, TypeOK, Goto
  <2>2. SumOver(overwritten', todo'[o]) = 0
    BY <1>6, <2>1, SumOverEmpty
  <2> QED
    BY <1>1, <1>2, <1>4, <1>5, <2>1, <2>2
<1>8. CASE StatsLock(o)
  <2>1. /\ pc[o] = "stats" /\ pc'[o] = "sum"
        /\ todo'[o] = {map[s] : s \in Registered} \ {NoRing}
        /\ UNCHANGED <<overwritten, dropped, live, sum, reported, raced>>
    BY <1>1, <1>4, <1>8 DEF StatsLock, TypeOK, Goto
  <2>2. todo'[o] = live
    BY <1>1, <2>1, RingsAssumption DEF MapOwnsRings, Registered, TypeOK
  <2>3. SumOver(overwritten', todo'[o]) = SumOver(overwritten, live)
    BY <2>1, <2>2
  <2> QED
    BY <1>1, <1>2, <1>4, <1>5, <2>1, <2>3
<1>9. ASSUME NEW r \in Rings, StatsAdd(o, r) PROVE StatsBound(o)'
  <2>1. /\ pc[o] = "sum" /\ pc'[o] = pc[o] /\ r \in todo[o] /\ todo'[o] = todo[o] \ {r}
        /\ sum'[o] = sum[o] + overwritten[r]
        /\ UNCHANGED <<overwritten, dropped, live, reported, raced>>
    BY <1>1, <1>4, <1>9 DEF StatsAdd, TypeOK
  <2>2. \A q \in todo[o] : overwritten[q] \in Nat
    BY <1>1 DEF TypeOK
  <2>3. SumOver(overwritten, todo[o]) = overwritten[r] + SumOver(overwritten, todo'[o])
    BY <1>2, <2>1, <2>2, SumOverRemove
  <2>4. SumOver(overwritten, todo'[o]) \in Nat /\ overwritten[r] \in Nat
    BY <1>1, <1>2, <2>1, <2>2, SumsAreNat
  <2>5. SumOver(overwritten', todo'[o]) = SumOver(overwritten, todo'[o])
    BY <2>1
  <2> QED
    BY <1>1, <1>2, <1>3, <1>4, <2>1, <2>3, <2>4, <2>5
<1>10. CASE StatsEnd(o)
  <2>1. /\ pc[o] = "sum" /\ pc'[o] = "idle" /\ todo[o] = {} /\ reported'[o] = sum[o]
        /\ UNCHANGED <<overwritten, dropped, live, sum, todo, raced>>
    BY <1>1, <1>4, <1>10 DEF StatsEnd, TypeOK, Goto
  <2>2. SumOver(overwritten, todo[o]) = 0 /\ SumOver(overwritten', todo'[o]) = 0
    BY <2>1, SumOverEmpty
  <2> QED
    BY <1>1, <1>2, <1>3, <1>4, <1>5, <2>1, <2>2
<1>11. CASE /\ ~ StatsBegin(o) /\ ~ StatsLock(o) /\ ~ StatsEnd(o)
            /\ \A r \in Rings : ~ StatsAdd(o, r)
  <2>1. /\ pc'[o] = pc[o] /\ todo'[o] = todo[o]
        /\ sum'[o] = sum[o] /\ reported'[o] = reported[o]
    BY <1>1, <1>11, OthersStay
  <2>2. o \notin raced' => o \notin raced
    BY <1>1, <1>11, RacedSteps DEF TypeOK
  <2>3. ASSUME NEW s \in Sensors, AppendToRing(s) PROVE StatsBound(o)'
    <3>1. PICK lost \in {0, 1} : \A T \in SUBSET live :
            SumOver(overwritten', T) = SumOver(overwritten, T) + IF ptr[s] \in T THEN lost ELSE 0
      <4>1. ptr[s] \in Rings
        BY <1>1, <2>3 DEF AppendToRing
      <4> QED
        BY <1>1, <1>2, <2>3, <4>1, AppendAddsTo
    <3>2. UNCHANGED <<dropped, live>>
      BY <2>3 DEF AppendToRing
    <3>3. SumOver(overwritten', live')
            = SumOver(overwritten, live) + IF ptr[s] \in live THEN lost ELSE 0
      BY <3>1, <3>2
    <3>4. SumOver(overwritten', todo'[o])
            = SumOver(overwritten, todo[o]) + IF ptr[s] \in todo[o] THEN lost ELSE 0
      BY <1>1, <2>1, <3>1
    <3>5. CASE ptr[s] \in todo[o]
      <4>1. ptr[s] \in live
        BY <1>1, <3>5
      <4> QED
        BY <1>1, <1>2, <1>4, <1>5, <2>1, <2>2, <3>2, <3>3, <3>4, <3>5, <4>1
    <3>6. CASE ptr[s] \notin todo[o]
      BY <1>1, <1>2, <1>3, <1>4, <2>1, <2>2, <3>2, <3>4, <3>6
    <3> QED
      BY <3>5, <3>6
  <2>4. ASSUME UNCHANGED countVars PROVE StatsBound(o)'
    <3>1. SumOver(overwritten', todo'[o]) = SumOver(overwritten, todo[o])
      BY <2>1, <2>4
    <3> QED
      BY <1>1, <1>2, <1>3, <1>4, <2>1, <2>2, <2>4, <3>1
  <2>5. ASSUME NEW t \in Sensors \cup Droppers, NEW s \in Sensors, DropSensor(t, s)
        PROVE  StatsBound(o)'
    <3>1. readers = {} /\ raced' = raced \cup {q \in Observers : pc[q] # "idle"}
      BY <2>5 DEF DropSensor, Forget, MapExclusive
    <3>2. pc[o] # "sum" /\ todo[o] = {}
      BY <1>1, <1>4, <3>1 DEF LocksHeld
    <3>3. SumOver(overwritten, todo[o]) = 0 /\ SumOver(overwritten', todo'[o]) = 0
      BY <2>1, <3>2, SumOverEmpty
    <3>4. dropped' >= dropped
      BY <1>1, <2>5, DropMovesCount, Kinds
    <3> QED
      BY <1>1, <1>2, <1>3, <1>4, <2>1, <3>1, <3>2, <3>3, <3>4
  <2>6. ASSUME NEW t \in Sensors \cup Maintainers, NEW s \in Sensors, CreateRing(t, s)
        PROVE  StatsBound(o)'
    BY <1>1, <2>4, <2>6, CreateAddsCount, Kinds
  <2> QED
    BY <2>3, <2>4, <2>5, <2>6, CountSteps
<1> QED
  BY <1>7, <1>8, <1>9, <1>10, <1>11

-----------------------------------------------------------------------------
(* The invariants *)

\* A new engine satisfies the invariants.
LEMMA InvInit == Init => ThreadsInv /\ ProducerInv
<1> SUFFICES ASSUME Init PROVE ThreadsInv /\ ProducerInv
  OBVIOUS
<1>1. TypeOK
  BY TypeInit
<1>2. MapOwnsRings
  <2>1. live = {} /\ \A s \in Sensors : map[s] \notin Rings
    BY RingsAssumption DEF Init
  <2> QED
    BY <2>1, FS_EmptySet DEF MapOwnsRings
<1>3. RoomLeft
  <2>1. CASE map = [s \in Sensors |-> Absent]
    <3>1. Registered = {}
      BY <2>1 DEF Registered
    <3> QED
      BY <1>1, <3>1, FS_EmptySet, LimitsAssumption DEF RoomLeft, TypeOK
  <2> QED
    BY <2>1 DEF Init, RoomLeft
<1>4. /\ LocksHeld /\ ClosingIsQuiet
      /\ \A t \in Observers \cup Passers : todo[t] \subseteq live
      /\ \A s \in Sensors : pc[s] # "append"
  BY Kinds DEF Init, LocksHeld, ClosingIsQuiet
<1>5. StatsBounds
  <2>1. SumOver(overwritten, live) = 0 /\ \A o \in Observers : ToAdd(o) = 0
    BY SumOverEmpty DEF Init, ToAdd
  <2>2. Lifetime = 0
    BY <2>1, LifetimeIs DEF Init
  <2> QED
    BY <2>1, <2>2, Kinds DEF Init, StatsBounds
<1> QED
  BY <1>1, <1>2, <1>3, <1>4, <1>5 DEF ThreadsInv, ProducerInv

\* No step of any thread breaks ThreadsInv.
LEMMA InvStep == ThreadsInv /\ [Next]_vars => ThreadsInv'
<1> SUFFICES ASSUME ThreadsInv, [Next]_vars PROVE ThreadsInv'
  OBVIOUS
<1> USE DEF ThreadsInv
<1>1. TypeOK' /\ MapOwnsRings' /\ LocksHeld' /\ RoomLeft' /\ ClosingIsQuiet'
  BY TypeStep, MapOwnsRingsStep, LocksHeldStep, RoomLeftStep, ClosingStep
<1>2. (\A s \in Sensors : pc[s] = "append" => ptr[s] \in Rings)'
  BY PointerStep
<1>3. (\A t \in Observers \cup Passers : todo[t] \subseteq live)'
  BY TodoStep
<1>4. StatsBounds'
  BY StatsStep
<1> QED
  BY <1>1, <1>2, <1>3, <1>4

\* ThreadsInv holds in every reachable state.
LEMMA Invariance == Spec => []ThreadsInv
<1> QED
  BY InvInit, InvStep, PTL DEF Spec

\* While the producer of a sensor appends, no one else attaches a ring to its
\* slot, for there is one, unless another thread has dropped it.
LEMMA ProducerStep == ThreadsInv /\ ProducerInv /\ [Next]_vars => ProducerInv'
<1> SUFFICES ASSUME ThreadsInv, ProducerInv, [Next]_vars PROVE ProducerInv'
  OBVIOUS
<1> USE Kinds DEF ProducerInv, Goto, mapVars, countVars
<1>1. /\ TypeOK /\ \A s \in Sensors : pc[s] = "append" => ptr[s] \in Rings
  BY DEF ThreadsInv
<1> USE DEF TypeOK
<1>2. ASSUME NEW t \in Sensors \cup Maintainers, NEW s \in Sensors,
             FindRing(t, s) \/ RingExists(t, s)
      PROVE  ProducerInv'
  <2>1. UNCHANGED <<map, undercut>>
                      /\ \/ t = s /\ ptr' = [ptr EXCEPT ![s] = map[s]] /\ Goto(t, "append")
                         \/ UNCHANGED ptr /\ \E l \in {"idle", "create"} : Goto(t, l)
    BY <1>2 DEF FindRing, RingExists, GotRing
  <2> QED
    BY <1>1, <2>1
<1>3. ASSUME NEW t \in Sensors \cup Maintainers, NEW s \in Sensors, CreateRing(t, s)
      PROVE  ProducerInv'
  <2>1. PICK r \in unused : map' = [map EXCEPT ![s] = r] /\ GotRing(t, s, r) /\ undercut' = undercut
    BY <1>3 DEF CreateRing, PutRing
  <2>2. map[s] \notin Rings /\ pc[t] = "create"
    BY <1>3 DEF CreateRing
  <2>3. CASE t = s
    BY <1>1, <2>1, <2>2, <2>3 DEF GotRing
  <2>4. CASE t # s
    BY <1>1, <2>1, <2>2, <2>4 DEF GotRing
  <2> QED
    BY <2>3, <2>4
<1>4. ASSUME NEW t \in Threads, UNCHANGED <<map, ptr, undercut>>,
             UNCHANGED pc \/ \E l : l # "append" /\ Goto(t, l)
      PROVE  ProducerInv'
  BY <1>1, <1>4
<1>5. ASSUME NEW t \in Sensors \cup Maintainers, NEW s \in Sensors, CreateFails(t, s)
      PROVE  ProducerInv'
  <2>1. UNCHANGED <<map, ptr, undercut>> /\ Goto(t, "idle")
    BY <1>5 DEF CreateFails
  <2> QED
    BY <1>4, <2>1
<1>6. ASSUME NEW s \in Sensors, AppendToRing(s) PROVE ProducerInv'
  <2>1. /\ UNCHANGED map /\ ptr' = [ptr EXCEPT ![s] = NoRing]
        /\ undercut' = undercut \ {s} /\ Goto(s, "idle")
    BY <1>6 DEF AppendToRing
  <2> QED
    BY <1>1, <2>1
<1>7. ASSUME NEW t \in Sensors \cup Droppers,
             DropCall(t) \/ \E s \in Sensors : DropNotFound(t, s)
      PROVE  ProducerInv'
  <2>1. UNCHANGED <<map, ptr, undercut>> /\ \E l \in {"idle", "drop"} : Goto(t, l)
    BY <1>7 DEF DropCall, DropNotFound
  <2> QED
    BY <1>4, <2>1
<1>8. ASSUME NEW t \in Sensors \cup Droppers, NEW s \in Sensors, DropSensor(t, s)
      PROVE  ProducerInv'
  <2>1. /\ pc[t] = "drop" /\ Goto(t, "idle") /\ UNCHANGED ptr
        /\ map' = [map EXCEPT ![s] = Absent]
        /\ undercut' = undercut \cup {r \in {s} : pc[r] = "append"}
    BY <1>8 DEF DropSensor, Forget
  <2>2. ASSUME NEW r \in Sensors, pc'[r] = "append" PROVE ptr'[r] = map'[r] \/ r \in undercut'
    <3>1. pc[r] = "append"
      BY <1>1, <2>1, <2>2
    <3>2. CASE r = s
      BY <2>1, <3>1, <3>2
    <3>3. CASE r # s
      BY <1>1, <2>1, <3>1, <3>3
    <3> QED
      BY <3>2, <3>3
  <2> QED
    BY <2>2
<1>9. ASSUME NEW o \in Observers,
             \/ StatsBegin(o) \/ StatsLock(o) \/ StatsEnd(o)
             \/ \E r \in Rings : StatsAdd(o, r)
      PROVE  ProducerInv'
  <2>1. /\ UNCHANGED <<map, ptr, undercut>>
        /\ UNCHANGED pc \/ \E l \in {"stats", "sum", "idle"} : Goto(o, l)
    BY <1>9 DEF StatsBegin, StatsLock, StatsEnd, StatsAdd
  <2> QED
    BY <1>4, <2>1
<1>10. ASSUME NEW p \in Passers,
             \/ PassLock(p) \/ PassMap(p) \/ PassEnd(p)
             \/ \E r \in Rings : EvictRing(p, r)
       PROVE ProducerInv'
  <2>1. /\ UNCHANGED <<map, ptr, undercut>>
        /\ UNCHANGED pc \/ \E l \in {"passmap", "evict", "check", "idle"} : Goto(p, l)
    BY <1>10 DEF PassLock, PassMap, PassEnd, EvictRing
  <2> QED
    BY <1>4, <2>1
<1>11. ASSUME NEW m \in Maintainers, PassCall(m) PROVE ProducerInv'
  <2>1. UNCHANGED <<map, ptr, undercut>> /\ Goto(m, "pass")
    BY <1>11 DEF PassCall
  <2> QED
    BY <1>4, <2>1
<1>12. CASE LoopCheck \/ LoopLock \/ LoopTest \/ LoopSleep \/ LoopTimeout
  <2>1. UNCHANGED <<map, ptr, undercut>> /\ \E l : l # "append" /\ Goto(Worker, l)
    BY <1>12 DEF LoopCheck, LoopLock, LoopTest, LoopSleep, LoopTimeout, workerOnly
  <2> QED
    BY <1>4, <2>1
<1>13. CASE CloseBegin \/ CloseStop \/ CloseNotify \/ CloseJoin
  <2>1. UNCHANGED <<map, ptr, undercut>> /\ (UNCHANGED pc \/ Goto(Worker, "woken"))
    BY <1>13 DEF CloseBegin, CloseStop, CloseNotify, CloseJoin, Wake, closeOnly
  <2> QED
    BY <1>4, <2>1
<1>14. CASE UNCHANGED vars
  BY <1>14 DEF vars
<1> QED
  BY <1>2, <1>3, <1>5, <1>6, <1>7, <1>8, <1>9, <1>10, <1>11, <1>12, <1>13, <1>14, Steps

-----------------------------------------------------------------------------
(* What it means for the engine *)

\* The engine's and the threads' state keep their types: no step of a producer,
\* an observer, a pass, the eviction thread or Close (engine.cpp) leaves them.
THEOREM TypeCorrect == Spec => []TypeOK
<1>1. ThreadsInv => TypeOK
  BY DEF ThreadsInv
<1> QED
  BY <1>1, Invariance, PTL

\* GetOrCreateRing never goes over max_sensors, however many producers missed
\* on the fast path at once.
THEOREM LimitIsRespected == Spec => []LimitRespected
<1>1. ThreadsInv => LimitRespected
  BY DEF ThreadsInv, RoomLeft, LimitRespected
<1> QED
  BY <1>1, Invariance, PTL

\* eviction_pass_mu_ keeps every pass but one away from evict_scratch_.
THEOREM ScratchHasOneUser == Spec => []OneScratchUser
<1>1. ThreadsInv => OneScratchUser
  <2> SUFFICES ASSUME ThreadsInv PROVE OneScratchUser
    OBVIOUS
  <2>1. /\ passOwner = {p \in Passers : pc[p] \in {"passmap", "evict"}}
        /\ \A p, q \in passOwner : p = q
    BY DEF ThreadsInv, LocksHeld
  <2>2. Cardinality(passOwner) <= 1
    <3>1. CASE passOwner = {}
      BY <3>1, FS_EmptySet
    <3>2. CASE passOwner # {}
      <4>1. PICK p \in passOwner : TRUE
        BY <3>2
      <4>2. passOwner = {p}
        BY <2>1, <4>1
      <4> QED
        BY <4>2, FS_Singleton
    <3> QED
      BY <3>1, <3>2
  <2> QED
    BY <2>1, <2>2 DEF OneScratchUser
<1> QED
  BY <1>1, Invariance, PTL

\* When Close has joined the eviction thread no pass is running or will be.
THEOREM CloseQuiets == Spec => []ClosedIsQuiet
<1>1. ThreadsInv => ClosedIsQuiet
  BY DEF ThreadsInv, ClosingIsQuiet, ClosedIsQuiet, Passers
<1> QED
  BY <1>1, Invariance, PTL

\* get_stats reports no loss twice: what it has added up is never more than what
\* was lost, whatever drops and appends come between its steps.
THEOREM StatsAreNotInflated == Spec => []LossIsNotInflated
<1>1. ThreadsInv => LossIsNotInflated
  <2> SUFFICES ASSUME ThreadsInv, NEW o \in Observers PROVE sum[o] <= Lifetime
    BY DEF LossIsNotInflated
  <2>1. TypeOK /\ IsFiniteSet(live) /\ todo[o] \subseteq live /\ sum[o] + ToAdd(o) <= Lifetime
    BY DEF ThreadsInv, MapOwnsRings, StatsBounds
  <2>2. ToAdd(o) \in Nat /\ Lifetime \in Nat /\ sum[o] \in Nat
    BY <2>1, SumsAreNat DEF ToAdd, TypeOK
  <2> QED
    BY <2>1, <2>2
<1> QED
  BY <1>1, Invariance, PTL

\* No step of the engine lowers the total of entries ever overwritten: DropSensor
\* keeps the count of the ring it destroys.
THEOREM LossesAreKept == Spec => LossIsNeverForgotten
<1>1. ThreadsInv /\ [Next]_vars => Lifetime' >= Lifetime
  BY LifetimeStep DEF ThreadsInv
<1> QED
  BY <1>1, Invariance, PTL DEF Spec, LossIsNeverForgotten

\* An observer's total_overwritten_entries goes back only when a drop_sensor
\* overlapped the get_stats that read it.
THEOREM StatsAreMonotonic == Spec => StatsRewindNeedsDrop
<1>1. ThreadsInv /\ [Next]_vars
        => \A o \in Observers : o \in raced \/ reported'[o] >= reported[o]
  <2> SUFFICES ASSUME ThreadsInv, [Next]_vars, NEW o \in Observers, o \notin raced
               PROVE  reported'[o] >= reported[o]
    OBVIOUS
  <2>1. TypeOK /\ reported[o] \in Nat
    BY DEF ThreadsInv, TypeOK
  <2>2. CASE StatsEnd(o)
    <3>1. pc[o] = "sum" /\ todo[o] = {} /\ reported'[o] = sum[o]
      BY <2>1, <2>2 DEF StatsEnd, TypeOK
    <3>2. ToAdd(o) = 0
      BY <3>1, SumOverEmpty DEF ToAdd
    <3>3. reported[o] <= sum[o] + ToAdd(o) /\ sum[o] \in Nat
      BY <2>1, <3>1 DEF ThreadsInv, StatsBounds, TypeOK
    <3> QED
      BY <2>1, <3>1, <3>2, <3>3
  <2>3. CASE StatsBegin(o) \/ StatsLock(o) \/ \E r \in Rings : StatsAdd(o, r)
    BY <2>1, <2>3 DEF StatsBegin, StatsLock, StatsAdd, statsVars
  <2>4. CASE /\ ~ StatsBegin(o) /\ ~ StatsLock(o) /\ ~ StatsEnd(o)
             /\ \A r \in Rings : ~ StatsAdd(o, r)
    BY <2>1, <2>4, OthersStay
  <2> QED
    BY <2>2, <2>3, <2>4
<1> QED
  BY <1>1, Invariance, PTL DEF Spec, StatsRewindNeedsDrop

\* The ring Append works on outside the locks (engine.cpp:556-571) exists until
\* another thread calls drop_sensor for that sensor, and nothing else takes it away:
\* no second producer, PreallocateSensor, pass or Close. The rings a pass and
\* get_stats visit exist whoever drops, for they hold the map.
THEOREM RingsAreThere == Spec => []RingsInUseExist
<1>1. ThreadsInv /\ ProducerInv => RingsInUseExist
  BY DEF ThreadsInv, ProducerInv, RingsInUseExist, MapOwnsRings
<1>2. Spec => []ProducerInv
  <2>1. Init => ProducerInv
    BY InvInit
  <2>2. ThreadsInv /\ ProducerInv /\ [Next]_vars => ProducerInv'
    BY ProducerStep
  <2> QED
    BY <2>1, <2>2, Invariance, PTL DEF Spec
<1> QED
  BY <1>1, <1>2, Invariance, PTL

=============================================================================
