----------------------------- MODULE ColdTier_proofs -----------------------------
(***************************************************************************)
(* Proofs about ColdTier, for any number of sensors and Flush callers, any  *)
(* ring capacity and any bounds. What is said of ids and of blocks that     *)
(* stay assumes that Create gets a path without an engine (PathsFit): on a  *)
(* used path it does lose blocks. Types and the schema hold on any path.    *)
(*                                                                         *)
(* ShapeInv is what needs no such assumption: the threads, the positions,   *)
(* and where blocks lie.                                                    *)
(*                                                                         *)
(* TierInv says where every entry is: still in its ring, copied out by the  *)
(* one pass there is, in a block, or known to be lost (Accounted), and what *)
(* a pass has visited is no longer in the first two places (Settled).  For  *)
(* that to survive the next WriteBlock no block may be replaced that holds  *)
(* an entry someone counts on (Superseded), and to survive a crash it must  *)
(* hold of every state the store may fall back to (Durable).                *)
(***************************************************************************)
EXTENDS ColdTier, FiniteLemmas, FunctionTheorems

-----------------------------------------------------------------------------
(* The inductive invariant *)

\* The state a thread is in fits the engine's and the other threads'.
ThreadsFit ==
    /\ ~up => /\ slots = {} /\ \A s \in Sensors : deleting[s] = 0
              /\ \A p \in Passers : pc[p] = "idle"
    /\ rings \subseteq slots
    /\ \A s \in slots : deleting[s] > 0 => s \in leftover
    /\ \A p, q \in Passers : InPass(p) /\ InPass(q) => p = q
    /\ \A p \in Passers : pend[p] # NoBlock => InPass(p) /\ pend[p].sensor \in todo[p]
    /\ \A p \in Passers : InPass(p) => todo[p] \subseteq slots

Positions ==
    /\ \A s \in Sensors : lo[s] <= hi[s] /\ nextId[s] <= lo[s]
    /\ \A s \in Sensors \ slots : lo[s] = hi[s] /\ nextId[s] = 0
    /\ \A c \in Callers, s \in Sensors : covers[c][s] <= hi[s]

\* A block that was copied out and not yet written.
Fits(p, b) ==
    /\ b.id = nextId[b.sensor] /\ b.id <= b.from /\ b.from < b.to /\ b.to <= lo[b.sensor]
    /\ \A c \in BlocksOf(db, b.sensor) : c.to <= b.from
    /\ p \in Callers => covers[p][b.sensor] <= lo[b.sensor]
Pending == \A p \in Passers : pend[p] # NoBlock => Fits(p, pend[p])

\* What any state the store may fall back to holds.
Stored ==
    /\ db \in images
    /\ \A image \in images :
        /\ \A b \in image.blocks : b.id < b.to /\ b.to <= lo[b.sensor]
        /\ \A b, c \in image.blocks : b.sensor = c.sensor /\ b.id = c.id => b = c

Schema ==
    /\ up => db.meta \/ guessed
    /\ \A image \in images : image.blocks # {} => image.meta \/ guessed

Ids(store, s) == {b.id : b \in BlocksOf(store, s)}

\* The blocks of a sensor: ids from 0 on, in the order of the entries.
IsLog(store, s) ==
    /\ \E n \in Nat : Ids(store, s) = 0 .. n - 1
    /\ \A b, c \in BlocksOf(store, s) : b.id < c.id => b.to <= c.from
Logs == \A image \in images : \A s \in Sensors \ leftover : IsLog(image, s)

\* The next id continues them; a sensor that is not in the map has none, unless
\* they are about to be deleted.
Seeded ==
    up => \A s \in Sensors \ leftover :
            IF s \in slots THEN Ids(db, s) = 0 .. nextId[s] - 1
                           ELSE deleting[s] > 0 \/ BlocksOf(db, s) = {}

\* The blocks a Put may replace are from before a drop.
Superseded ==
    up => \A b \in db.blocks :
            \/ b.sensor \in slots /\ b.id < nextId[b.sensor]
            \/ b.from .. b.to - 1 \subseteq gone[b.sensor]

Copied(s, e) ==
    \E p \in Passers : pend[p] # NoBlock /\ pend[p].sensor = s
                         /\ e \in pend[p].from .. pend[p].to - 1
Safe(s, e) == e \in gone[s] \/ e \in failed[s] \/ e \in Held(db, s)

Accounted ==
    \A s \in Sensors : \A e \in 0 .. hi[s] - 1 : Safe(s, e) \/ e >= lo[s] \/ Copied(s, e)

\* What a Flush answers for once its pass has visited the sensor.
Visited(c, s) == pc[c] = "sync" \/ (InPass(c) /\ s \notin todo[c])
Settled ==
    \A c \in Callers, s \in Sensors :
        Visited(c, s) => \A e \in 0 .. covers[c][s] - 1 : Safe(s, e)

Durable ==
    \A s \in Sensors : \A e \in flushed[s] :
        \/ e \in failed[s]
        \/ e \notin gone[s] /\ \A image \in images : e \in Held(image, s)

ShapeInv ==
    /\ TypeOK
    /\ ThreadsFit
    /\ Positions
    /\ Pending
    /\ Stored
    /\ Schema

TierInv ==
    /\ ShapeInv
    /\ Logs
    /\ Seeded
    /\ Superseded
    /\ Accounted
    /\ Settled
    /\ Durable

-----------------------------------------------------------------------------
(* Helpers *)

\* The steps one by one.
LEMMA Steps ==
  ASSUME [Next]_vars
  PROVE  \/ \E s \in Sensors : \/ Append(s) \/ DropFromMap(s)
                               \/ DropBlocks(s) \/ DropBlocksFails(s)
         \/ \E c \in Callers : FlushCall(c) \/ FlushOK(c) \/ FlushError(c)
         \/ \E p \in Passers : \/ PassBegin(p) \/ EvictWriteOK(p)
                               \/ EvictWriteFails(p) \/ PassEnd(p)
         \/ \E p \in Passers, s \in Sensors : EvictCopy(p, s) \/ EvictNoMemory(p, s)
         \/ Close \/ Crash \/ Create \/ Open
         \/ UNCHANGED vars
BY Zenon DEF Next

\* An entry is held by one of the sensor's blocks.
LEMMA HeldIs ==
  \A store, s, e : e \in Held(store, s) <=> \E b \in store.blocks :
                                              b.sensor = s /\ e \in b.from .. b.to - 1
BY DEF Held, BlocksOf

\* The parts of a block.
LEMMA BlockParts ==
  \A b \in Blocks : /\ b.sensor \in Sensors /\ b.id \in Nat /\ b.from \in Nat /\ b.to \in Nat
                    /\ b # NoBlock
BY DEF Blocks, NoBlock

\* What Block makes.
LEMMA BlockIs ==
  \A s, i, f, t : /\ Block(s, i, f, t).sensor = s /\ Block(s, i, f, t).id = i
                  /\ Block(s, i, f, t).from = f /\ Block(s, i, f, t).to = t
BY DEF Block

\* A block made of a sensor and naturals is one.
LEMMA BlockTyped ==
  ASSUME NEW s \in Sensors, NEW i \in Nat, NEW f \in Nat, NEW t \in Nat
  PROVE  Block(s, i, f, t) \in Blocks /\ Block(s, i, f, t) # NoBlock
<1>1. Block(s, i, f, t) \in Blocks
  BY DEF Block, Blocks
<1> QED
  BY <1>1, BlockParts

\* What Put makes of a store: the block replaces the one with its key.
LEMMA PutIs ==
  ASSUME NEW store \in Stores, NEW b \in Blocks
  PROVE  /\ Put(store, b) \in Stores /\ Put(store, b).meta = store.meta
         /\ Put(store, b).blocks
              = {c \in store.blocks : c.sensor # b.sensor \/ c.id # b.id} \cup {b}
BY DEF Put, Stores

\* A pass takes a prefix of the ring, a Flush all of it.
LEMMA PrefixIs ==
  ASSUME NEW p \in Passers, NEW n \in Nat, NEW k \in Prefixes(p, n)
  PROVE  k \in Nat /\ k <= n /\ (p \in Callers => k = n)
BY WorkerAssumption DEF Prefixes

\* What EvictSensor takes: a prefix of the ring, or nothing.
LEMMA CopyIs ==
  ASSUME TypeOK, Positions, NEW p \in Passers, NEW s \in Sensors, EvictCopy(p, s)
  PROVE  /\ InPass(p) /\ s \in todo[p] /\ pend[p] = NoBlock
         /\ UNCHANGED <<up, db, images, slots, rings, nextId, hi, pc, covers, deleting,
                        leftover, failed, gone, flushed>>
         /\ \E n \in Nat :
             /\ n <= hi[s] - lo[s] /\ (p \in Callers => n = hi[s] - lo[s])
             /\ \/ /\ n = 0
                   /\ todo' = [todo EXCEPT ![p] = @ \ {s}]
                   /\ UNCHANGED <<lo, pend>>
                \/ /\ n > 0
                   /\ pend' = [pend EXCEPT ![p] = Block(s, nextId[s], lo[s], lo[s] + n)]
                   /\ lo' = [lo EXCEPT ![s] = @ + n]
                   /\ UNCHANGED todo
<1>1. hi[s] - lo[s] \in Nat
  BY DEF TypeOK, Positions
<1>2. PICK n \in Prefixes(p, hi[s] - lo[s]) :
          \/ /\ n = 0
             /\ todo' = [todo EXCEPT ![p] = @ \ {s}]
             /\ UNCHANGED <<lo, pend>>
          \/ /\ n # 0
             /\ pend' = [pend EXCEPT ![p] = Block(s, nextId[s], lo[s], lo[s] + n)]
             /\ lo' = [lo EXCEPT ![s] = @ + n]
             /\ UNCHANGED todo
  BY DEF EvictCopy
<1>3. n \in Nat /\ n <= hi[s] - lo[s] /\ (p \in Callers => n = hi[s] - lo[s])
  BY <1>1, <1>2, PrefixIs
<1>4. /\ InPass(p) /\ s \in todo[p] /\ pend[p] = NoBlock
      /\ UNCHANGED <<up, db, images, slots, rings, nextId, hi, pc, covers, deleting,
                     leftover, failed, gone, flushed>>
  BY DEF EvictCopy, storeVars, mapVars, dropVars, ghostVars
<1> QED
  BY <1>2, <1>3, <1>4

\* The next id Open finds is above every stored id, and the first above them.
LEMMA SeededIs ==
  ASSUME TypeOK, Positions, Stored, NEW s \in Sensors
  PROVE  /\ SeededId(s) \in Nat /\ SeededId(s) <= lo[s]
         /\ \A n \in Ids(db, s) : n < SeededId(s)
         /\ Ids(db, s) # {} => SeededId(s) - 1 \in Ids(db, s)
         /\ Ids(db, s) = {} => SeededId(s) = 0
<1>1. lo[s] \in Nat
  BY DEF TypeOK
<1>2. \A b \in BlocksOf(db, s) : b.id \in Nat /\ b.id < lo[s]
  <2> SUFFICES ASSUME NEW b \in BlocksOf(db, s) PROVE b.id \in Nat /\ b.id < lo[s]
    OBVIOUS
  <2>1. b \in db.blocks /\ b.sensor = s
    BY DEF BlocksOf
  <2>2. b \in Blocks
    BY <2>1 DEF TypeOK, Stores
  <2>3. b.id < b.to /\ b.to <= lo[s]
    BY <2>1 DEF Stored
  <2> QED
    BY <1>1, <2>2, <2>3, BlockParts
<1>3. Ids(db, s) \subseteq Nat /\ \A n \in Ids(db, s) : n < lo[s]
  BY <1>2 DEF Ids
<1>4. SeededId(s) = Max0(Ids(db, s)) + 1
  BY DEF SeededId, Ids
<1>5. CASE Ids(db, s) = {}
  BY <1>1, <1>4, <1>5 DEF Max0
<1>6. CASE Ids(db, s) # {}
  <2> DEFINE T == Ids(db, s)
  <2> HIDE DEF T
  <2>1. T \subseteq Nat /\ T # {} /\ \A n \in T : n < lo[s]
    BY <1>3, <1>6 DEF T
  <2>2. \E n \in T : \A m \in T : m <= n
    <3>1. \A n \in T : n <= lo[s]
      BY <1>1, <2>1
    <3> QED
      BY <1>1, <2>1, <3>1, GreatestNat
  <2>3. PICK x \in T : x = Max0(T) /\ \A m \in T : m <= x
    BY <2>1, <2>2 DEF Max0
  <2>4. x \in Nat /\ x < lo[s] /\ (x + 1) - 1 = x
    BY <2>1, <2>3
  <2>5. x + 1 \in Nat /\ x + 1 <= lo[s] /\ \A m \in T : m < x + 1
    BY <1>1, <2>1, <2>3, <2>4
  <2> QED
    BY <1>4, <1>6, <2>3, <2>4, <2>5 DEF T
<1> QED
  BY <1>5, <1>6

-----------------------------------------------------------------------------
(* Types *)

\* The first state is of the types.
LEMMA TypeInit == Init => TypeOK
<1> SUFFICES ASSUME Init PROVE TypeOK
  OBVIOUS
<1>1. db \in Stores /\ images \subseteq Stores
  BY DEF Init, Stores
<1>2. pend \in [Passers -> Blocks \cup {NoBlock}] /\ pc \in [Passers -> {"idle"}]
  BY DEF Init
<1>3. covers \in [Passers -> [Sensors -> Nat]] /\ todo \in [Passers -> SUBSET Sensors]
  BY DEF Init
<1> QED
  BY <1>1, <1>2, <1>3 DEF Init, TypeOK

\* Every step keeps the types; a pass because it takes no more than there is,
\* Open because the ids it finds are bounded.
LEMMA TypeStep == ShapeInv /\ [Next]_vars => TypeOK'
<1> SUFFICES ASSUME ShapeInv, [Next]_vars PROVE TypeOK'
  OBVIOUS
<1>1. TypeOK /\ Positions /\ Stored /\ Pending
  BY DEF ShapeInv
<1> USE DEF TypeOK, storeVars, mapVars, ringVars, passVars, dropVars, countVars, ghostVars
<1>2. ASSUME NEW s \in Sensors, Append(s) PROVE TypeOK'
  <2>1. /\ lo' \in [Sensors -> Nat] /\ hi' \in [Sensors -> Nat]
        /\ gone' \in [Sensors -> SUBSET Nat]
    BY <1>1, <1>2 DEF Append
  <2>2. /\ leftover' \subseteq Sensors /\ slots' \subseteq Sensors /\ rings' \subseteq Sensors
    BY <1>1, <1>2 DEF Append
  <2> QED
    BY <1>1, <1>2, <2>1, <2>2 DEF Append
<1>3. ASSUME NEW s \in Sensors, DropFromMap(s) PROVE TypeOK'
  BY <1>1, <1>3 DEF DropFromMap
<1>4. ASSUME NEW s \in Sensors, DropBlocks(s) PROVE TypeOK'
  <2>1. [db EXCEPT !.blocks = @ \ BlocksOf(db, s)] \in Stores
    BY <1>1 DEF Stores
  <2>2. Held(db, s) \subseteq Nat
    <3>1. ASSUME NEW e \in Held(db, s) PROVE e \in Nat
      <4>1. PICK b \in db.blocks : e \in b.from .. b.to - 1
        BY <3>1, HeldIs
      <4>2. b \in Blocks
        BY <1>1, <4>1 DEF Stores
      <4> QED
        BY <4>1, <4>2, BlockParts
    <3> QED
      BY <3>1
  <2>3. db' \in Stores /\ images' \subseteq Stores
    BY <1>1, <1>4, <2>1 DEF DropBlocks, Write
  <2> QED
    BY <1>1, <1>4, <2>2, <2>3 DEF DropBlocks
<1>5. ASSUME NEW s \in Sensors, DropBlocksFails(s) PROVE TypeOK'
  BY <1>1, <1>5 DEF DropBlocksFails
<1>6. ASSUME NEW c \in Callers, FlushCall(c) PROVE TypeOK'
  BY <1>1, <1>6 DEF FlushCall, Passers
<1>7. ASSUME NEW c \in Callers, FlushOK(c) PROVE TypeOK'
  <2>1. c \in Passers /\ covers[c] \in [Sensors -> Nat]
    BY <1>1 DEF Passers
  <2>2. flushed' \in [Sensors -> SUBSET Nat]
    BY <1>1, <1>7, <2>1 DEF FlushOK
  <2> QED
    BY <1>1, <1>7, <2>2 DEF FlushOK
<1>8. ASSUME NEW c \in Callers, FlushError(c) PROVE TypeOK'
  BY <1>1, <1>8 DEF FlushError
<1>9. ASSUME NEW p \in Passers, PassBegin(p) PROVE TypeOK'
  BY <1>1, <1>9 DEF PassBegin
<1>10. ASSUME NEW p \in Passers, EvictWriteOK(p) PROVE TypeOK'
  <2>1. pend[p] \in Blocks /\ pend[p].sensor \in Sensors
    BY <1>1, <1>10, BlockParts DEF EvictWriteOK
  <2>2. db' \in Stores /\ images' \subseteq Stores
    BY <1>1, <1>10, <2>1, PutIs DEF EvictWriteOK, Write
  <2> QED
    BY <1>1, <1>10, <2>1, <2>2 DEF EvictWriteOK
<1>11. ASSUME NEW p \in Passers, EvictWriteFails(p) PROVE TypeOK'
  <2>1. pend[p] \in Blocks
    BY <1>1, <1>11 DEF EvictWriteFails
  <2>2. /\ pend[p].sensor \in Sensors /\ pend[p].from \in Nat /\ pend[p].to \in Nat
        /\ pend[p].from .. pend[p].to - 1 \subseteq Nat
    BY <2>1, BlockParts
  <2>3. failed' \in [Sensors -> SUBSET Nat]
    BY <1>1, <1>11, <2>2 DEF EvictWriteFails
  <2> QED
    BY <1>1, <1>11, <2>2, <2>3 DEF EvictWriteFails
<1>12. ASSUME NEW p \in Passers, PassEnd(p) PROVE TypeOK'
  BY <1>1, <1>12 DEF PassEnd
<1>13. ASSUME NEW p \in Passers, NEW s \in Sensors, EvictCopy(p, s) PROVE TypeOK'
  <2>1. lo[s] \in Nat /\ nextId[s] \in Nat /\ hi[s] - lo[s] \in Nat
    BY <1>1 DEF Positions
  <2>2. PICK n \in Prefixes(p, hi[s] - lo[s]) :
          \/ todo' = [todo EXCEPT ![p] = @ \ {s}] /\ UNCHANGED <<lo, pend>>
          \/ /\ pend' = [pend EXCEPT ![p] = Block(s, nextId[s], lo[s], lo[s] + n)]
             /\ lo' = [lo EXCEPT ![s] = @ + n]
             /\ UNCHANGED todo
    BY <1>13 DEF EvictCopy
  <2>3. n \in Nat
    BY <2>1, <2>2, PrefixIs
  <2>4. Block(s, nextId[s], lo[s], lo[s] + n) \in Blocks
    BY <2>1, <2>3, BlockTyped
  <2>5. /\ lo' \in [Sensors -> Nat] /\ todo' \in [Passers -> SUBSET Sensors]
        /\ pend' \in [Passers -> Blocks \cup {NoBlock}]
    <3>1. CASE todo' = [todo EXCEPT ![p] = @ \ {s}] /\ UNCHANGED <<lo, pend>>
      BY <1>1, <3>1
    <3>2. CASE /\ pend' = [pend EXCEPT ![p] = Block(s, nextId[s], lo[s], lo[s] + n)]
               /\ lo' = [lo EXCEPT ![s] = @ + n]
               /\ UNCHANGED todo
      <4>1. pend' \in [Passers -> Blocks \cup {NoBlock}]
        BY <1>1, <2>4, <3>2
      <4> QED
        BY <1>1, <2>3, <3>2, <4>1
    <3> QED
      BY <2>2, <3>1, <3>2
  <2> QED
    BY <1>1, <1>13, <2>5 DEF EvictCopy
<1>14. ASSUME NEW p \in Passers, NEW s \in Sensors, EvictNoMemory(p, s) PROVE TypeOK'
  BY <1>1, <1>14 DEF EvictNoMemory
<1>15. ASSUME Stop, NEW image \in Stores, LoseAllBut(image), db' \in Stores, images' \subseteq Stores
       PROVE  TypeOK'
  <2>1. /\ pend' \in [Passers -> Blocks \cup {NoBlock}] /\ pc' \in [Passers -> {"idle"}]
        /\ covers' \in [Passers -> [Sensors -> Nat]] /\ todo' \in [Passers -> SUBSET Sensors]
    BY <1>15 DEF Stop
  <2>2. /\ lo' \in [Sensors -> Nat] /\ gone' \in [Sensors -> SUBSET Nat]
        /\ nextId' \in [Sensors -> Nat]
    BY <1>1, <1>15 DEF Stop, LoseAllBut
  <2> QED
    BY <1>1, <1>15, <2>1, <2>2 DEF Stop
<1>16. CASE Close
  BY <1>1, <1>15, <1>16 DEF Close
<1>17. CASE Crash
  BY <1>1, <1>15, <1>17 DEF Crash
<1>18. CASE Create
  <2>1. WithMetadata(db) \in Stores
    BY <1>1 DEF WithMetadata, Stores
  <2> QED
    BY <1>1, <1>18, <2>1 DEF Create, Write
<1>19. CASE Open
  <2>1. \A s \in Sensors : SeededId(s) \in Nat
    BY <1>1, SeededIs
  <2> QED
    BY <1>1, <1>19, <2>1 DEF Open, StoredSensors
<1>20. CASE UNCHANGED vars
  BY <1>1, <1>20 DEF vars
<1> QED
  BY <1>2, <1>3, <1>4, <1>5, <1>6, <1>7, <1>8, <1>9, <1>10, <1>11, <1>12, <1>13, <1>14,
     <1>16, <1>17, <1>18, <1>19, <1>20, Steps

-----------------------------------------------------------------------------
(* The threads and the positions *)

\* A pass keeps the map as it found it, and it is alone.
LEMMA ThreadsFitStep == ShapeInv /\ [Next]_vars => ThreadsFit'
<1> SUFFICES ASSUME ShapeInv, [Next]_vars PROVE ThreadsFit'
  OBVIOUS
<1>1. TypeOK /\ ThreadsFit
  BY DEF ShapeInv
<1> USE DEF TypeOK, ThreadsFit, InPass, storeVars, mapVars, ringVars, passVars, dropVars,
            countVars, ghostVars, Passers
<1>2. ASSUME NEW s \in Sensors, Append(s) PROVE ThreadsFit'
  BY <1>1, <1>2 DEF Append, MapFree
<1>3. ASSUME NEW s \in Sensors, DropFromMap(s) PROVE ThreadsFit'
  BY <1>1, <1>3 DEF DropFromMap, MapFree
<1>4. ASSUME NEW s \in Sensors, DropBlocks(s) \/ DropBlocksFails(s) PROVE ThreadsFit'
  BY <1>1, <1>4 DEF DropBlocks, DropBlocksFails
<1>5. ASSUME NEW c \in Callers, FlushCall(c) \/ FlushOK(c) \/ FlushError(c)
      PROVE  ThreadsFit'
  BY <1>1, <1>5 DEF FlushCall, FlushOK, FlushError
<1>6. ASSUME NEW p \in Passers, PassBegin(p) PROVE ThreadsFit'
  BY <1>1, <1>6 DEF PassBegin, PassFree
<1>7. ASSUME NEW p \in Passers, EvictWriteOK(p) \/ EvictWriteFails(p) \/ PassEnd(p)
      PROVE  ThreadsFit'
  BY <1>1, <1>7 DEF EvictWriteOK, EvictWriteFails, PassEnd
<1>8. ASSUME NEW p \in Passers, NEW s \in Sensors, EvictCopy(p, s) \/ EvictNoMemory(p, s)
      PROVE  ThreadsFit'
  <2>1. /\ InPass(p) /\ s \in todo[p] /\ pend[p] = NoBlock
        /\ UNCHANGED <<up, slots, rings, deleting, leftover, pc>>
    BY <1>8 DEF EvictCopy, EvictNoMemory
  <2>2. ASSUME todo' = [todo EXCEPT ![p] = @ \ {s}], UNCHANGED pend PROVE ThreadsFit'
    BY <1>1, <2>1, <2>2
  <2>3. ASSUME NEW b, b.sensor = s, pend' = [pend EXCEPT ![p] = b], UNCHANGED todo
        PROVE  ThreadsFit'
    BY <1>1, <2>1, <2>3
  <2>4. \/ todo' = [todo EXCEPT ![p] = @ \ {s}] /\ UNCHANGED pend
        \/ \E n : /\ pend' = [pend EXCEPT ![p] = Block(s, nextId[s], lo[s], lo[s] + n)]
                  /\ UNCHANGED todo
    BY <1>8 DEF EvictCopy, EvictNoMemory
  <2>5. ASSUME NEW n, pend' = [pend EXCEPT ![p] = Block(s, nextId[s], lo[s], lo[s] + n)],
               UNCHANGED todo
        PROVE  ThreadsFit'
    <3>1. PICK b : b = Block(s, nextId[s], lo[s], lo[s] + n) /\ b.sensor = s
      BY BlockIs
    <3> QED
      BY <2>3, <2>5, <3>1
  <2> QED
    BY <2>2, <2>4, <2>5
<1>9. CASE Close \/ Crash
  BY <1>1, <1>9 DEF Close, Crash, Stop
<1>10. CASE Create
  BY <1>1, <1>10 DEF Create
<1>11. CASE Open
  BY <1>1, <1>11 DEF Open, StoredSensors
<1>12. CASE UNCHANGED vars
  BY <1>1, <1>12 DEF vars
<1> QED
  BY <1>2, <1>3, <1>4, <1>5, <1>6, <1>7, <1>8, <1>9, <1>10, <1>11, <1>12, Steps

\* A pass takes no more than there is, and ids are used up no faster than entries.
LEMMA PositionsStep == ShapeInv /\ [Next]_vars => Positions'
<1> SUFFICES ASSUME ShapeInv, [Next]_vars PROVE Positions'
  OBVIOUS
<1>1. TypeOK /\ ThreadsFit /\ Positions /\ Pending /\ Stored /\ TypeOK'
  BY TypeStep DEF ShapeInv
<1> USE DEF TypeOK, Positions, storeVars, mapVars, ringVars, passVars, dropVars,
            countVars, ghostVars, Passers
<1>2. ASSUME NEW s \in Sensors, Append(s) PROVE Positions'
  <2>1. /\ slots' = slots \cup {s} /\ UNCHANGED <<nextId, covers>>
        /\ hi' = [hi EXCEPT ![s] = @ + 1]
        /\ UNCHANGED lo \/ (lo' = [lo EXCEPT ![s] = @ + 1] /\ hi[s] - lo[s] >= RingCapacity)
    BY <1>2 DEF Append
  <2> QED
    BY <1>1, <2>1, RingCapacityAssumption
<1>3. ASSUME NEW s \in Sensors, DropFromMap(s) PROVE Positions'
  BY <1>1, <1>3 DEF DropFromMap
<1>4. ASSUME UNCHANGED <<lo, hi, nextId, slots>>,
             \A c \in Callers : covers'[c] \in {covers[c], hi, [s \in Sensors |-> 0]}
      PROVE  Positions'
  <2>1. ASSUME NEW c \in Callers, NEW s \in Sensors PROVE covers'[c][s] <= hi'[s]
    <3>1. covers[c][s] <= hi[s] /\ hi[s] \in Nat /\ hi'[s] = hi[s]
      BY <1>1, <1>4
    <3>2. CASE covers'[c] = covers[c]
      BY <3>1, <3>2
    <3>3. CASE covers'[c] = hi
      BY <3>1, <3>3
    <3>4. CASE covers'[c] = [u \in Sensors |-> 0]
      BY <3>1, <3>4
    <3> QED
      BY <1>4, <3>2, <3>3, <3>4
  <2> QED
    BY <1>1, <1>4, <2>1
<1>5. ASSUME NEW s \in Sensors, DropBlocks(s) \/ DropBlocksFails(s) PROVE Positions'
  BY <1>1, <1>4, <1>5 DEF DropBlocks, DropBlocksFails
<1>6. ASSUME NEW c \in Callers, FlushCall(c) \/ FlushOK(c) \/ FlushError(c) PROVE Positions'
  BY <1>1, <1>4, <1>6 DEF FlushCall, FlushOK, FlushError
<1>7. ASSUME NEW p \in Passers, PassBegin(p) \/ EvictWriteFails(p) \/ PassEnd(p)
      PROVE  Positions'
  BY <1>1, <1>4, <1>7 DEF PassBegin, EvictWriteFails, PassEnd
<1>8. ASSUME NEW p \in Passers, EvictWriteOK(p) PROVE Positions'
  <2> DEFINE b == pend[p]
  <2>1. b \in Blocks /\ b.sensor \in slots /\ b.sensor \in Sensors /\ Fits(p, b)
    BY <1>1, <1>8, BlockParts DEF EvictWriteOK, ThreadsFit, Pending
  <2>2. /\ nextId' = [nextId EXCEPT ![b.sensor] = @ + 1]
        /\ UNCHANGED <<lo, hi, slots, covers>>
    BY <1>8 DEF EvictWriteOK
  <2>3. nextId[b.sensor] + 1 <= lo[b.sensor]
    BY <1>1, <2>1, BlockParts DEF Fits
  <2> QED
    BY <1>1, <2>1, <2>2, <2>3
<1>9. ASSUME NEW p \in Passers, NEW s \in Sensors, EvictCopy(p, s) PROVE Positions'
  <2>1. hi[s] - lo[s] \in Nat /\ s \in slots
    BY <1>1, <1>9 DEF EvictCopy, ThreadsFit
  <2>2. PICK n \in Prefixes(p, hi[s] - lo[s]) :
          UNCHANGED lo \/ lo' = [lo EXCEPT ![s] = @ + n]
    BY <1>9 DEF EvictCopy
  <2>3. n \in Nat /\ n <= hi[s] - lo[s]
    BY <2>1, <2>2, PrefixIs
  <2>4. UNCHANGED <<hi, nextId, slots, covers>>
    BY <1>9 DEF EvictCopy
  <2>5. \A u \in Sensors : lo[u] <= lo'[u] /\ lo'[u] <= hi[u] /\ (u # s => lo'[u] = lo[u])
    BY <1>1, <2>1, <2>2, <2>3
  <2> QED
    BY <1>1, <2>1, <2>4, <2>5
<1>10. ASSUME NEW p \in Passers, NEW s \in Sensors, EvictNoMemory(p, s) PROVE Positions'
  BY <1>1, <1>4, <1>10 DEF EvictNoMemory
<1>11. CASE Close \/ Crash
  <2>1. /\ lo' = hi /\ UNCHANGED hi /\ nextId' = [s \in Sensors |-> 0]
        /\ covers' = [p \in Passers |-> [s \in Sensors |-> 0]]
    BY <1>11 DEF Close, Crash, Stop, LoseAllBut
  <2> QED
    BY <1>1, <2>1
<1>12. CASE Create
  BY <1>1, <1>4, <1>12 DEF Create
<1>13. CASE Open
  <2>1. \A s \in Sensors : SeededId(s) \in Nat /\ SeededId(s) <= lo[s]
    BY <1>1, SeededIs
  <2>2. ASSUME NEW s \in Sensors \ slots' PROVE SeededId(s) = 0
    <3>1. BlocksOf(db, s) = {}
      BY <1>13, <2>2 DEF Open, StoredSensors
    <3> QED
      BY <1>1, <3>1, SeededIs DEF Ids
  <2>3. \A s \in Sensors : lo[s] = hi[s]
    BY <1>1, <1>13 DEF Open, ThreadsFit
  <2> QED
    BY <1>1, <1>13, <2>1, <2>2, <2>3 DEF Open
<1>14. CASE UNCHANGED vars
  BY <1>1, <1>4, <1>14 DEF vars
<1> QED
  BY <1>2, <1>3, <1>5, <1>6, <1>7, <1>8, <1>9, <1>10, <1>11, <1>12, <1>13, <1>14, Steps

\* While a block waits to be written nothing disturbs its key or its place: the
\* store is the pass's own but for DeleteSensor, which only takes blocks away.
LEMMA PendingStep == ShapeInv /\ [Next]_vars => Pending'
<1> SUFFICES ASSUME ShapeInv, [Next]_vars PROVE Pending'
  OBVIOUS
<1>1. TypeOK /\ ThreadsFit /\ Positions /\ Pending /\ Stored /\ TypeOK'
  BY TypeStep DEF ShapeInv
<1> USE DEF storeVars, mapVars, ringVars, passVars, dropVars, countVars, ghostVars, Passers
<1>2. ASSUME UNCHANGED <<nextId, pend>>, \A s \in Sensors : lo[s] <= lo'[s],
             \A b \in db'.blocks : b \in db.blocks,
             \A c \in Callers : pend[c] # NoBlock => covers'[c] = covers[c]
      PROVE  Pending'
  <2> SUFFICES ASSUME NEW p \in Passers, pend[p] # NoBlock PROVE Fits(p, pend[p])'
    BY <1>2 DEF Pending
  <2>1. Fits(p, pend[p]) /\ pend[p] \in Blocks
    BY <1>1 DEF Pending, TypeOK
  <2> QED
    BY <1>1, <1>2, <2>1, BlockParts DEF Fits, BlocksOf, TypeOK
<1>3. ASSUME NEW s \in Sensors, Append(s) PROVE Pending'
  <2>1. \A u \in Sensors : lo[u] <= lo'[u]
    BY <1>1, <1>3 DEF Append, TypeOK
  <2> QED
    BY <1>2, <1>3, <2>1 DEF Append
<1>4. ASSUME \A p \in Passers : pend'[p] = NoBlock PROVE Pending'
  BY <1>4 DEF Pending
<1>5. ASSUME NEW s \in Sensors, DropFromMap(s) PROVE Pending'
  BY <1>1, <1>4, <1>5 DEF DropFromMap, MapFree, ThreadsFit
<1>6. ASSUME UNCHANGED lo PROVE \A s \in Sensors : lo[s] <= lo'[s]
  BY <1>1, <1>6 DEF TypeOK
<1>7. ASSUME NEW s \in Sensors, DropBlocks(s) \/ DropBlocksFails(s) PROVE Pending'
  <2>1. \A b \in db'.blocks : b \in db.blocks
    BY <1>1, <1>7 DEF DropBlocks, DropBlocksFails, Write, TypeOK, Stores
  <2> QED
    BY <1>2, <1>6, <1>7, <2>1 DEF DropBlocks, DropBlocksFails
<1>8. ASSUME NEW c \in Callers, FlushCall(c) \/ FlushOK(c) \/ FlushError(c) PROVE Pending'
  <2>1. pend[c] = NoBlock
    BY <1>1, <1>8 DEF FlushCall, FlushOK, FlushError, ThreadsFit, InPass
  <2>2. \A q \in Callers : q # c => covers'[q] = covers[q]
    BY <1>1, <1>8 DEF FlushCall, FlushOK, FlushError, TypeOK
  <2> QED
    BY <1>2, <1>6, <1>8, <2>1, <2>2 DEF FlushCall, FlushOK, FlushError
<1>9. ASSUME NEW p \in Passers, PassBegin(p) \/ PassEnd(p) PROVE Pending'
  BY <1>2, <1>6, <1>9 DEF PassBegin, PassEnd
<1>10. ASSUME NEW p \in Passers, EvictWriteOK(p) \/ EvictWriteFails(p) PROVE Pending'
  <2>1. InPass(p) /\ pend' = [pend EXCEPT ![p] = NoBlock]
    BY <1>10 DEF EvictWriteOK, EvictWriteFails
  <2> QED
    BY <1>1, <1>4, <2>1 DEF ThreadsFit, TypeOK
<1>11. ASSUME NEW p \in Passers, NEW s \in Sensors, EvictCopy(p, s) PROVE Pending'
  <2>1. /\ InPass(p) /\ UNCHANGED <<nextId, db, hi, covers>>
    BY <1>1, <1>11, CopyIs
  <2>2. PICK n \in Nat :
             /\ n <= hi[s] - lo[s] /\ (p \in Callers => n = hi[s] - lo[s])
             /\ \/ UNCHANGED <<lo, pend>>
                \/ /\ n > 0
                   /\ pend' = [pend EXCEPT ![p] = Block(s, nextId[s], lo[s], lo[s] + n)]
                   /\ lo' = [lo EXCEPT ![s] = @ + n]
    BY <1>1, <1>11, CopyIs
  <2>3. CASE UNCHANGED <<lo, pend>>
    BY <1>2, <1>6, <2>1, <2>3
  <2>4. CASE /\ n > 0
             /\ pend' = [pend EXCEPT ![p] = Block(s, nextId[s], lo[s], lo[s] + n)]
             /\ lo' = [lo EXCEPT ![s] = @ + n]
    <3>1. PICK b : /\ b = Block(s, nextId[s], lo[s], lo[s] + n)
                   /\ b.sensor = s /\ b.id = nextId[s] /\ b.from = lo[s] /\ b.to = lo[s] + n
      BY BlockIs
    <3>2. pend'[p] = b /\ \A q \in Passers : q # p => pend'[q] = NoBlock
      BY <1>1, <2>1, <2>4, <3>1 DEF ThreadsFit, TypeOK
    <3>3. lo[s] \in Nat /\ hi[s] \in Nat /\ nextId[s] <= lo[s] /\ lo'[s] = lo[s] + n
      BY <1>1, <2>4 DEF TypeOK, Positions
    <3>4. \A c \in BlocksOf(db, s) : c.to <= lo[s]
      BY <1>1 DEF Stored, BlocksOf
    <3>5. p \in Callers => covers[p][s] <= lo'[s]
      BY <1>1, <2>2, <3>3 DEF Positions, TypeOK
    <3>6. Fits(p, b)'
      BY <2>1, <2>4, <3>1, <3>3, <3>4, <3>5 DEF Fits, BlocksOf, TypeOK
    <3> QED
      BY <3>2, <3>6 DEF Pending
  <2> QED
    BY <2>2, <2>3, <2>4
<1>12. ASSUME NEW p \in Passers, NEW s \in Sensors, EvictNoMemory(p, s) PROVE Pending'
  BY <1>2, <1>6, <1>12 DEF EvictNoMemory
<1>13. CASE Close \/ Crash
  BY <1>4, <1>13 DEF Close, Crash, Stop
<1>14. CASE Create
  BY <1>2, <1>6, <1>14 DEF Create, Write, WithMetadata
<1>15. CASE Open
  <2>1. \A p \in Passers : pend[p] = NoBlock
    BY <1>1, <1>15 DEF Open, ThreadsFit, InPass
  <2> QED
    BY <1>4, <1>15, <2>1 DEF Open
<1>16. CASE UNCHANGED vars
  BY <1>2, <1>6, <1>16 DEF vars
<1> QED
  BY <1>3, <1>5, <1>7, <1>8, <1>9, <1>10, <1>11, <1>12, <1>13, <1>14, <1>15, <1>16, Steps

-----------------------------------------------------------------------------
(* The store *)

\* How the store, and what it may fall back to, change.
LEMMA StoreSteps ==
  ASSUME TypeOK, [Next]_vars
  PROVE  \/ UNCHANGED storeVars
         \/ UNCHANGED db /\ images' = {db}
         \/ db' \in images /\ images' = {db'} /\ Crash
         \/ /\ images' = images \cup {db'}
            /\ \/ \E s \in Sensors : /\ DropBlocks(s) /\ db'.meta = db.meta
                                     /\ db'.blocks = db.blocks \ BlocksOf(db, s)
               \/ \E p \in Passers : EvictWriteOK(p) /\ db' = Put(db, pend[p])
               \/ Create /\ db'.meta = TRUE /\ db'.blocks = db.blocks
<1> USE DEF storeVars
<1>1. CASE \E s \in Sensors : Append(s) \/ DropFromMap(s) \/ DropBlocksFails(s)
  BY <1>1 DEF Append, DropFromMap, DropBlocksFails
<1>2. ASSUME NEW s \in Sensors, DropBlocks(s)
      PROVE  /\ db'.meta = db.meta /\ db'.blocks = db.blocks \ BlocksOf(db, s)
             /\ images' = images \cup {db'}
  BY <1>2 DEF DropBlocks, Write, TypeOK, Stores
<1>3. CASE \E c \in Callers : FlushCall(c) \/ FlushOK(c) \/ FlushError(c)
  BY <1>3 DEF FlushCall, FlushOK, FlushError
<1>4. CASE \E p \in Passers : \/ PassBegin(p) \/ EvictWriteFails(p) \/ PassEnd(p)
                             \/ \E s \in Sensors : EvictCopy(p, s) \/ EvictNoMemory(p, s)
  BY <1>4 DEF PassBegin, EvictWriteFails, PassEnd, EvictCopy, EvictNoMemory
<1>5. ASSUME NEW p \in Passers, EvictWriteOK(p)
      PROVE  db' = Put(db, pend[p]) /\ images' = images \cup {db'}
  BY <1>5 DEF EvictWriteOK, Write
<1>6. CASE Close \/ Crash \/ Open
  BY <1>6 DEF Close, Crash, Open
<1>7. ASSUME Create
      PROVE  db'.meta = TRUE /\ db'.blocks = db.blocks /\ images' = images \cup {db'}
  BY <1>7 DEF Create, Write, WithMetadata, TypeOK, Stores
<1>8. CASE UNCHANGED vars
  BY <1>8 DEF vars
<1> QED
  BY <1>1, <1>2, <1>3, <1>4, <1>5, <1>6, <1>7, <1>8, Steps

\* Positions only go up, and a sensor with mixed blocks stays marked as one.
LEMMA OnlyGrows ==
  ASSUME ShapeInv, [Next]_vars
  PROVE  /\ \A s \in Sensors : lo[s] <= lo'[s] /\ hi[s] <= hi'[s]
         /\ leftover \subseteq leftover'
<1>1. TypeOK /\ Positions
  BY DEF ShapeInv
<1> USE DEF TypeOK, ringVars, dropVars
<1>2. ASSUME NEW s \in Sensors, Append(s) \/ DropFromMap(s)
      PROVE  /\ \A u \in Sensors : lo[u] <= lo'[u] /\ hi[u] <= hi'[u]
             /\ leftover \subseteq leftover'
  <2>1. CASE Append(s)
    BY <1>1, <2>1 DEF Append
  <2>2. CASE DropFromMap(s)
    BY <1>1, <2>2 DEF DropFromMap, Positions
  <2> QED
    BY <1>2, <2>1, <2>2
<1>3. CASE \E s \in Sensors : DropBlocks(s) \/ DropBlocksFails(s)
  BY <1>1, <1>3 DEF DropBlocks, DropBlocksFails
<1>4. CASE \E c \in Callers : FlushCall(c) \/ FlushOK(c) \/ FlushError(c)
  BY <1>1, <1>4 DEF FlushCall, FlushOK, FlushError
<1>5. CASE \E p \in Passers : \/ PassBegin(p) \/ EvictWriteOK(p) \/ EvictWriteFails(p) \/ PassEnd(p)
                             \/ \E s \in Sensors : EvictNoMemory(p, s)
  BY <1>1, <1>5 DEF PassBegin, EvictWriteOK, EvictWriteFails, PassEnd, EvictNoMemory
<1>6. ASSUME NEW p \in Passers, NEW s \in Sensors, EvictCopy(p, s)
      PROVE  /\ \A u \in Sensors : lo[u] <= lo'[u] /\ hi[u] <= hi'[u]
             /\ leftover \subseteq leftover'
  <2>1. UNCHANGED <<hi, leftover>> /\ \E n \in Nat : UNCHANGED lo \/ lo' = [lo EXCEPT ![s] = @ + n]
    BY <1>1, <1>6, CopyIs
  <2> QED
    BY <1>1, <2>1
<1>7. CASE Close \/ Crash
  BY <1>1, <1>7 DEF Close, Crash, Stop, LoseAllBut, Positions
<1>8. CASE Create \/ Open
  BY <1>1, <1>8 DEF Create, Open
<1>9. CASE UNCHANGED vars
  BY <1>1, <1>9 DEF vars
<1> QED
  BY <1>2, <1>3, <1>4, <1>5, <1>6, <1>7, <1>8, <1>9, Steps

\* The block a pass writes is one, of a sensor in the map.
LEMMA WriteIs ==
  ASSUME ShapeInv, NEW p \in Passers, EvictWriteOK(p) \/ EvictWriteFails(p)
  PROVE  /\ pend[p] \in Blocks /\ pend[p].sensor \in slots /\ pend[p].sensor \in Sensors
         /\ Fits(p, pend[p]) /\ InPass(p) /\ pend[p].sensor \in todo[p]
         /\ todo' = [todo EXCEPT ![p] = @ \ {pend[p].sensor}]
         /\ pend' = [pend EXCEPT ![p] = NoBlock] /\ up
<1>1. pend[p] # NoBlock /\ InPass(p)
  BY DEF EvictWriteOK, EvictWriteFails
<1>2. pend[p] \in Blocks
  BY <1>1 DEF ShapeInv, TypeOK
<1>3. /\ todo' = [todo EXCEPT ![p] = @ \ {pend[p].sensor}]
      /\ pend' = [pend EXCEPT ![p] = NoBlock]
  BY DEF EvictWriteOK, EvictWriteFails
<1> QED
  BY <1>1, <1>2, <1>3, BlockParts DEF ShapeInv, ThreadsFit, Pending, InPass

\* Every block the store may have lies below its sensor's ring, and keys are unique.
LEMMA StoredStep == ShapeInv /\ [Next]_vars => Stored'
<1> SUFFICES ASSUME ShapeInv, [Next]_vars PROVE Stored'
  OBVIOUS
<1>1. TypeOK /\ TypeOK' /\ Stored
  BY TypeStep DEF ShapeInv
<1> DEFINE Good(image) ==
        /\ \A b \in image.blocks : b.id < b.to /\ b.to <= lo[b.sensor]
        /\ \A b, c \in image.blocks : b.sensor = c.sensor /\ b.id = c.id => b = c
<1>2. ASSUME NEW image \in Stores, Good(image)
      PROVE  /\ \A b \in image.blocks : b.id < b.to /\ b.to <= lo'[b.sensor]
             /\ \A b, c \in image.blocks : b.sensor = c.sensor /\ b.id = c.id => b = c
  <2> SUFFICES ASSUME NEW b \in image.blocks PROVE b.to <= lo'[b.sensor]
    BY <1>2
  <2>1. b \in Blocks
    BY DEF Stores
  <2> QED
    BY <1>1, <1>2, <2>1, OnlyGrows, BlockParts DEF TypeOK
<1>3. \A image \in images : Good(image) /\ image \in Stores
  BY <1>1 DEF Stored, TypeOK
<1>4. ASSUME images' \subseteq images \cup {db'}, db' \in images', Good(db') PROVE Stored'
  <2>1. \A image \in images' : Good(image) /\ image \in Stores
    BY <1>1, <1>3, <1>4 DEF TypeOK
  <2> HIDE DEF Good
  <2>2. \A image \in images' :
             /\ \A b \in image.blocks : b.id < b.to /\ b.to <= lo'[b.sensor]
             /\ \A b, c \in image.blocks : b.sensor = c.sensor /\ b.id = c.id => b = c
    BY <1>2, <2>1
  <2> QED
    BY <1>4, <2>2 DEF Stored
<1>5. db \in images /\ Good(db)
  BY <1>1 DEF Stored
<1>6. ASSUME NEW p \in Passers, EvictWriteOK(p), db' = Put(db, pend[p]) PROVE Good(db')
  <2>1. pend[p] \in Blocks /\ Fits(p, pend[p])
    BY <1>6, WriteIs
  <2>2. db'.blocks = {c \in db.blocks : c.sensor # pend[p].sensor \/ c.id # pend[p].id}
                       \cup {pend[p]}
    BY <1>1, <1>6, <2>1, PutIs DEF TypeOK
  <2>3. pend[p].id < pend[p].to /\ pend[p].to <= lo[pend[p].sensor]
    BY <2>1, BlockParts DEF Fits
  <2> QED
    BY <1>5, <2>2, <2>3
<1>7. ASSUME db'.blocks = db.blocks \/ \E s \in Sensors : db'.blocks = db.blocks \ BlocksOf(db, s)
      PROVE  Good(db')
  BY <1>5, <1>7
<1>8. Good(db') /\ db' \in images' /\ images' \subseteq images \cup {db'}
  <2> HIDE DEF Good
  <2> QED
    BY <1>1, <1>3, <1>5, <1>6, <1>7, StoreSteps DEF storeVars
<1> QED
  BY <1>4, <1>8

\* Metadata comes before the first block, and no state to fall back to lacks it,
\* unless an Open went on without.
LEMMA SchemaStep == ShapeInv /\ [Next]_vars => Schema'
<1> SUFFICES ASSUME ShapeInv, [Next]_vars PROVE Schema'
  OBVIOUS
<1>1. TypeOK /\ TypeOK' /\ Stored /\ Schema
  BY TypeStep DEF ShapeInv
<1>2. /\ guessed => guessed'
      /\ up' => up \/ Create \/ (UNCHANGED db /\ (db.meta \/ guessed'))
  <2> USE DEF TypeOK, ghostVars
  <2>1. CASE \E s \in Sensors : Append(s) \/ DropFromMap(s) \/ DropBlocks(s) \/ DropBlocksFails(s)
    BY <2>1 DEF Append, DropFromMap, DropBlocks, DropBlocksFails
  <2>2. CASE \E c \in Callers : FlushCall(c) \/ FlushOK(c) \/ FlushError(c)
    BY <2>2 DEF FlushCall, FlushOK, FlushError
  <2>3. CASE \E p \in Passers : \/ PassBegin(p) \/ EvictWriteOK(p) \/ EvictWriteFails(p) \/ PassEnd(p)
                               \/ \E s \in Sensors : EvictCopy(p, s) \/ EvictNoMemory(p, s)
    BY <2>3 DEF PassBegin, EvictWriteOK, EvictWriteFails, PassEnd, EvictCopy, EvictNoMemory
  <2>4. CASE Close \/ Crash
    BY <2>4 DEF Close, Crash, Stop
  <2>5. CASE Create
    BY <2>5 DEF Create
  <2>6. CASE Open
    BY <1>1, <2>6 DEF Open
  <2>7. CASE UNCHANGED vars
    BY <2>7 DEF vars
  <2> QED
    BY <2>1, <2>2, <2>3, <2>4, <2>5, <2>6, <2>7, Steps
<1>3. Create => db'.meta = TRUE
  BY <1>1 DEF Create, Write, WithMetadata, TypeOK, Stores
<1>4. CASE UNCHANGED storeVars \/ (UNCHANGED db /\ images' = {db})
  <2>1. images' \subseteq images /\ db' = db
    BY <1>1, <1>4 DEF Stored, storeVars
  <2>2. up' => db'.meta \/ guessed'
    BY <1>1, <1>2, <1>3, <2>1 DEF Schema
  <2> QED
    BY <1>1, <1>2, <2>1, <2>2 DEF Schema
<1>5. CASE db' \in images /\ images' = {db'} /\ Crash
  BY <1>1, <1>2, <1>5 DEF Schema, Crash, Stop
<1>6. ASSUME NEW s \in Sensors, DropBlocks(s), db'.meta = db.meta,
             db'.blocks = db.blocks \ BlocksOf(db, s), images' = images \cup {db'}
      PROVE  Schema'
  <2>1. up' => up
    BY <1>6 DEF DropBlocks
  <2>2. db'.blocks # {} => db'.meta \/ guessed'
    BY <1>1, <1>2, <1>6 DEF Schema, Stored
  <2> QED
    BY <1>1, <1>2, <1>6, <2>1, <2>2 DEF Schema
<1>7. ASSUME NEW p \in Passers, EvictWriteOK(p), db' = Put(db, pend[p]),
             images' = images \cup {db'}
      PROVE  Schema'
  <2>1. db'.meta = db.meta /\ up
    BY <1>1, <1>7, WriteIs, PutIs DEF TypeOK
  <2>2. db'.meta \/ guessed'
    BY <1>1, <1>2, <2>1 DEF Schema
  <2> QED
    BY <1>1, <1>2, <1>7, <2>2 DEF Schema
<1>8. ASSUME Create, db'.meta = TRUE, images' = images \cup {db'} PROVE Schema'
  BY <1>1, <1>2, <1>8 DEF Schema
<1> QED
  BY <1>1, <1>4, <1>5, <1>6, <1>7, <1>8, StoreSteps

-----------------------------------------------------------------------------
(* Block ids *)

\* The blocks of one sensor after a Put.
LEMMA PutBlocksOf ==
  ASSUME NEW store \in Stores, NEW b \in Blocks, NEW s \in Sensors
  PROVE  BlocksOf(Put(store, b), s)
           = IF s = b.sensor THEN {c \in BlocksOf(store, s) : c.id # b.id} \cup {b}
                             ELSE BlocksOf(store, s)
BY PutIs DEF BlocksOf

\* What IsLog depends on.
LEMMA SameLog ==
  ASSUME NEW x, NEW y, NEW s, BlocksOf(x, s) = BlocksOf(y, s)
  PROVE  Ids(x, s) = Ids(y, s) /\ (IsLog(x, s) <=> IsLog(y, s))
BY DEF Ids, IsLog

\* No blocks are a log.
LEMMA EmptyLog ==
  ASSUME NEW x, NEW s, BlocksOf(x, s) = {}
  PROVE  Ids(x, s) = 0 .. 0 - 1 /\ IsLog(x, s)
<1>1. Ids(x, s) = {} /\ 0 .. 0 - 1 = {}
  BY DEF Ids
<1> QED
  BY <1>1 DEF IsLog

\* The block a pass writes continues the sensor's log.
LEMMA PutContinues ==
  ASSUME TierInv, NEW p \in Passers, EvictWriteOK(p), pend[p].sensor \notin leftover
  PROVE  /\ Ids(Put(db, pend[p]), pend[p].sensor) = 0 .. nextId[pend[p].sensor]
         /\ IsLog(Put(db, pend[p]), pend[p].sensor)
<1>1. PICK b \in Blocks, s \in Sensors : b = pend[p] /\ s = b.sensor
  BY WriteIs DEF TierInv
<1>2. /\ s \in slots /\ up /\ db \in Stores /\ b.id = nextId[s] /\ nextId[s] \in Nat
      /\ \A c \in BlocksOf(db, s) : c.to <= b.from
      /\ b.from < b.to
  BY <1>1, WriteIs DEF TierInv, ShapeInv, TypeOK, Fits
<1>3. Ids(db, s) = 0 .. nextId[s] - 1 /\ IsLog(db, s)
  BY <1>1, <1>2 DEF TierInv, ShapeInv, Seeded, Logs, Stored
<1>4. \A c \in BlocksOf(db, s) : c.id \in 0 .. nextId[s] - 1
  BY <1>3 DEF Ids
<1>5. \A c \in BlocksOf(db, s) : c.id # b.id /\ c.id < b.id
  BY <1>2, <1>4
<1>6. BlocksOf(Put(db, b), s) = BlocksOf(db, s) \cup {b}
  BY <1>1, <1>2, <1>5, PutBlocksOf
<1>7. Ids(Put(db, b), s) = Ids(db, s) \cup {b.id}
  BY <1>6 DEF Ids
<1>8. Ids(Put(db, b), s) = 0 .. nextId[s]
  BY <1>2, <1>3, <1>7
<1>9. \A c, d \in BlocksOf(Put(db, b), s) : c.id < d.id => c.to <= d.from
  <2> SUFFICES ASSUME NEW c \in BlocksOf(db, s) \cup {b}, NEW d \in BlocksOf(db, s) \cup {b},
                      c.id < d.id
               PROVE  c.to <= d.from
    BY <1>6
  <2>1. CASE c \in BlocksOf(db, s) /\ d \in BlocksOf(db, s)
    BY <1>3, <2>1 DEF IsLog
  <2>2. CASE c = b
    BY <1>2, <1>4, <2>2
  <2>3. CASE c \in BlocksOf(db, s) /\ d = b
    BY <1>2, <2>3
  <2> QED
    BY <2>1, <2>2, <2>3
<1>10. IsLog(Put(db, b), s)
  <2>1. (nextId[s] + 1) - 1 = nextId[s] /\ nextId[s] + 1 \in Nat
    BY <1>2
  <2>2. Ids(Put(db, b), s) = 0 .. (nextId[s] + 1) - 1
    BY <1>8, <2>1
  <2> QED
    BY <1>9, <2>1, <2>2 DEF IsLog
<1> QED
  BY <1>1, <1>8, <1>10

\* No step leaves a gap in a sensor's ids or puts blocks out of order.
LEMMA LogsStep == TierInv /\ [Next]_vars => Logs'
<1> SUFFICES ASSUME TierInv, ShapeInv, [Next]_vars PROVE Logs'
  BY DEF TierInv
<1>1. /\ TypeOK /\ db \in images /\ db \in Stores /\ leftover \subseteq leftover'
      /\ \A image \in images : \A s \in Sensors \ leftover : IsLog(image, s)
  BY OnlyGrows DEF TierInv, ShapeInv, TypeOK, Stored, Logs
<1>2. ASSUME images' \subseteq images \cup {db'},
             \A s \in Sensors \ leftover' : IsLog(db', s)
      PROVE  Logs'
  <2>1. ASSUME NEW image \in images', NEW s \in Sensors \ leftover' PROVE IsLog(image, s)
    BY <1>1, <1>2
  <2>2. \A image \in images' : \A s \in Sensors \ leftover' : IsLog(image, s)
    BY <2>1
  <2> QED
    BY <2>2 DEF Logs, IsLog, Ids, BlocksOf
<1>3. ASSUME db' = db \/ db'.blocks = db.blocks, NEW s \in Sensors \ leftover'
      PROVE  IsLog(db', s)
  <2>1. BlocksOf(db', s) = BlocksOf(db, s)
    BY <1>3 DEF BlocksOf
  <2> QED
    BY <1>1, <2>1, SameLog
<1>4. ASSUME NEW u \in Sensors, db'.blocks = db.blocks \ BlocksOf(db, u),
             NEW s \in Sensors \ leftover'
      PROVE  IsLog(db', s)
  <2>1. CASE s = u
    <3>1. BlocksOf(db', s) = {}
      BY <1>4, <2>1 DEF BlocksOf
    <3> QED
      BY <3>1, EmptyLog
  <2>2. CASE s # u
    <3>1. BlocksOf(db', s) = BlocksOf(db, s)
      BY <1>4, <2>2 DEF BlocksOf
    <3> QED
      BY <1>1, <3>1, SameLog
  <2> QED
    BY <2>1, <2>2
<1>5. ASSUME NEW p \in Passers, EvictWriteOK(p), db' = Put(db, pend[p]),
             NEW s \in Sensors \ leftover'
      PROVE  IsLog(db', s)
  <2>1. CASE s = pend[p].sensor
    BY <1>1, <1>5, <2>1, PutContinues
  <2>2. CASE s # pend[p].sensor
    <3>1. BlocksOf(db', s) = BlocksOf(db, s)
      BY <1>1, <1>5, <2>2, WriteIs, PutBlocksOf
    <3> QED
      BY <1>1, <3>1, SameLog
  <2> QED
    BY <2>1, <2>2
<1>6. CASE db' \in images /\ images' = {db'}
  BY <1>1, <1>2, <1>6
<1>7. CASE UNCHANGED storeVars \/ (UNCHANGED db /\ images' = {db})
  BY <1>1, <1>2, <1>3, <1>7 DEF storeVars
<1>8. CASE images' = images \cup {db'} /\ \/ \E s \in Sensors : db'.blocks = db.blocks \ BlocksOf(db, s)
                                          \/ \E p \in Passers : EvictWriteOK(p) /\ db' = Put(db, pend[p])
                                          \/ db'.blocks = db.blocks
  BY <1>2, <1>3, <1>4, <1>5, <1>8
<1> QED
  BY <1>1, <1>6, <1>7, <1>8, StoreSteps

\* The next id of a sensor in the map continues its log; Open finds it again.
LEMMA SeededStep == TierInv /\ PathsFit /\ [Next]_vars => Seeded'
<1> SUFFICES ASSUME TierInv, ShapeInv, PathsFit, [Next]_vars PROVE Seeded'
  BY DEF TierInv
<1> DEFINE SeededOf(s) == IF s \in slots THEN Ids(db, s) = 0 .. nextId[s] - 1
                                         ELSE deleting[s] > 0 \/ BlocksOf(db, s) = {}
<1>1. /\ TypeOK /\ ThreadsFit /\ Positions /\ Stored /\ Schema /\ Logs
      /\ leftover \subseteq leftover'
      /\ up => \A s \in Sensors \ leftover : SeededOf(s)
  BY OnlyGrows DEF TierInv, ShapeInv, Seeded
<1>2. ASSUME up' => \A s \in Sensors \ leftover' : SeededOf(s)' PROVE Seeded'
  BY <1>2 DEF Seeded
<1>3. ASSUME up' => up, NEW s \in Sensors \ leftover', up', BlocksOf(db', s) = BlocksOf(db, s),
             s \in slots' <=> s \in slots, nextId'[s] = nextId[s],
             deleting[s] > 0 => deleting'[s] > 0
      PROVE  SeededOf(s)'
  <2>1. SeededOf(s)
    BY <1>1, <1>3
  <2>2. Ids(db', s) = Ids(db, s)
    BY <1>3, SameLog
  <2> QED
    BY <1>3, <2>1, <2>2 DEF Ids, BlocksOf
<1> USE DEF storeVars, mapVars, ringVars, passVars, dropVars, countVars, ghostVars
<1>4. ASSUME UNCHANGED <<up, db, mapVars, deleting>> PROVE Seeded'
  BY <1>2, <1>3, <1>4
<1>5. ASSUME NEW s \in Sensors, Append(s), NEW u \in Sensors \ leftover', up' PROVE SeededOf(u)'
  <2>1. UNCHANGED <<up, db, nextId, deleting>> /\ slots' = slots \cup {s}
        /\ leftover' = IF deleting[s] > 0 THEN leftover \cup {s} ELSE leftover
    BY <1>5 DEF Append
  <2>2. CASE u # s \/ s \in slots
    BY <1>3, <1>5, <2>1, <2>2
  <2>3. CASE u = s /\ s \notin slots
    <3>1. SeededOf(s) /\ ~(deleting[s] > 0)
      BY <1>1, <1>5, <2>1, <2>3
    <3>2. BlocksOf(db, s) = {} /\ nextId[s] = 0
      BY <1>1, <2>3, <3>1 DEF Positions
    <3>3. Ids(db, s) = 0 .. 0 - 1
      BY <3>2, EmptyLog
    <3>4. Ids(db', s) = 0 .. nextId'[s] - 1 /\ s \in slots'
      BY <2>1, <3>2, <3>3
    <3> QED
      BY <2>3, <3>4 DEF Ids, BlocksOf
  <2> QED
    BY <2>2, <2>3
<1>6. ASSUME NEW s \in Sensors, DropFromMap(s), NEW u \in Sensors \ leftover', up'
      PROVE  SeededOf(u)'
  <2>1. /\ UNCHANGED <<up, db>> /\ slots' = slots \ {s}
        /\ deleting' = [deleting EXCEPT ![s] = @ + 1] /\ deleting[s] \in Nat
        /\ nextId' = [nextId EXCEPT ![s] = 0]
    BY <1>1, <1>6 DEF DropFromMap, TypeOK
  <2>2. CASE u = s
    BY <1>1, <2>1, <2>2 DEF TypeOK
  <2>3. CASE u # s
    <3>1. nextId'[u] = nextId[u]
      BY <1>1, <2>1, <2>3 DEF TypeOK
    <3> QED
      BY <1>3, <1>6, <2>1, <2>3, <3>1
  <2> QED
    BY <2>2, <2>3
<1>7. ASSUME NEW s \in Sensors, DropBlocks(s), db'.blocks = db.blocks \ BlocksOf(db, s),
             NEW u \in Sensors \ leftover', up'
      PROVE  SeededOf(u)'
  <2>1. /\ UNCHANGED <<up, mapVars, leftover>> /\ deleting[s] > 0
        /\ deleting' = [deleting EXCEPT ![s] = @ - 1]
    BY <1>7 DEF DropBlocks
  <2>2. CASE u = s
    <3>1. BlocksOf(db', s) = {}
      BY <1>7 DEF BlocksOf
    <3>2. s \notin slots'
      BY <1>1, <1>7, <2>1, <2>2 DEF ThreadsFit
    <3> QED
      BY <2>2, <3>1, <3>2 DEF BlocksOf
  <2>3. CASE u # s
    <3>1. BlocksOf(db', u) = BlocksOf(db, u)
      BY <1>7, <2>3 DEF BlocksOf
    <3> QED
      BY <1>3, <1>7, <2>1, <2>3, <3>1
  <2> QED
    BY <2>2, <2>3
<1>8. ASSUME NEW s \in Sensors, DropBlocksFails(s), NEW u \in Sensors \ leftover', up'
      PROVE  SeededOf(u)'
  BY <1>3, <1>8 DEF DropBlocksFails
<1>9. ASSUME NEW p \in Passers, EvictWriteOK(p), NEW u \in Sensors \ leftover', up'
      PROVE  SeededOf(u)'
  <2>1. PICK s \in Sensors : s = pend[p].sensor /\ s \in slots
    BY <1>9, WriteIs
  <2>2. /\ UNCHANGED <<up, slots, deleting, leftover>> /\ db' = Put(db, pend[p])
        /\ nextId' = [nextId EXCEPT ![s] = @ + 1]
    BY <1>9, <2>1 DEF EvictWriteOK, Write
  <2>3. CASE u = s
    <3>1. Ids(db', s) = 0 .. nextId[s]
      BY <1>9, <2>1, <2>2, <2>3, PutContinues
    <3>2. nextId'[s] - 1 = nextId[s]
      BY <1>1, <2>2 DEF TypeOK
    <3> QED
      BY <2>1, <2>2, <2>3, <3>1, <3>2 DEF Ids, BlocksOf
  <2>4. CASE u # s
    <3>1. BlocksOf(db', u) = BlocksOf(db, u)
      BY <1>1, <1>9, <2>1, <2>2, <2>4, WriteIs, PutBlocksOf DEF TypeOK
    <3>2. nextId'[u] = nextId[u]
      BY <1>1, <2>2, <2>4 DEF TypeOK
    <3> QED
      BY <1>3, <1>9, <2>2, <3>1, <3>2
  <2> QED
    BY <2>3, <2>4
<1>10. CASE Create
  <2>1. db.blocks = {} /\ db'.blocks = db.blocks /\ slots' = {}
    BY <1>1, <1>10 DEF Create, Write, WithMetadata, Stored, Schema, ThreadsFit, TypeOK, Stores
  <2>2. ASSUME NEW s \in Sensors PROVE s \notin slots' /\ BlocksOf(db', s) = {}
    BY <2>1 DEF BlocksOf
  <2> QED
    BY <1>2, <2>2 DEF BlocksOf
<1>11. ASSUME Open, NEW s \in Sensors \ leftover' PROVE SeededOf(s)'
  <2>1. /\ UNCHANGED db /\ slots' = StoredSensors(db) /\ nextId'[s] = SeededId(s)
        /\ leftover' = leftover
    BY <1>11 DEF Open
  <2>2. CASE s \notin slots'
    BY <2>1, <2>2 DEF StoredSensors, BlocksOf
  <2>3. CASE s \in slots'
    <3>1. PICK n \in Nat : Ids(db, s) = 0 .. n - 1
      BY <1>1, <2>1 DEF Logs, Stored, IsLog
    <3>2. Ids(db, s) # {}
      BY <2>1, <2>3 DEF StoredSensors, Ids
    <3>3. /\ SeededId(s) \in Nat /\ SeededId(s) - 1 \in Ids(db, s)
          /\ \A i \in Ids(db, s) : i < SeededId(s)
      BY <1>1, <3>2, SeededIs
    <3>4. n > 0 /\ n - 1 \in Ids(db, s)
      BY <3>1, <3>2
    <3>5. SeededId(s) = n
      BY <3>1, <3>3, <3>4
    <3>6. Ids(db', s) = 0 .. nextId'[s] - 1
      BY <2>1, <3>1, <3>5
    <3> QED
      BY <2>3, <3>6 DEF Ids, BlocksOf
  <2> QED
    BY <2>2, <2>3
<1>12. CASE Close \/ Crash
  BY <1>2, <1>12 DEF Close, Crash, Stop
<1>13. CASE \E c \in Callers : FlushCall(c) \/ FlushOK(c) \/ FlushError(c)
  BY <1>4, <1>13 DEF FlushCall, FlushOK, FlushError
<1>14. CASE \E p \in Passers : \/ PassBegin(p) \/ EvictWriteFails(p) \/ PassEnd(p)
                              \/ \E s \in Sensors : EvictCopy(p, s) \/ EvictNoMemory(p, s)
  BY <1>4, <1>14 DEF PassBegin, EvictWriteFails, PassEnd, EvictCopy, EvictNoMemory
<1>15. CASE UNCHANGED vars
  BY <1>4, <1>15 DEF vars
<1>16. ASSUME NEW s \in Sensors, DropBlocks(s) PROVE db'.blocks = db.blocks \ BlocksOf(db, s)
  BY <1>1, <1>16 DEF DropBlocks, Write, TypeOK, Stores
<1> HIDE DEF SeededOf
<1> QED
  BY <1>2, <1>5, <1>6, <1>7, <1>8, <1>9, <1>10, <1>11, <1>12, <1>13, <1>14, <1>15, <1>16,
     Steps

-----------------------------------------------------------------------------
(* Where the entries are *)

\* A block a later Put may replace holds nothing that is still counted on.
LEMMA SupersededStep == TierInv /\ PathsFit /\ [Next]_vars => Superseded'
<1> SUFFICES ASSUME TierInv, ShapeInv, PathsFit, [Next]_vars PROVE Superseded'
  BY DEF TierInv
<1>1. /\ TypeOK /\ ThreadsFit /\ Positions /\ Stored /\ Schema /\ Superseded
      /\ \A b \in db.blocks : b \in Blocks
  BY DEF TierInv, ShapeInv, TypeOK, Stores
<1> USE DEF storeVars, mapVars, ringVars, passVars, dropVars, countVars, ghostVars
<1>2. ASSUME up' => up, \A b \in db'.blocks : b \in db.blocks, slots \subseteq slots',
             \A s \in Sensors : nextId[s] <= nextId'[s] /\ gone[s] \subseteq gone'[s]
      PROVE  Superseded'
  <2> SUFFICES ASSUME up', NEW b \in db'.blocks
               PROVE  \/ b.sensor \in slots' /\ b.id < nextId'[b.sensor]
                      \/ b.from .. b.to - 1 \subseteq gone'[b.sensor]
    BY DEF Superseded
  <2>1. b \in db.blocks /\ b \in Blocks /\ b.sensor \in Sensors /\ b.id \in Nat
    BY <1>1, <1>2, BlockParts
  <2>2. \/ b.sensor \in slots /\ b.id < nextId[b.sensor]
        \/ b.from .. b.to - 1 \subseteq gone[b.sensor]
    BY <1>1, <1>2, <2>1 DEF Superseded
  <2>3. CASE b.sensor \in slots /\ b.id < nextId[b.sensor]
    <3>1. nextId[b.sensor] \in Nat /\ nextId[b.sensor] <= nextId'[b.sensor] /\ nextId'[b.sensor] \in Nat
      BY <1>1, <1>2, <2>1, TypeStep DEF TypeOK
    <3> QED
      BY <1>2, <2>1, <2>3, <3>1
  <2>4. CASE b.from .. b.to - 1 \subseteq gone[b.sensor]
    BY <1>2, <2>1, <2>4
  <2> QED
    BY <2>2, <2>3, <2>4
<1>3. ASSUME UNCHANGED <<up, db, slots, nextId, gone>> PROVE Superseded'
  BY <1>1, <1>2, <1>3 DEF TypeOK
<1>4. ASSUME NEW s \in Sensors, Append(s) PROVE Superseded'
  <2>1. /\ UNCHANGED <<up, db, nextId>> /\ slots \subseteq slots'
        /\ \A u \in Sensors : gone[u] \subseteq gone'[u]
    BY <1>1, <1>4 DEF Append, TypeOK
  <2> QED
    BY <1>1, <1>2, <2>1 DEF TypeOK
<1>5. ASSUME NEW s \in Sensors, DropFromMap(s) PROVE Superseded'
  <2>1. /\ UNCHANGED <<up, db>> /\ slots' = slots \ {s} /\ nextId' = [nextId EXCEPT ![s] = 0]
        /\ gone' = [gone EXCEPT ![s] = 0 .. hi[s] - 1]
    BY <1>5 DEF DropFromMap
  <2> SUFFICES ASSUME up', NEW b \in db'.blocks
               PROVE  \/ b.sensor \in slots' /\ b.id < nextId'[b.sensor]
                      \/ b.from .. b.to - 1 \subseteq gone'[b.sensor]
    BY DEF Superseded
  <2>2. b \in db.blocks /\ b \in Blocks /\ b.sensor \in Sensors
    BY <1>1, <2>1, BlockParts
  <2>3. CASE b.sensor = s
    <3>1. /\ b.to \in Nat /\ b.from \in Nat /\ hi[s] \in Nat /\ lo[s] \in Nat
          /\ b.to <= lo[s] /\ lo[s] <= hi[s]
      BY <1>1, <2>2, <2>3, BlockParts DEF Stored, Positions, TypeOK
    <3>2. gone'[s] = 0 .. hi[s] - 1
      BY <1>1, <2>1 DEF TypeOK
    <3> QED
      BY <2>3, <3>1, <3>2
  <2>4. CASE b.sensor # s
    BY <1>1, <2>1, <2>2, <2>4 DEF Superseded, TypeOK
  <2> QED
    BY <2>3, <2>4
<1>6. ASSUME NEW s \in Sensors, DropBlocks(s) PROVE Superseded'
  <2>1. /\ UNCHANGED <<up, slots, nextId>> /\ \A b \in db'.blocks : b \in db.blocks
        /\ \A u \in Sensors : gone[u] \subseteq gone'[u]
    BY <1>1, <1>6 DEF DropBlocks, Write, TypeOK, Stores
  <2> QED
    BY <1>1, <1>2, <2>1 DEF TypeOK
<1>7. ASSUME NEW p \in Passers, EvictWriteOK(p) PROVE Superseded'
  <2>1. PICK w \in Blocks, s \in Sensors : w = pend[p] /\ s = w.sensor /\ s \in slots
                                           /\ w.id = nextId[s] /\ up
    BY <1>7, WriteIs DEF Fits
  <2>2. /\ UNCHANGED <<up, slots, gone>> /\ nextId' = [nextId EXCEPT ![s] = @ + 1]
        /\ db'.blocks = {c \in db.blocks : c.sensor # s \/ c.id # w.id} \cup {w}
    BY <1>1, <1>7, <2>1, PutIs DEF EvictWriteOK, Write, TypeOK
  <2> SUFFICES ASSUME NEW b \in db'.blocks
               PROVE  \/ b.sensor \in slots' /\ b.id < nextId'[b.sensor]
                      \/ b.from .. b.to - 1 \subseteq gone'[b.sensor]
    BY DEF Superseded
  <2>3. b \in Blocks
    BY <1>1, <2>1, <2>2
  <2>4. \A u \in Sensors : nextId[u] \in Nat /\ nextId'[u] = IF u = s THEN nextId[u] + 1 ELSE nextId[u]
    BY <1>1, <2>2 DEF TypeOK
  <2>5. CASE b = w
    BY <2>1, <2>2, <2>4, <2>5
  <2>6. CASE b \in db.blocks
    BY <1>1, <2>1, <2>2, <2>3, <2>4, <2>6, BlockParts DEF Superseded
  <2> QED
    BY <2>2, <2>5, <2>6
<1>8. CASE Create
  <2>1. db'.blocks = {}
    BY <1>1, <1>8 DEF Create, Write, WithMetadata, Stored, Schema, TypeOK, Stores
  <2> QED
    BY <2>1 DEF Superseded
<1>9. CASE Open
  <2> SUFFICES ASSUME NEW b \in db'.blocks
               PROVE  b.sensor \in slots' /\ b.id < nextId'[b.sensor]
    BY DEF Superseded
  <2>1. b \in db.blocks /\ b.sensor \in Sensors
    BY <1>1, <1>9, BlockParts DEF Open
  <2>2. b \in BlocksOf(db, b.sensor) /\ b.id \in Ids(db, b.sensor)
    BY <2>1 DEF BlocksOf, Ids
  <2>3. b.id < SeededId(b.sensor)
    BY <1>1, <2>1, <2>2, SeededIs
  <2> QED
    BY <1>9, <2>1, <2>2, <2>3 DEF Open, StoredSensors
<1>10. CASE Close \/ Crash
  BY <1>10 DEF Close, Crash, Stop, Superseded
<1>11. CASE \E c \in Callers : FlushCall(c) \/ FlushOK(c) \/ FlushError(c)
  BY <1>3, <1>11 DEF FlushCall, FlushOK, FlushError
<1>12. CASE \E p \in Passers : \/ PassBegin(p) \/ EvictWriteFails(p) \/ PassEnd(p)
                              \/ \E s \in Sensors : EvictCopy(p, s) \/ EvictNoMemory(p, s)
  BY <1>3, <1>12 DEF PassBegin, EvictWriteFails, PassEnd, EvictCopy, EvictNoMemory
<1>13. CASE (\E s \in Sensors : DropBlocksFails(s)) \/ UNCHANGED vars
  BY <1>3, <1>13 DEF DropBlocksFails, vars
<1> QED
  BY <1>4, <1>5, <1>6, <1>7, <1>8, <1>9, <1>10, <1>11, <1>12, <1>13, Steps

\* A WriteBlock takes no entry away that was not lost before.
LEMMA PutKeeps ==
  ASSUME TierInv, NEW p \in Passers, EvictWriteOK(p), NEW s \in Sensors,
         NEW e \in Held(db, s), e \notin gone[s]
  PROVE  e \in Held(Put(db, pend[p]), s)
<1>1. PICK b \in db.blocks : b.sensor = s /\ e \in b.from .. b.to - 1
  BY HeldIs
<1>2. /\ pend[p] \in Blocks /\ pend[p].id = nextId[pend[p].sensor] /\ up
      /\ pend[p].sensor \in Sensors /\ db \in Stores
  BY WriteIs DEF Fits, TierInv, ShapeInv, TypeOK
<1>3. s \in slots /\ b.id < nextId[s]
  BY <1>1, <1>2 DEF TierInv, ShapeInv, Superseded
<1>4. nextId[s] \in Nat /\ b.id \in Nat
  BY <1>1, <1>2, BlockParts DEF TierInv, ShapeInv, TypeOK, Stores
<1>5. b \in Put(db, pend[p]).blocks
  BY <1>1, <1>2, <1>3, <1>4, PutIs
<1> QED
  BY <1>1, <1>5, HeldIs

\* While the engine is up an entry that is in a block, or known to be lost, stays so.
LEMMA SafeKept ==
  ASSUME TierInv, [Next]_vars, ~ Close, ~ Crash, NEW s \in Sensors, NEW e \in 0 .. hi[s] - 1,
         Safe(s, e)
  PROVE  Safe(s, e)'
<1>1. ShapeInv /\ TypeOK
  BY DEF TierInv, ShapeInv
<1> USE DEF storeVars, ghostVars, TypeOK
<1>2. ASSUME gone[s] \subseteq gone'[s], failed[s] \subseteq failed'[s],
             e \in Held(db, s) => e \in gone'[s] \/ e \in Held(db', s)
      PROVE  Safe(s, e)'
  BY <1>2 DEF Safe, Held, BlocksOf
<1>3. ASSUME UNCHANGED <<db, gone>>, failed[s] \subseteq failed'[s] PROVE Safe(s, e)'
  BY <1>2, <1>3
<1>4. ASSUME NEW u \in Sensors, Append(u) PROVE Safe(s, e)'
  <2>1. gone[s] \subseteq gone'[s] /\ UNCHANGED <<db, failed>>
    BY <1>1, <1>4 DEF Append
  <2> QED
    BY <1>2, <2>1
<1>5. ASSUME NEW u \in Sensors, DropFromMap(u) PROVE Safe(s, e)'
  <2>1. UNCHANGED <<db, failed>> /\ gone' = [gone EXCEPT ![u] = 0 .. hi[u] - 1]
    BY <1>5 DEF DropFromMap
  <2>2. CASE u = s
    <3>1. e \in gone'[s]
      BY <1>1, <2>1, <2>2
    <3> QED
      BY <3>1 DEF Safe
  <2>3. CASE u # s
    <3>1. gone'[s] = gone[s]
      BY <1>1, <2>1, <2>3
    <3> QED
      BY <1>2, <2>1, <3>1
  <2> QED
    BY <2>2, <2>3
<1>6. ASSUME NEW u \in Sensors, DropBlocks(u) PROVE Safe(s, e)'
  <2>1. /\ gone' = [gone EXCEPT ![u] = @ \cup Held(db, u)] /\ UNCHANGED failed
        /\ db'.blocks = db.blocks \ BlocksOf(db, u)
    BY <1>1, <1>6 DEF DropBlocks, Write, Stores
  <2>2. u # s => BlocksOf(db', s) = BlocksOf(db, s)
    BY <2>1 DEF BlocksOf
  <2>3. u # s => Held(db', s) = Held(db, s)
    BY <2>2 DEF Held
  <2> QED
    BY <1>1, <1>2, <2>1, <2>3
<1>7. ASSUME NEW p \in Passers, EvictWriteOK(p) PROVE Safe(s, e)'
  <2>1. UNCHANGED <<gone, failed>> /\ db' = Put(db, pend[p])
    BY <1>7 DEF EvictWriteOK, Write
  <2> QED
    BY <1>2, <1>7, <2>1, PutKeeps
<1>8. ASSUME NEW p \in Passers, EvictWriteFails(p) PROVE Safe(s, e)'
  <2>1. pend[p].sensor \in Sensors
    BY <1>1, <1>8, WriteIs
  <2>2. UNCHANGED <<db, gone>> /\ failed[s] \subseteq failed'[s]
    BY <1>1, <1>8, <2>1 DEF EvictWriteFails
  <2> QED
    BY <1>3, <2>2
<1>9. ASSUME NEW p \in Passers, NEW u \in Sensors, EvictNoMemory(p, u) PROVE Safe(s, e)'
  <2>1. UNCHANGED <<db, gone>> /\ failed[s] \subseteq failed'[s]
    BY <1>1, <1>9 DEF EvictNoMemory
  <2> QED
    BY <1>3, <2>1
<1>10. CASE Create
  <2>1. Held(db', s) = Held(db, s)
    BY <1>1, <1>10 DEF Create, Write, WithMetadata, Stores, Held, BlocksOf
  <2> QED
    BY <1>2, <1>10, <2>1 DEF Create
<1>11. CASE Open \/ UNCHANGED vars \/ \E u \in Sensors : DropBlocksFails(u)
  BY <1>3, <1>11 DEF Open, DropBlocksFails, vars
<1>12. CASE \E c \in Callers : FlushCall(c) \/ FlushOK(c) \/ FlushError(c)
  BY <1>3, <1>12 DEF FlushCall, FlushOK, FlushError
<1>13. CASE \E p \in Passers : PassBegin(p) \/ PassEnd(p) \/ \E u \in Sensors : EvictCopy(p, u)
  BY <1>3, <1>13 DEF PassBegin, PassEnd, EvictCopy
<1> QED
  BY <1>4, <1>5, <1>6, <1>7, <1>8, <1>9, <1>10, <1>11, <1>12, <1>13, Steps

\* No entry is lost on its way from the ring to the store but those that are counted.
LEMMA AccountedStep == TierInv /\ [Next]_vars => Accounted'
<1> SUFFICES ASSUME TierInv, ShapeInv, [Next]_vars, NEW s \in Sensors, NEW e \in 0 .. hi'[s] - 1
             PROVE  (Safe(s, e) \/ e >= lo[s] \/ Copied(s, e))'
  BY DEF TierInv, Accounted
<1>1. /\ TypeOK /\ TypeOK' /\ ThreadsFit /\ Positions /\ Stored /\ e \in Nat
      /\ e < hi[s] => Safe(s, e) \/ e >= lo[s] \/ Copied(s, e)
  BY TypeStep DEF TierInv, ShapeInv, Accounted, TypeOK
<1> DEFINE Done == (Safe(s, e) \/ e >= lo[s] \/ Copied(s, e))'
<1> USE DEF storeVars, mapVars, ringVars, passVars, ghostVars
<1>2. CASE Close \/ Crash
  <2>1. UNCHANGED hi /\ gone' = [u \in Sensors |-> (0 .. hi[u] - 1) \ Held(db', u)]
    BY <1>2 DEF Close, Crash, Stop, LoseAllBut
  <2>2. e \in gone'[s] \/ e \in Held(db', s)
    BY <2>1
  <2> QED
    BY <2>2 DEF Safe, Held, BlocksOf
<1>3. ASSUME ~ Close, ~ Crash, e < hi[s], Safe(s, e) PROVE Done
  BY <1>1, <1>3, SafeKept DEF TypeOK
<1>4. ASSUME ~ Close, ~ Crash, UNCHANGED <<lo, hi, pend>> PROVE Done
  <2>1. e < hi[s]
    BY <1>1, <1>4 DEF TypeOK
  <2> QED
    BY <1>1, <1>3, <1>4, <2>1 DEF Copied
<1>5. ASSUME NEW u \in Sensors, Append(u), ~ Close, ~ Crash PROVE Done
  <2>1. /\ UNCHANGED pend /\ hi' = [hi EXCEPT ![u] = @ + 1]
        /\ \/ UNCHANGED lo
           \/ /\ hi[u] - lo[u] >= RingCapacity
              /\ lo' = [lo EXCEPT ![u] = @ + 1]
              /\ gone' = [gone EXCEPT ![u] = @ \cup {lo[u]}]
    BY <1>5 DEF Append
  <2>2. /\ lo[s] \in Nat /\ hi[s] \in Nat /\ lo[s] <= hi[s]
        /\ e < hi[s] + 1 /\ (e < hi[s] \/ u = s)
    BY <1>1, <2>1 DEF TypeOK, Positions
  <2>3. CASE e < hi[s] /\ Safe(s, e)
    BY <1>3, <1>5, <2>3
  <2>4. CASE e < hi[s] /\ Copied(s, e)
    BY <2>1, <2>4 DEF Copied
  <2>5. CASE e >= lo[s]
    <3>1. CASE e >= lo'[s]
      BY <3>1
    <3>2. CASE e < lo'[s]
      <4>1. u = s /\ e = lo[s] /\ gone' = [gone EXCEPT ![u] = @ \cup {lo[u]}]
        <5>1. CASE UNCHANGED lo
          BY <1>1, <2>2, <2>5, <3>2, <5>1
        <5>2. CASE /\ lo' = [lo EXCEPT ![u] = @ + 1]
                   /\ gone' = [gone EXCEPT ![u] = @ \cup {lo[u]}]
          <6>1. lo'[s] = IF u = s THEN lo[s] + 1 ELSE lo[s]
            BY <1>1, <5>2 DEF TypeOK
          <6> QED
            BY <1>1, <2>2, <2>5, <3>2, <5>2, <6>1
        <5> QED
          BY <2>1, <5>1, <5>2
      <4>2. e \in gone'[s]
        BY <1>1, <4>1 DEF TypeOK
      <4> QED
        BY <4>2 DEF Safe
    <3> QED
      BY <1>1, <3>1, <3>2 DEF TypeOK
  <2> QED
    BY <1>1, <2>2, <2>3, <2>4, <2>5
<1>6. ASSUME NEW u \in Sensors, DropFromMap(u), ~ Close, ~ Crash PROVE Done
  <2>1. /\ UNCHANGED <<pend, hi>> /\ lo' = [lo EXCEPT ![u] = hi[u]]
        /\ gone' = [gone EXCEPT ![u] = 0 .. hi[u] - 1]
    BY <1>6 DEF DropFromMap
  <2>2. CASE u = s
    <3>1. e \in gone'[s]
      BY <1>1, <2>1, <2>2 DEF TypeOK
    <3> QED
      BY <3>1 DEF Safe
  <2>3. CASE u # s
    <3>1. lo'[s] = lo[s] /\ e < hi[s]
      BY <1>1, <2>1, <2>3 DEF TypeOK
    <3> QED
      BY <1>1, <1>3, <1>6, <2>1, <3>1 DEF Copied
  <2> QED
    BY <2>2, <2>3
<1>7. ASSUME NEW p \in Passers, NEW u \in Sensors, EvictCopy(p, u), ~ Close, ~ Crash PROVE Done
  <2>1. UNCHANGED hi /\ pend[p] = NoBlock
    BY <1>1, <1>7, CopyIs
  <2>2. e < hi[s]
    BY <1>1, <2>1 DEF TypeOK
  <2>3. PICK n \in Nat :
             \/ UNCHANGED <<lo, pend>>
             \/ /\ pend' = [pend EXCEPT ![p] = Block(u, nextId[u], lo[u], lo[u] + n)]
                /\ lo' = [lo EXCEPT ![u] = @ + n]
    BY <1>1, <1>7, CopyIs
  <2>4. CASE UNCHANGED <<lo, pend>>
    BY <1>4, <1>7, <2>1, <2>4
  <2>5. CASE /\ pend' = [pend EXCEPT ![p] = Block(u, nextId[u], lo[u], lo[u] + n)]
             /\ lo' = [lo EXCEPT ![u] = @ + n]
    <3>1. PICK b \in Blocks : /\ b = Block(u, nextId[u], lo[u], lo[u] + n) /\ b # NoBlock
                              /\ b.sensor = u /\ b.from = lo[u] /\ b.to = lo[u] + n
      <4>1. nextId[u] \in Nat /\ lo[u] \in Nat /\ lo[u] + n \in Nat
        BY <1>1 DEF TypeOK
      <4>2. /\ Block(u, nextId[u], lo[u], lo[u] + n) \in Blocks
            /\ Block(u, nextId[u], lo[u], lo[u] + n) # NoBlock
        BY <4>1, BlockTyped
      <4> QED
        BY <4>2, BlockIs
    <3>2. pend'[p] = b /\ \A q \in Passers : q # p => pend'[q] = pend[q]
      BY <1>1, <2>5, <3>1 DEF TypeOK
    <3>3. CASE Copied(s, e)
      BY <2>1, <3>2, <3>3 DEF Copied
    <3>4. CASE u = s /\ e >= lo[s] /\ e < lo[s] + n
      <4>1. e \in b.from .. b.to - 1
        BY <1>1, <3>1, <3>4 DEF TypeOK
      <4> QED
        BY <3>1, <3>2, <3>4, <4>1 DEF Copied
    <3>5. CASE e >= lo[s] /\ ~(u = s /\ e < lo[s] + n)
      BY <1>1, <2>5, <3>5 DEF TypeOK
    <3> QED
      BY <1>1, <1>3, <1>7, <2>2, <3>3, <3>4, <3>5
  <2> QED
    BY <2>3, <2>4, <2>5
<1>8. ASSUME NEW p \in Passers, EvictWriteOK(p) \/ EvictWriteFails(p), ~ Close, ~ Crash
      PROVE  Done
  <2>1. PICK w \in Blocks : w = pend[p] /\ w.sensor \in Sensors
    BY <1>8, WriteIs
  <2>2. /\ UNCHANGED <<lo, hi>> /\ pend' = [pend EXCEPT ![p] = NoBlock]
        /\ \/ db' = Put(db, w)
           \/ failed' = [failed EXCEPT ![w.sensor] = @ \cup (w.from .. w.to - 1)]
    BY <1>8, <2>1 DEF EvictWriteOK, EvictWriteFails, Write
  <2>3. e < hi[s]
    BY <1>1, <2>2 DEF TypeOK
  <2>4. CASE Copied(s, e)
    <3>1. PICK q \in Passers : pend[q] # NoBlock /\ pend[q].sensor = s /\ e \in pend[q].from .. pend[q].to - 1
      BY <2>4 DEF Copied
    <3>2. CASE q # p
      <4>1. pend'[q] = pend[q]
        BY <1>1, <2>2, <3>2 DEF TypeOK
      <4> QED
        BY <3>1, <4>1 DEF Copied
    <3>3. CASE q = p /\ db' = Put(db, w)
      <4>1. w \in db'.blocks
        BY <1>1, <2>1, <3>3, PutIs DEF TypeOK
      <4>2. e \in Held(db', s)
        BY <2>1, <3>1, <3>3, <4>1, HeldIs
      <4> QED
        BY <4>2 DEF Safe, Held, BlocksOf
    <3>4. CASE q = p /\ failed' = [failed EXCEPT ![w.sensor] = @ \cup (w.from .. w.to - 1)]
      <4>1. e \in failed'[s]
        BY <1>1, <2>1, <3>1, <3>4 DEF TypeOK
      <4> QED
        BY <4>1 DEF Safe
    <3> QED
      BY <2>2, <3>2, <3>3, <3>4
  <2> QED
    BY <1>1, <1>3, <1>8, <2>2, <2>3, <2>4
<1> HIDE DEF Done
<1>9. CASE \E u \in Sensors : DropBlocks(u) \/ DropBlocksFails(u)
  BY <1>2, <1>4, <1>9 DEF DropBlocks, DropBlocksFails, Done
<1>10. CASE \E c \in Callers : FlushCall(c) \/ FlushOK(c) \/ FlushError(c)
  BY <1>2, <1>4, <1>10 DEF FlushCall, FlushOK, FlushError, Done
<1>11. CASE \E p \in Passers : PassBegin(p) \/ PassEnd(p) \/ \E u \in Sensors : EvictNoMemory(p, u)
  BY <1>2, <1>4, <1>11 DEF PassBegin, PassEnd, EvictNoMemory, Done
<1>12. CASE Create \/ Open \/ UNCHANGED vars
  BY <1>2, <1>4, <1>12 DEF Create, Open, vars, Done
<1>13. CASE Close \/ Crash
  BY <1>2, <1>13 DEF Done
<1> QED
  BY <1>5, <1>6, <1>7, <1>8, <1>9, <1>10, <1>11, <1>12, <1>13, Steps DEF Done

\* What lies below a ring its pass is done with is in a block, or known to be lost.
LEMMA BelowIsSafe ==
  ASSUME TierInv, NEW s \in Sensors, NEW e \in 0 .. hi[s] - 1, e < lo[s],
         \A p \in Passers : pend[p] # NoBlock => pend[p].sensor # s
  PROVE  Safe(s, e)
<1>1. ~ Copied(s, e)
  BY DEF Copied
<1>2. ~(e >= lo[s])
  BY DEF TierInv, ShapeInv, TypeOK
<1> QED
  BY <1>1, <1>2 DEF TierInv, ShapeInv, Accounted

\* A Flush's pass leaves nothing it has to answer for in a ring it has visited.
LEMMA SettledStep == TierInv /\ [Next]_vars => Settled'
<1> SUFFICES ASSUME TierInv, ShapeInv, [Next]_vars, NEW c \in Callers, NEW s \in Sensors,
                    Visited(c, s)', NEW e \in 0 .. covers'[c][s] - 1
             PROVE  Safe(s, e)'
  BY DEF TierInv, Settled
<1>1. /\ TypeOK /\ TypeOK' /\ ThreadsFit /\ Positions /\ e \in Nat /\ c \in Passers
      /\ lo[s] \in Nat /\ hi[s] \in Nat /\ covers[c][s] \in Nat /\ covers[c][s] <= hi[s]
  BY TypeStep DEF TierInv, ShapeInv, TypeOK, Positions, Passers
<1>2. pc'[c] = "sync" \/ (pc'[c] = "pass" /\ s \notin todo'[c])
  BY DEF Visited, InPass
<1>3. ~ Close /\ ~ Crash
  BY <1>1, <1>2 DEF Close, Crash, Stop
<1>4. ASSUME Visited(c, s), covers'[c] = covers[c] PROVE Safe(s, e)'
  <2>1. e \in 0 .. covers[c][s] - 1 /\ e \in 0 .. hi[s] - 1
    BY <1>1, <1>4
  <2>2. Safe(s, e)
    BY <1>4, <2>1 DEF TierInv, ShapeInv, Settled
  <2> QED
    BY <1>3, <2>1, <2>2, SafeKept
<1>5. ASSUME Safe(s, e), e < hi[s] PROVE Safe(s, e)'
  BY <1>1, <1>3, <1>5, SafeKept
<1> USE DEF passVars, ringVars, storeVars, ghostVars
<1>6. ASSUME UNCHANGED <<pc, todo, covers>> PROVE Safe(s, e)'
  BY <1>2, <1>4, <1>6 DEF Visited, InPass
<1>7. ASSUME NEW d \in Callers, FlushCall(d) \/ FlushOK(d) \/ FlushError(d) PROVE Safe(s, e)'
  <2>1. d \in Passers /\ pc' \in {[pc EXCEPT ![d] = "wait"], [pc EXCEPT ![d] = "idle"]}
    BY <1>7 DEF FlushCall, FlushOK, FlushError, Passers
  <2>2. c # d
    BY <1>1, <1>2, <2>1 DEF TypeOK
  <2>3. covers'[c] = covers[c] /\ pc'[c] = pc[c] /\ todo'[c] = todo[c]
    BY <1>1, <1>7, <2>1, <2>2 DEF FlushCall, FlushOK, FlushError, TypeOK
  <2> QED
    BY <1>2, <1>4, <2>3 DEF Visited, InPass
<1>8. ASSUME NEW p \in Passers, PassBegin(p) PROVE Safe(s, e)'
  <2>1. /\ UNCHANGED covers /\ pc' = [pc EXCEPT ![p] = "pass"] /\ todo' = [todo EXCEPT ![p] = slots]
        /\ \A q \in Passers : pend[q] = NoBlock
    BY <1>1, <1>8 DEF PassBegin, PassFree, ThreadsFit
  <2>2. CASE c # p
    BY <1>1, <1>2, <1>4, <2>1, <2>2 DEF Visited, InPass, TypeOK
  <2>3. CASE c = p
    <3>1. s \notin slots
      BY <1>1, <1>2, <2>1, <2>3 DEF TypeOK
    <3>2. lo[s] = hi[s] /\ e < lo[s] /\ e \in 0 .. hi[s] - 1
      BY <1>1, <2>1, <3>1 DEF Positions
    <3>3. Safe(s, e)
      BY <2>1, <3>2, BelowIsSafe
    <3> QED
      BY <1>1, <1>5, <3>2, <3>3
  <2> QED
    BY <2>2, <2>3
<1>9. ASSUME NEW p \in Passers, PassEnd(p) PROVE Safe(s, e)'
  <2>1. /\ UNCHANGED <<covers, todo>> /\ InPass(p) /\ todo[p] = {}
        /\ \A q \in Passers : q # p => pc'[q] = pc[q]
    BY <1>1, <1>9 DEF PassEnd, TypeOK
  <2>2. Visited(c, s)
    BY <1>1, <1>2, <2>1 DEF Visited, InPass
  <2> QED
    BY <1>4, <2>1, <2>2
<1>10. ASSUME NEW p \in Passers, NEW u \in Sensors, EvictCopy(p, u) PROVE Safe(s, e)'
  <2>1. InPass(p) /\ pend[p] = NoBlock /\ u \in todo[p] /\ UNCHANGED <<pc, covers, hi>>
    BY <1>1, <1>10, CopyIs
  <2>2. PICK n \in Nat :
             /\ p \in Callers => n = hi[u] - lo[u]
             /\ \/ n = 0 /\ todo' = [todo EXCEPT ![p] = @ \ {u}]
                \/ UNCHANGED todo
    BY <1>1, <1>10, CopyIs
  <2>3. CASE UNCHANGED todo \/ c # p \/ s # u
    BY <1>1, <1>2, <1>4, <2>1, <2>2, <2>3 DEF Visited, InPass, TypeOK
  <2>4. CASE c = p /\ s = u /\ n = 0
    <3>1. \A q \in Passers : pend[q] = NoBlock
      BY <1>1, <2>1 DEF ThreadsFit
    <3>2. lo[s] = hi[s] /\ e < lo[s] /\ e \in 0 .. hi[s] - 1
      BY <1>1, <2>1, <2>2, <2>4
    <3>3. Safe(s, e)
      BY <3>1, <3>2, BelowIsSafe
    <3> QED
      BY <1>1, <1>5, <3>2, <3>3
  <2> QED
    BY <2>2, <2>3, <2>4
<1>11. ASSUME NEW p \in Passers, NEW u \in Sensors, EvictNoMemory(p, u) PROVE Safe(s, e)'
  <2>1. /\ InPass(p) /\ pend[p] = NoBlock /\ UNCHANGED <<pc, covers, hi, lo>>
        /\ todo' = [todo EXCEPT ![p] = @ \ {u}]
        /\ failed' = [failed EXCEPT ![u] = @ \cup (lo[u] .. hi[u] - 1)]
    BY <1>11 DEF EvictNoMemory
  <2>2. CASE c # p \/ s # u
    BY <1>1, <1>2, <1>4, <2>1, <2>2 DEF Visited, InPass, TypeOK
  <2>3. CASE c = p /\ s = u
    <3>1. e \in 0 .. hi[s] - 1
      BY <1>1, <2>1
    <3>2. CASE e >= lo[s]
      <4>1. e \in failed'[s]
        BY <1>1, <2>1, <2>3, <3>1, <3>2 DEF TypeOK
      <4> QED
        BY <4>1 DEF Safe
    <3>3. CASE e < lo[s]
      <4>1. \A q \in Passers : pend[q] = NoBlock
        BY <1>1, <2>1 DEF ThreadsFit
      <4>2. Safe(s, e)
        BY <3>1, <3>3, <4>1, BelowIsSafe
      <4> QED
        BY <1>1, <1>5, <3>1, <4>2
    <3> QED
      BY <1>1, <3>2, <3>3
  <2> QED
    BY <2>2, <2>3
<1>12. ASSUME NEW p \in Passers, EvictWriteOK(p) \/ EvictWriteFails(p) PROVE Safe(s, e)'
  <2>1. PICK w \in Blocks : w = pend[p] /\ w.sensor \in Sensors /\ Fits(p, w) /\ InPass(p)
                            /\ todo' = [todo EXCEPT ![p] = @ \ {w.sensor}]
                            /\ pend' = [pend EXCEPT ![p] = NoBlock]
    BY <1>12, WriteIs
  <2>2. UNCHANGED <<pc, covers, hi, lo>>
    BY <1>12 DEF EvictWriteOK, EvictWriteFails
  <2>3. CASE c # p \/ s # w.sensor
    BY <1>1, <1>2, <1>4, <2>1, <2>2, <2>3 DEF Visited, InPass, TypeOK
  <2>4. CASE c = p /\ s = w.sensor
    <3>1. e < lo[s] /\ e < hi'[s] /\ e \in 0 .. hi'[s] - 1
      BY <1>1, <2>1, <2>2, <2>4 DEF Fits
    <3>2. \A q \in Passers : pend'[q] = NoBlock
      BY <1>1, <2>1 DEF ThreadsFit, TypeOK
    <3>3. ~(Copied(s, e)')
      BY <3>2 DEF Copied
    <3>4. Accounted'
      BY AccountedStep
    <3>5. (Safe(s, e) \/ e >= lo[s] \/ Copied(s, e))'
      BY <3>1, <3>4 DEF Accounted
    <3> QED
      BY <1>1, <2>2, <3>1, <3>3, <3>5
  <2> QED
    BY <2>3, <2>4
<1>13. CASE \E u \in Sensors : Append(u) \/ DropFromMap(u) \/ DropBlocks(u) \/ DropBlocksFails(u)
  BY <1>6, <1>13 DEF Append, DropFromMap, DropBlocks, DropBlocksFails
<1>14. CASE Create \/ Open \/ UNCHANGED vars
  BY <1>6, <1>14 DEF Create, Open, vars
<1> QED
  BY <1>3, <1>7, <1>8, <1>9, <1>10, <1>11, <1>12, <1>13, <1>14, Steps

\* What a Flush has answered for survives every step: it is in every state the
\* store may fall back to, and no Put replaces it.
LEMMA DurableStep == TierInv /\ [Next]_vars => Durable'
<1> SUFFICES ASSUME TierInv, ShapeInv, [Next]_vars, NEW s \in Sensors, NEW e \in flushed'[s],
                    e \notin failed'[s]
             PROVE  e \notin gone'[s] /\ (\A image \in images : e \in Held(image, s))'
  BY DEF TierInv, Durable
<1>1. /\ TypeOK /\ TypeOK' /\ Positions /\ db \in images /\ Stored
      /\ flushed \in [Sensors -> SUBSET Nat] /\ failed \in [Sensors -> SUBSET Nat]
      /\ gone \in [Sensors -> SUBSET Nat]
  BY TypeStep DEF TierInv, ShapeInv, TypeOK, Stored
<1>2. ASSUME e \in flushed[s], e \notin failed[s]
      PROVE  e \notin gone[s] /\ e \in Held(db, s) /\ \A image \in images : e \in Held(image, s)
  BY <1>1, <1>2 DEF TierInv, ShapeInv, Durable
<1>3. ASSUME e \notin gone'[s], \A image \in images' : e \in Held(image, s)
      PROVE  e \notin gone'[s] /\ (\A image \in images : e \in Held(image, s))'
  BY <1>3 DEF Held, BlocksOf
<1> DEFINE Done == e \notin gone'[s] /\ (\A image \in images : e \in Held(image, s))'
<1> HIDE DEF Done
<1> USE DEF storeVars, ghostVars
<1>4. ASSUME UNCHANGED <<gone, flushed>>, failed[s] \subseteq failed'[s], images' \subseteq images
      PROVE  Done
  BY <1>2, <1>3, <1>4 DEF Done
<1>5. ASSUME NEW u \in Sensors, Append(u) PROVE Done
  <2>1. /\ UNCHANGED <<images, flushed, failed>>
        /\ UNCHANGED gone \/ gone' = [gone EXCEPT ![u] = @ \cup {lo[u]}]
    BY <1>5 DEF Append
  <2>2. PICK b \in db.blocks : b.sensor = s /\ e \in b.from .. b.to - 1
    BY <1>2, <2>1, HeldIs
  <2>3. b \in Blocks /\ b.to <= lo[s] /\ lo[s] \in Nat
    BY <1>1, <2>2 DEF TypeOK, Stores, Stored
  <2>4. e # lo[s]
    BY <2>2, <2>3, BlockParts
  <2>5. e \notin gone'[s]
    BY <1>1, <1>2, <2>1, <2>4
  <2> QED
    BY <1>2, <1>3, <2>1, <2>5 DEF Done
<1>6. ASSUME NEW u \in Sensors, DropFromMap(u) PROVE Done
  <2>1. /\ UNCHANGED <<images, failed>> /\ flushed' = [flushed EXCEPT ![u] = {}]
        /\ gone' = [gone EXCEPT ![u] = 0 .. hi[u] - 1]
    BY <1>6 DEF DropFromMap
  <2>2. u # s
    BY <1>1, <2>1
  <2>3. flushed'[s] = flushed[s] /\ gone'[s] = gone[s]
    BY <1>1, <2>1, <2>2
  <2> QED
    BY <1>2, <1>3, <2>1, <2>3 DEF Done
<1>7. ASSUME NEW u \in Sensors, DropBlocks(u) PROVE Done
  <2>1. /\ UNCHANGED failed /\ flushed' = [flushed EXCEPT ![u] = @ \ Held(db, u)]
        /\ gone' = [gone EXCEPT ![u] = @ \cup Held(db, u)]
        /\ images' = images \cup {db'} /\ db'.blocks = db.blocks \ BlocksOf(db, u)
    BY <1>1, <1>7 DEF DropBlocks, Write, TypeOK, Stores
  <2>2. e \in flushed[s]
    BY <1>1, <2>1
  <2>3. u # s
    BY <1>1, <1>2, <2>1, <2>2
  <2>4. gone'[s] = gone[s] /\ BlocksOf(db', s) = BlocksOf(db, s)
    BY <1>1, <2>1, <2>3 DEF BlocksOf
  <2>5. Held(db', s) = Held(db, s)
    BY <2>4 DEF Held
  <2> QED
    BY <1>2, <1>3, <2>1, <2>2, <2>4, <2>5 DEF Done
<1>8. ASSUME NEW c \in Callers, FlushOK(c) PROVE Done
  <2>1. /\ images' = {db} /\ UNCHANGED <<gone, failed>> /\ pc[c] = "sync"
        /\ flushed' = [u \in Sensors |-> flushed[u] \cup ((0 .. covers[c][u] - 1) \ gone[u])]
    BY <1>8 DEF FlushOK
  <2>2. CASE e \in flushed[s]
    BY <1>2, <1>3, <2>1, <2>2 DEF Done
  <2>3. CASE e \in (0 .. covers[c][s] - 1) \ gone[s]
    <3>1. Safe(s, e)
      BY <2>1, <2>3 DEF TierInv, ShapeInv, Settled, Visited
    <3>2. e \in Held(db, s)
      BY <2>1, <2>3, <3>1 DEF Safe
    <3> QED
      BY <1>3, <2>1, <2>3, <3>2 DEF Done
  <2> QED
    BY <2>1, <2>2, <2>3
<1>9. ASSUME NEW p \in Passers, EvictWriteOK(p) PROVE Done
  <2>1. /\ UNCHANGED ghostVars /\ images' = images \cup {Put(db, pend[p])}
    BY <1>9 DEF EvictWriteOK, Write
  <2>2. e \notin gone[s] /\ e \in Held(db, s) /\ \A image \in images : e \in Held(image, s)
    BY <1>2, <2>1
  <2>3. e \in Held(Put(db, pend[p]), s)
    BY <1>9, <2>2, PutKeeps
  <2> QED
    BY <1>3, <2>1, <2>2, <2>3 DEF Done
<1>10. CASE Close \/ Crash
  <2>1. PICK image \in images : /\ (images' = images /\ image = db) \/ images' = {image}
                                /\ gone' = [u \in Sensors |-> (0 .. hi[u] - 1) \ Held(image, u)]
                                /\ UNCHANGED <<failed, flushed>>
    BY <1>1, <1>10 DEF Close, Crash, Stop, LoseAllBut
  <2>2. e \in Held(image, s) /\ \A i \in images : e \in Held(i, s)
    BY <1>2, <2>1
  <2>3. e \notin gone'[s]
    BY <2>1, <2>2
  <2> QED
    BY <1>3, <2>1, <2>2, <2>3 DEF Done
<1>11. CASE Create
  <2>1. UNCHANGED ghostVars /\ images' = images \cup {db'} /\ db'.blocks = db.blocks
    BY <1>1, <1>11 DEF Create, Write, WithMetadata, TypeOK, Stores
  <2>2. Held(db', s) = Held(db, s)
    BY <2>1 DEF Held, BlocksOf
  <2> QED
    BY <1>2, <1>3, <2>1, <2>2 DEF Done
<1>12. CASE Open \/ UNCHANGED vars \/ \E u \in Sensors : DropBlocksFails(u)
  BY <1>1, <1>4, <1>12 DEF Open, DropBlocksFails, vars, Done
<1>13. CASE \E c \in Callers : FlushCall(c) \/ FlushError(c)
  BY <1>4, <1>13 DEF FlushCall, FlushError, Done
<1>14. CASE \E p \in Passers : PassBegin(p) \/ PassEnd(p) \/ \E u \in Sensors : EvictCopy(p, u)
  BY <1>4, <1>14 DEF PassBegin, PassEnd, EvictCopy, Done
<1>15. ASSUME NEW p \in Passers, EvictWriteFails(p) PROVE Done
  <2>1. pend[p].sensor \in Sensors
    BY <1>15, WriteIs
  <2>2. UNCHANGED <<images, gone, flushed>> /\ failed[s] \subseteq failed'[s]
    BY <1>1, <1>15, <2>1 DEF EvictWriteFails
  <2> QED
    BY <1>4, <2>2
<1>16. ASSUME NEW p \in Passers, NEW u \in Sensors, EvictNoMemory(p, u) PROVE Done
  <2>1. UNCHANGED <<images, gone, flushed>> /\ failed[s] \subseteq failed'[s]
    BY <1>1, <1>16 DEF EvictNoMemory
  <2> QED
    BY <1>4, <2>1
<1> QED
  BY <1>5, <1>6, <1>7, <1>8, <1>9, <1>10, <1>11, <1>12, <1>13, <1>14, <1>15, <1>16, Steps
     DEF Done

-----------------------------------------------------------------------------
(* The invariant *)

\* An empty store without an engine satisfies it.
LEMMA InvInit == Init => TierInv
<1> SUFFICES ASSUME Init PROVE TierInv
  OBVIOUS
<1>1. TypeOK
  BY TypeInit
<1>2. ThreadsFit /\ Positions /\ Pending /\ Durable /\ Seeded /\ Superseded
  BY DEF Init, ThreadsFit, Positions, Pending, Durable, Seeded, Superseded, InPass, Passers
<1>3. db.blocks = {} /\ images = {db} /\ up = FALSE
  BY DEF Init
<1>4. Stored /\ Schema
  BY <1>3 DEF Stored, Schema
<1>5. Logs
  <2>1. \A s \in Sensors : BlocksOf(db, s) = {}
    BY <1>3 DEF BlocksOf
  <2>2. \A s \in Sensors : IsLog(db, s)
    BY <2>1, EmptyLog
  <2> QED
    BY <1>3, <2>2 DEF Logs
<1>6. Accounted /\ Settled
  BY DEF Init, Accounted, Settled, Visited, InPass, Passers
<1> QED
  BY <1>1, <1>2, <1>4, <1>5, <1>6 DEF TierInv, ShapeInv

\* Every step keeps its first part.
LEMMA ShapeStep == ShapeInv /\ [Next]_vars => ShapeInv'
BY TypeStep, ThreadsFitStep, PositionsStep, PendingStep, StoredStep, SchemaStep DEF ShapeInv

\* And the rest, as long as Create gets the paths it is for.
LEMMA InvStep == TierInv /\ PathsFit /\ [Next]_vars => TierInv'
<1> SUFFICES ASSUME TierInv, PathsFit, [Next]_vars PROVE TierInv'
  OBVIOUS
<1>1. ShapeInv'
  BY ShapeStep DEF TierInv
<1>2. Logs' /\ Seeded'
  BY LogsStep, SeededStep
<1>3. Superseded' /\ Accounted' /\ Settled' /\ Durable'
  BY SupersededStep, AccountedStep, SettledStep, DurableStep
<1> QED
  BY <1>1, <1>2, <1>3 DEF TierInv

\* It holds throughout.
LEMMA Invariance ==
  ASSUME PathsFit
  PROVE  Spec => []TierInv
<1>1. TierInv /\ [Next]_vars => TierInv'
  BY InvStep
<1> QED
  BY <1>1, InvInit, PTL DEF Spec

\* And its first part on any path whatever.
LEMMA ShapeHolds == Spec => []ShapeInv
<1>1. Init => ShapeInv
  BY InvInit DEF TierInv
<1>2. ShapeInv /\ [Next]_vars => ShapeInv'
  BY ShapeStep
<1> QED
  BY <1>1, <1>2, PTL DEF Spec

-----------------------------------------------------------------------------
(* What it means for the engine *)

\* The engine's, the store's and the threads' state keep their types, whatever
\* fails and restarts (engine.cpp, storage_rocksdb.cpp).
THEOREM TypeCorrect == Spec => []TypeOK
<1>1. ShapeInv => TypeOK
  BY DEF ShapeInv
<1> QED
  BY <1>1, ShapeHolds, PTL

\* An entry appended before a Flush that answered OK is in the store after every
\* crash that can follow, unless it was overwritten or dropped or its WriteBlock
\* failed, for any number of Flush callers, sensors, crashes and failures.
THEOREM FlushIsDurable ==
  ASSUME PathsFit
  PROVE  Spec => []FlushedIsDurable
<1>1. TierInv => FlushedIsDurable
  BY DEF TierInv, ShapeInv, Durable, FlushedIsDurable
<1> QED
  BY <1>1, Invariance, PTL

\* The next_block_id Open seeds, and every pass advances, is above every block the
\* store has of the sensor: WriteBlock creates a key.
THEOREM NextIdAlwaysFresh ==
  ASSUME PathsFit
  PROVE  Spec => []NextIdIsFresh
<1>1. TierInv => NextIdIsFresh
  <2> SUFFICES ASSUME TierInv, up, NEW s \in slots \ leftover, NEW b \in BlocksOf(db, s)
               PROVE  b.id < nextId[s]
    BY DEF NextIdIsFresh
  <2>1. s \in Sensors /\ nextId[s] \in Nat /\ Ids(db, s) = 0 .. nextId[s] - 1
    BY DEF TierInv, ShapeInv, TypeOK, Seeded
  <2>2. b.id \in Ids(db, s)
    BY DEF Ids
  <2> QED
    BY <2>1, <2>2
<1> QED
  BY <1>1, Invariance, PTL

\* Whatever a crash leaves of the store, a sensor's blocks are numbered without a
\* gap, in the order of their entries.
THEOREM BlocksStayInOrder ==
  ASSUME PathsFit
  PROVE  Spec => []BlocksInOrder
<1>1. TierInv => BlocksInOrder
  <2> SUFFICES ASSUME TierInv, NEW image \in images, NEW s \in Sensors \ leftover
               PROVE  /\ Ids(image, s) = 0 .. Cardinality(BlocksOf(image, s)) - 1
                      /\ \A b, c \in BlocksOf(image, s) : b.id < c.id => b.to <= c.from
    BY DEF BlocksInOrder, Ids
  <2> DEFINE bs == BlocksOf(image, s)
             idOf == [b \in bs |-> b.id]
  <2>1. PICK n \in Nat : Ids(image, s) = 0 .. n - 1
    BY DEF TierInv, ShapeInv, Logs, IsLog
  <2>2. \A b, c \in bs : b.id = c.id => b = c
    BY DEF TierInv, ShapeInv, Stored, BlocksOf
  <2>3. idOf \in Bijection(bs, 0 .. n - 1)
    <3>1. idOf \in [bs -> 0 .. n - 1]
      BY <2>1 DEF Ids
    <3>2. \A a, b \in bs : idOf[a] = idOf[b] => a = b
      BY <2>2
    <3>3. \A i \in 0 .. n - 1 : \E b \in bs : idOf[b] = i
      BY <2>1 DEF Ids
    <3> QED
      BY <3>1, <3>2, <3>3 DEF Bijection, Injection, Surjection, IsInjective
  <2>4. IsFiniteSet(0 .. n - 1) /\ Cardinality(0 .. n - 1) = n
    BY FS_Interval
  <2>5. ExistsBijection(0 .. n - 1, bs)
    BY <2>3, Fun_ExistsBijSymmetric DEF ExistsBijection
  <2>6. Cardinality(bs) = n
    BY <2>4, <2>5, FS_Bijection
  <2> QED
    BY <2>1, <2>6 DEF TierInv, ShapeInv, Logs, IsLog
<1> QED
  BY <1>1, Invariance, PTL

\* Whatever a crash leaves of the store and on whatever path Create and Open are
\* called, there are no blocks without the metadata that says how to read them, but
\* on a path that an engine was opened on without any.
THEOREM SchemaComesFirst == Spec => []SchemaBeforeBlocks
<1>1. ShapeInv => SchemaBeforeBlocks
  BY DEF ShapeInv, Schema, SchemaBeforeBlocks
<1> QED
  BY <1>1, ShapeHolds, PTL

\* While the engine is up no WriteBlock replaces a stored block, but for a sensor
\* whose blocks are mixed with those from before a drop.
THEOREM BlocksNeverChange ==
  ASSUME PathsFit
  PROVE  Spec => BlocksAreImmutable
<1>1. TierInv /\ [Next]_vars
        => (up' => \A b \in db.blocks : \A c \in db'.blocks :
                     (b.sensor = c.sensor /\ b.id = c.id) => b = c \/ b.sensor \in leftover)
  <2> SUFFICES ASSUME TierInv, [Next]_vars, up', NEW b \in db.blocks, NEW c \in db'.blocks,
                      b.sensor = c.sensor, b.id = c.id, b.sensor \notin leftover
               PROVE  b = c
    OBVIOUS
  <2>1. ShapeInv /\ TypeOK /\ Stored /\ b \in Blocks
    BY DEF TierInv, ShapeInv, TypeOK, Stores
  <2>2. CASE c \in db.blocks
    BY <2>1, <2>2 DEF Stored
  <2>3. CASE c \notin db.blocks
    <3>1. PICK p \in Passers : EvictWriteOK(p) /\ db' = Put(db, pend[p])
      BY <2>1, <2>3, StoreSteps DEF storeVars, Crash, Stop
    <3>2. c = pend[p]
      BY <2>1, <2>3, <3>1, WriteIs, PutIs DEF TypeOK
    <3>3. /\ up /\ c.sensor \in slots /\ c.sensor \in Sensors /\ c.id = nextId[c.sensor]
          /\ nextId[c.sensor] \in Nat
      BY <2>1, <3>1, <3>2, WriteIs DEF Fits, TypeOK
    <3>4. Ids(db, c.sensor) = 0 .. nextId[c.sensor] - 1
      BY <3>3 DEF TierInv, ShapeInv, Seeded
    <3>5. b.id \in Ids(db, c.sensor)
      BY DEF Ids, BlocksOf
    <3> QED
      BY <3>3, <3>4, <3>5
  <2> QED
    BY <2>2, <2>3
<1> QED
  BY <1>1, Invariance, PTL DEF Spec, BlocksAreImmutable

=============================================================================
