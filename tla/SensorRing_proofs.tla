--------------------------- MODULE SensorRing_proofs ---------------------------
(***************************************************************************)
(* Proofs about SensorRing, for every capacity, number of appends and set  *)
(* of query threads.                                                       *)
(*                                                                         *)
(* The inductive invariant RingInv ties three things together: which slots *)
(* still hold the entry their index names (SlotsHold), that an entry whose *)
(* slot is being or has been reused was counted unless eviction was past   *)
(* it (Counted), and that what the pass has copied so far is whole or      *)
(* counted (CopiesAccounted).  QueryInv adds what the queries have seen.   *)
(***************************************************************************)
EXTENDS SensorRing, TLAPS

-----------------------------------------------------------------------------
(* The inductive invariant *)

\* Entry i's slot is being rewritten by the current Append, or has been.
Overtaken(i) == i + Capacity < head \/ (i + Capacity = head /\ ppc # "idle")

\* Entry i's timestamp (body) is not yet touched by a later Append.
HoldsTs(i) == i + Capacity > head \/ (i + Capacity = head /\ ppc \in {"idle", "ts"})
HoldsBody(i) ==
    i + Capacity > head \/ (i + Capacity = head /\ ppc \in {"idle", "ts", "body"})

\* A later entry of the slot, or itself.
Newer(e, i) == e \in Nat /\ e >= i /\ Slot(e) = Slot(i)

Counted == \A i \in 0 .. head - 1 : Overtaken(i) => i \in overwritten \/ i < tail

SlotsHold ==
    /\ \A i \in 0 .. head - 1 :
        /\ HoldsTs(i) => ts[Slot(i)] = i
        /\ HoldsBody(i) => body[Slot(i)] = i
        /\ Newer(ts[Slot(i)], i)
        /\ body[Slot(i)] = Torn \/ Newer(body[Slot(i)], i)
    /\ ppc \in {"body", "half", "publish"} => ts[Slot(head)] = head
    /\ ppc = "publish" => body[Slot(head)] = head

EvictionWindow ==
    /\ epc = "head" => ebegin = tail
    /\ epc \in {"split", "ts", "body", "advance"} =>
        /\ tail <= ebegin /\ ebegin <= eend /\ eend <= head
        /\ eend - ebegin <= Capacity
        /\ \A i \in tail .. ebegin - 1 : i \in overwritten
    /\ epc \in {"ts", "body"} => ebegin <= ecur /\ ecur < eend
    /\ epc = "advance" => ebegin < eend /\ ecur = eend
    /\ epc \in {"idle", "head", "split"} => scratch = {}

CopiesAccounted ==
    /\ epc = "body" => ets = ecur \/ ecur \in overwritten
    /\ epc \in {"ts", "body", "advance"} =>
        /\ \A i \in ebegin .. ecur - 1 : i \in overwritten \/ Intact(i) \in scratch
        /\ \A c \in scratch : /\ c.at >= ebegin /\ c.at < ecur
                              /\ c = Intact(c.at) \/ c.at \in overwritten

EvictedAccounted ==
    \A c \in evicted : c.at < tail /\ (c = Intact(c.at) \/ c.at \in overwritten)

RingInv ==
    /\ TypeOK
    /\ tail <= head
    /\ Counted
    /\ SlotsHold
    /\ EvictionWindow
    /\ CopiesAccounted
    /\ EvictedAccounted
    /\ NoSilentLoss

QueryWindow ==
    \A r \in Readers :
        /\ rpc[r] = "head" => rbegin[r] <= head
        /\ rpc[r] \in {"row", "rowbody", "score", "rank"} =>
            /\ rend[r] - rbegin[r] \in 1 .. Capacity
            /\ rend[r] <= head
        /\ rpc[r] \in {"row", "rowbody", "score"} =>
            rbegin[r] <= rcur[r] /\ rcur[r] < rend[r]

QueryInv ==
    /\ QueryWindow
    /\ \A r \in Readers : \A g \in got[r] : g.at < head
    /\ CleanUnlessLapped
    /\ LappedReadsAreNewer

-----------------------------------------------------------------------------
(* Slots *)

\* An index masked with the capacity is a slot.
LEMMA SlotIn == \A i \in Nat : Slot(i) \in Slots
BY CapacityAssumption DEF Slot, Slots

\* Two entries less than a capacity apart never share a slot.
LEMMA SlotDistinct ==
  ASSUME NEW a \in Nat, NEW b \in Nat, a < b, b < a + Capacity
  PROVE  Slot(a) # Slot(b)
<1>1. Capacity \in Nat /\ Capacity > 0
  BY CapacityAssumption
<1> SUFFICES ASSUME a % Capacity = b % Capacity PROVE FALSE
  BY DEF Slot
<1> DEFINE p == a \div Capacity
           q == b \div Capacity
<1>2. p \in Int /\ q \in Int
  BY <1>1
<1>3. a = p * Capacity + (a % Capacity) /\ b = q * Capacity + (b % Capacity)
  BY <1>1
<1>4. a % Capacity \in Int /\ b % Capacity \in Int
  BY <1>1
<1> HIDE DEF p, q
<1>5. b - a = (q - p) * Capacity
  BY <1>1, <1>2, <1>3, <1>4
<1>6. q - p >= 1
  <2>1. CASE q - p <= 0
    <3>1. (q - p) * Capacity <= 0
      BY <1>1, <1>2, <2>1
    <3> QED
      BY <3>1, <1>5
  <2> QED
    BY <2>1, <1>2
<1>7. (q - p) * Capacity >= Capacity
  BY <1>1, <1>2, <1>6
<1> QED
  BY <1>1, <1>5, <1>7

-----------------------------------------------------------------------------
(* Types *)

\* A new ring's state has its types.
LEMMA TypeInit == Init => TypeOK
BY CapacityAssumption DEF Init, TypeOK, Slots, Entry, Torn, Blank

\* No step leaves the types.
LEMMA TypeStep == TypeOK /\ [Next]_vars => TypeOK'
<1> SUFFICES ASSUME TypeOK, [Next]_vars PROVE TypeOK'
  OBVIOUS
<1> USE CapacityAssumption DEF TypeOK, Entry, Torn, Blank
<1>1. CASE AppendBegin
  BY <1>1 DEF AppendBegin, Overfull, slotVars, evictorVars, readerVars
<1>2. CASE AppendTimestamp
  BY <1>2 DEF AppendTimestamp, evictorVars, readerVars
<1>3. CASE AppendBodyStart
  BY <1>3 DEF AppendBodyStart, evictorVars, readerVars
<1>4. CASE AppendBodyEnd
  BY <1>4 DEF AppendBodyEnd, evictorVars, readerVars
<1>5. CASE AppendPublish
  BY <1>5 DEF AppendPublish, slotVars, evictorVars, readerVars
<1>6. CASE EvictLoadTail
  BY <1>6 DEF EvictLoadTail, slotVars, readerVars
<1>7. CASE EvictLoadHead
  BY <1>7 DEF EvictLoadHead, SnapshotBegin, SnapshotEnd, slotVars, readerVars
<1>8. CASE EvictSplit
  BY <1>8 DEF EvictSplit, slotVars, readerVars
<1>9. CASE EvictCopyTimestamp
  BY <1>9, SlotIn DEF EvictCopyTimestamp, slotVars, readerVars
<1>10. CASE EvictCopyBody
  BY <1>10, SlotIn DEF EvictCopyBody, Copy, Copies, slotVars, readerVars
<1>11. CASE EvictAdvanceTail
  BY <1>11 DEF EvictAdvanceTail, slotVars, readerVars
<1>12. CASE \E r \in Readers : Query(r)
  <2> PICK r \in Readers : Query(r)
    BY <1>12
  <2> USE DEF slotVars, evictorVars
  <2>1. CASE QueryLoadTail(r)
    BY <2>1 DEF QueryLoadTail
  <2>2. CASE QueryLoadHead(r)
    BY <2>2 DEF QueryLoadHead, SnapshotBegin, SnapshotEnd
  <2>3. CASE QueryRangeTimestamp(r)
    BY <2>3, SlotIn DEF QueryRangeTimestamp, NextRow, See, Sight, Sights, Fields
  <2>4. CASE QueryRangeBody(r)
    BY <2>4, SlotIn DEF QueryRangeBody, NextRow, See, Sight, Sights, Fields
  <2>5. CASE QueryScore(r)
    BY <2>5, SlotIn DEF QueryScore, NextRow, See, Sight, Sights, Fields
  <2>6. CASE QueryRankTimestamp(r)
    BY <2>6, SlotIn DEF QueryRankTimestamp, See, Sight, Sights, Fields
  <2>7. CASE QueryReturn(r)
    BY <2>7 DEF QueryReturn
  <2> QED
    BY <2>1, <2>2, <2>3, <2>4, <2>5, <2>6, <2>7 DEF Query
<1>13. CASE UNCHANGED vars
  BY <1>13 DEF vars, slotVars, evictorVars, readerVars
<1> QED
  BY <1>1, <1>2, <1>3, <1>4, <1>5, <1>6, <1>7, <1>8, <1>9, <1>10, <1>11, <1>12, <1>13
     DEF Next, Producer, Evictor

-----------------------------------------------------------------------------
(* RingInv is inductive: the producer's steps *)

\* A new ring satisfies RingInv.
LEMMA RingInit == Init => RingInv
<1> SUFFICES ASSUME Init PROVE RingInv
  OBVIOUS
<1>1. TypeOK
  BY TypeInit
<1> QED
  BY <1>1, CapacityAssumption
     DEF Init, RingInv, Counted, SlotsHold, EvictionWindow, CopiesAccounted,
         EvictedAccounted, NoSilentLoss

\* An entry that will be overwritten is counted, or was below tail already.
LEMMA AppendBeginStep == RingInv /\ TypeOK' /\ AppendBegin => RingInv'
<1> SUFFICES ASSUME RingInv, TypeOK', AppendBegin PROVE RingInv'
  OBVIOUS
<1> USE CapacityAssumption DEF AppendBegin, slotVars, evictorVars, readerVars
<1>1. (tail <= head)'
  BY DEF RingInv
<1>2. overwritten \subseteq overwritten'
  OBVIOUS
\* The entry this Append overtakes is counted now, or eviction is past it.
<1>3. Counted'
  BY DEF RingInv, TypeOK, Counted, Overtaken, Overfull
<1>4. SlotsHold'
  BY DEF RingInv, SlotsHold, HoldsTs, HoldsBody, Newer
<1>5. EvictionWindow'
  BY <1>2 DEF RingInv, EvictionWindow
<1>6. CopiesAccounted'
  BY <1>2 DEF RingInv, CopiesAccounted
<1>7. EvictedAccounted' /\ NoSilentLoss'
  BY <1>2 DEF RingInv, EvictedAccounted, NoSilentLoss
<1> QED
  BY <1>1, <1>3, <1>4, <1>5, <1>6, <1>7 DEF RingInv

\* Only the slot of the counted or evicted entry gets the new timestamp.
LEMMA AppendTimestampStep == RingInv /\ TypeOK' /\ AppendTimestamp => RingInv'
<1> SUFFICES ASSUME RingInv, TypeOK', AppendTimestamp PROVE RingInv'
  OBVIOUS
<1> USE CapacityAssumption DEF AppendTimestamp, evictorVars, readerVars
<1>1. (tail <= head)'
  BY DEF RingInv
<1>2. Counted'
  BY DEF RingInv, Counted, Overtaken
<1>3. SlotsHold'
  <2>1. ts'[Slot(head)] = head
    BY SlotIn DEF RingInv, TypeOK
  <2>2. ASSUME NEW i \in 0 .. head - 1
        PROVE  /\ HoldsTs(i)' => ts'[Slot(i)] = i
               /\ Newer(ts'[Slot(i)], i)
    <3>1. CASE Slot(i) = Slot(head)
      <4>1. i + Capacity <= head
        BY <3>1, SlotDistinct DEF RingInv, TypeOK
      <4> QED
        BY <2>1, <3>1, <4>1 DEF RingInv, TypeOK, HoldsTs, Newer
    <3>2. CASE Slot(i) # Slot(head)
      BY <3>2 DEF RingInv, TypeOK, SlotsHold, HoldsTs, Newer
    <3> QED
      BY <3>1, <3>2
  <2> QED
    BY <2>1, <2>2 DEF RingInv, TypeOK, SlotsHold, HoldsBody, Newer
<1>4. EvictionWindow' /\ CopiesAccounted' /\ EvictedAccounted' /\ NoSilentLoss'
  BY DEF RingInv, EvictionWindow, CopiesAccounted, EvictedAccounted, NoSilentLoss
<1> QED
  BY <1>1, <1>2, <1>3, <1>4 DEF RingInv

\* The body of that slot, and of no other, is torn from here on.
LEMMA AppendBodyStartStep == RingInv /\ TypeOK' /\ AppendBodyStart => RingInv'
<1> SUFFICES ASSUME RingInv, TypeOK', AppendBodyStart PROVE RingInv'
  OBVIOUS
<1> USE CapacityAssumption DEF AppendBodyStart, evictorVars, readerVars
<1>1. (tail <= head)'
  BY DEF RingInv
<1>2. Counted'
  BY DEF RingInv, Counted, Overtaken
<1>3. SlotsHold'
  <2>1. body'[Slot(head)] = Torn
    BY SlotIn DEF RingInv, TypeOK
  <2>2. ASSUME NEW i \in 0 .. head - 1
        PROVE  /\ HoldsBody(i)' => body'[Slot(i)] = i
               /\ body'[Slot(i)] = Torn \/ Newer(body'[Slot(i)], i)
    <3>1. CASE Slot(i) = Slot(head)
      <4>1. i + Capacity <= head
        BY <3>1, SlotDistinct DEF RingInv, TypeOK
      <4> QED
        BY <2>1, <3>1, <4>1 DEF RingInv, TypeOK, HoldsBody
    <3>2. CASE Slot(i) # Slot(head)
      BY <3>2 DEF RingInv, TypeOK, SlotsHold, HoldsBody, Newer
    <3> QED
      BY <3>1, <3>2
  <2> QED
    BY <2>1, <2>2 DEF RingInv, TypeOK, SlotsHold, HoldsTs, Newer
<1>4. EvictionWindow' /\ CopiesAccounted' /\ EvictedAccounted' /\ NoSilentLoss'
  BY DEF RingInv, EvictionWindow, CopiesAccounted, EvictedAccounted, NoSilentLoss
<1> QED
  BY <1>1, <1>2, <1>3, <1>4 DEF RingInv

\* The slot holds the new entry's body.
LEMMA AppendBodyEndStep == RingInv /\ TypeOK' /\ AppendBodyEnd => RingInv'
<1> SUFFICES ASSUME RingInv, TypeOK', AppendBodyEnd PROVE RingInv'
  OBVIOUS
<1> USE CapacityAssumption DEF AppendBodyEnd, evictorVars, readerVars
<1>1. (tail <= head)'
  BY DEF RingInv
<1>2. Counted'
  BY DEF RingInv, Counted, Overtaken
<1>3. SlotsHold'
  <2>1. body'[Slot(head)] = head
    BY SlotIn DEF RingInv, TypeOK
  <2>2. ASSUME NEW i \in 0 .. head - 1
        PROVE  /\ HoldsBody(i)' => body'[Slot(i)] = i
               /\ body'[Slot(i)] = Torn \/ Newer(body'[Slot(i)], i)
    <3>1. CASE Slot(i) = Slot(head)
      <4>1. i + Capacity <= head
        BY <3>1, SlotDistinct DEF RingInv, TypeOK
      <4> QED
        BY <2>1, <3>1, <4>1 DEF RingInv, TypeOK, HoldsBody, Newer
    <3>2. CASE Slot(i) # Slot(head)
      BY <3>2 DEF RingInv, TypeOK, SlotsHold, HoldsBody, Newer
    <3> QED
      BY <3>1, <3>2
  <2> QED
    BY <2>1, <2>2 DEF RingInv, TypeOK, SlotsHold, HoldsTs, Newer
<1>4. EvictionWindow' /\ CopiesAccounted' /\ EvictedAccounted' /\ NoSilentLoss'
  BY DEF RingInv, EvictionWindow, CopiesAccounted, EvictedAccounted, NoSilentLoss
<1> QED
  BY <1>1, <1>2, <1>3, <1>4 DEF RingInv

\* The published entry's slot holds it whole.
LEMMA AppendPublishStep == RingInv /\ TypeOK' /\ AppendPublish => RingInv'
<1> SUFFICES ASSUME RingInv, TypeOK', AppendPublish PROVE RingInv'
  OBVIOUS
<1> USE CapacityAssumption DEF AppendPublish, slotVars, evictorVars, readerVars
<1>1. (tail <= head)'
  BY DEF RingInv, TypeOK
<1>2. Counted'
  BY DEF RingInv, TypeOK, Counted, Overtaken
\* Entry head becomes readable; the others are one Append closer to being overtaken.
<1>3. SlotsHold'
  BY DEF RingInv, TypeOK, SlotsHold, HoldsTs, HoldsBody, Newer
<1>4. EvictionWindow'
  BY DEF RingInv, TypeOK, EvictionWindow
<1>5. CopiesAccounted' /\ EvictedAccounted' /\ NoSilentLoss'
  BY DEF RingInv, CopiesAccounted, EvictedAccounted, NoSilentLoss
<1> QED
  BY <1>1, <1>2, <1>3, <1>4, <1>5 DEF RingInv

-----------------------------------------------------------------------------
(* RingInv is inductive: the eviction pass and the queries *)

\* The pass knows where the window begins.
LEMMA EvictLoadTailStep == RingInv /\ TypeOK' /\ EvictLoadTail => RingInv'
BY DEF EvictLoadTail, slotVars, readerVars, RingInv, Counted, Overtaken, SlotsHold,
       HoldsTs, HoldsBody, Newer, EvictionWindow, CopiesAccounted, EvictedAccounted,
       NoSilentLoss

\* The pass has a window that ends at the published head.
LEMMA EvictLoadHeadStep == RingInv /\ TypeOK' /\ EvictLoadHead => RingInv'
<1> SUFFICES ASSUME RingInv, TypeOK', EvictLoadHead PROVE RingInv'
  OBVIOUS
<1> USE CapacityAssumption DEF EvictLoadHead, slotVars, readerVars
<1>1. (tail <= head)' /\ Counted' /\ SlotsHold'
  BY DEF RingInv, Counted, Overtaken, SlotsHold, HoldsTs, HoldsBody, Newer
\* What the clamp skips has been overtaken, and is not below the tail.
<1>2. EvictionWindow'
  BY DEF RingInv, TypeOK, EvictionWindow, SnapshotBegin, SnapshotEnd, Counted, Overtaken
<1>3. CopiesAccounted' /\ EvictedAccounted' /\ NoSilentLoss'
  BY DEF RingInv, CopiesAccounted, EvictedAccounted, NoSilentLoss
<1> QED
  BY <1>1, <1>2, <1>3 DEF RingInv

\* What is old is a prefix of the window.
LEMMA EvictSplitStep == RingInv /\ TypeOK' /\ EvictSplit => RingInv'
<1> SUFFICES ASSUME RingInv, TypeOK', EvictSplit PROVE RingInv'
  OBVIOUS
<1> USE DEF EvictSplit, slotVars, readerVars
<1>1. (tail <= head)' /\ Counted' /\ SlotsHold'
  BY DEF RingInv, Counted, Overtaken, SlotsHold, HoldsTs, HoldsBody, Newer
<1>2. EvictionWindow'
  BY CapacityAssumption DEF RingInv, TypeOK, EvictionWindow
<1>3. CopiesAccounted' /\ EvictedAccounted' /\ NoSilentLoss'
  BY DEF RingInv, TypeOK, EvictionWindow, CopiesAccounted, EvictedAccounted, NoSilentLoss
<1> QED
  BY <1>1, <1>2, <1>3 DEF RingInv

\* A slot read for an entry of the pass's window shows that entry, unless an
\* Append has counted it as overwritten.
LEMMA CopyWholeOrCounted ==
  ASSUME RingInv, epc \in {"ts", "body"}, ecur \notin overwritten
  PROVE  ts[Slot(ecur)] = ecur /\ body[Slot(ecur)] = ecur
<1>1. ecur \in 0 .. head - 1 /\ ~ (ecur < tail)
  BY DEF RingInv, TypeOK, EvictionWindow
<1>2. ~Overtaken(ecur)
  BY <1>1 DEF RingInv, Counted
<1>3. HoldsTs(ecur) /\ HoldsBody(ecur)
  BY <1>1, <1>2, CapacityAssumption DEF RingInv, TypeOK, Overtaken, HoldsTs, HoldsBody
<1> QED
  BY <1>1, <1>3 DEF RingInv, SlotsHold

\* A timestamp copied is its entry's, or the entry was counted since.
LEMMA EvictCopyTimestampStep == RingInv /\ TypeOK' /\ EvictCopyTimestamp => RingInv'
<1> SUFFICES ASSUME RingInv, TypeOK', EvictCopyTimestamp PROVE RingInv'
  OBVIOUS
<1> USE DEF EvictCopyTimestamp, slotVars, readerVars
<1>1. (tail <= head)' /\ Counted' /\ SlotsHold'
  BY DEF RingInv, Counted, Overtaken, SlotsHold, HoldsTs, HoldsBody, Newer
<1>2. EvictionWindow'
  BY DEF RingInv, EvictionWindow
<1>3. CopiesAccounted'
  BY CopyWholeOrCounted DEF RingInv, CopiesAccounted
<1>4. EvictedAccounted' /\ NoSilentLoss'
  BY DEF RingInv, EvictedAccounted, NoSilentLoss
<1> QED
  BY <1>1, <1>2, <1>3, <1>4 DEF RingInv

\* A body copied is its entry's, or the entry was counted since.
LEMMA EvictCopyBodyStep == RingInv /\ TypeOK' /\ EvictCopyBody => RingInv'
<1> SUFFICES ASSUME RingInv, TypeOK', EvictCopyBody PROVE RingInv'
  OBVIOUS
<1> USE DEF EvictCopyBody, slotVars, readerVars
<1>1. (tail <= head)' /\ Counted' /\ SlotsHold'
  BY DEF RingInv, Counted, Overtaken, SlotsHold, HoldsTs, HoldsBody, Newer
<1>2. EvictionWindow'
  BY DEF RingInv, TypeOK, EvictionWindow
<1>3. CopiesAccounted'
  <2> DEFINE c == Copy(ecur, ets, body[Slot(ecur)])
  <2>1. ecur \in overwritten \/ c = Intact(ecur)
    BY CopyWholeOrCounted DEF RingInv, CopiesAccounted, Intact
  <2>2. c.at = ecur /\ scratch' = scratch \cup {c}
    BY DEF Copy
  <2> HIDE DEF c
  <2>3. \A i \in ebegin .. ecur : i \in overwritten \/ Intact(i) \in scratch'
    BY <2>1, <2>2 DEF RingInv, TypeOK, EvictionWindow, CopiesAccounted
  <2>4. \A d \in scratch' : /\ d.at >= ebegin /\ d.at < ecur + 1
                            /\ d = Intact(d.at) \/ d.at \in overwritten
    BY <2>1, <2>2 DEF RingInv, TypeOK, Copies, EvictionWindow, CopiesAccounted
  <2> QED
    BY <2>3, <2>4 DEF RingInv, TypeOK, CopiesAccounted
<1>4. EvictedAccounted' /\ NoSilentLoss'
  BY DEF RingInv, EvictedAccounted, NoSilentLoss
<1> QED
  BY <1>1, <1>2, <1>3, <1>4 DEF RingInv

\* What tail passes was copied whole or counted.
LEMMA EvictAdvanceTailStep == RingInv /\ TypeOK' /\ EvictAdvanceTail => RingInv'
<1> SUFFICES ASSUME RingInv, TypeOK', EvictAdvanceTail PROVE RingInv'
  OBVIOUS
<1> USE DEF EvictAdvanceTail, slotVars, readerVars
<1>1. (tail <= head)' /\ tail < tail'
  BY DEF RingInv, TypeOK, EvictionWindow
<1>2. Counted'
  BY <1>1 DEF RingInv, TypeOK, Counted, Overtaken
<1>3. SlotsHold'
  BY DEF RingInv, SlotsHold, HoldsTs, HoldsBody, Newer
<1>4. EvictionWindow' /\ CopiesAccounted'
  BY DEF RingInv, EvictionWindow, CopiesAccounted
<1>5. EvictedAccounted'
  BY <1>1 DEF RingInv, TypeOK, Copies, EvictionWindow, CopiesAccounted, EvictedAccounted
\* Entries below the old tail are settled, those the clamp skipped are counted,
\* and the rest were copied whole or counted.
<1>6. NoSilentLoss'
  BY DEF RingInv, TypeOK, EvictionWindow, CopiesAccounted, NoSilentLoss
<1> QED
  BY <1>1, <1>2, <1>3, <1>4, <1>5, <1>6 DEF RingInv

ringVars == <<head, tail, slotVars, overwritten, ppc, evictorVars, evicted>>

\* No query changes the ring, its producer or its pass.
LEMMA QueryOnlyReads == ASSUME NEW r \in Readers, Query(r) PROVE UNCHANGED ringVars
BY DEF Query, QueryLoadTail, QueryLoadHead, QueryRangeTimestamp, QueryRangeBody,
       QueryScore, QueryRankTimestamp, QueryReturn, ringVars

\* A step that leaves the ring alone keeps RingInv.
LEMMA RingUnchanged == RingInv /\ TypeOK' /\ UNCHANGED ringVars => RingInv'
BY DEF ringVars, slotVars, evictorVars, RingInv, Counted, Overtaken, SlotsHold,
       HoldsTs, HoldsBody, Newer, EvictionWindow, CopiesAccounted, EvictedAccounted,
       NoSilentLoss

\* No step breaks RingInv.
LEMMA RingStep == RingInv /\ [Next]_vars => RingInv'
<1> SUFFICES ASSUME RingInv, [Next]_vars PROVE RingInv'
  OBVIOUS
<1>1. TypeOK'
  BY TypeStep DEF RingInv
<1>2. CASE Producer
  BY <1>1, <1>2, AppendBeginStep, AppendTimestampStep, AppendBodyStartStep,
     AppendBodyEndStep, AppendPublishStep DEF Producer
<1>3. CASE Evictor
  BY <1>1, <1>3, EvictLoadTailStep, EvictLoadHeadStep, EvictSplitStep,
     EvictCopyTimestampStep, EvictCopyBodyStep, EvictAdvanceTailStep DEF Evictor
<1>4. CASE \E r \in Readers : Query(r)
  BY <1>1, <1>4, QueryOnlyReads, RingUnchanged
<1>5. CASE UNCHANGED vars
  BY <1>1, <1>5, RingUnchanged DEF vars, ringVars
<1> QED
  BY <1>2, <1>3, <1>4, <1>5 DEF Next

-----------------------------------------------------------------------------
(* QueryInv is inductive relative to RingInv *)

\* A new ring has no query in it.
LEMMA QueryInit == Init => QueryInv
BY DEF Init, QueryInv, QueryWindow, CleanUnlessLapped, LappedReadsAreNewer

\* Whatever query reads it, a published entry's slot shows that entry until an
\* Append has come around to it, and a later one or a torn body from then on.
LEMMA SightSound ==
  ASSUME RingInv, NEW i \in 0 .. head - 1
  PROVE  /\ head < i + Capacity => ts[Slot(i)] = i /\ body[Slot(i)] = i
         /\ Newer(ts[Slot(i)], i)
         /\ body[Slot(i)] = Torn \/ Newer(body[Slot(i)], i)
BY CapacityAssumption DEF RingInv, TypeOK, SlotsHold, HoldsTs, HoldsBody

\* Adding such a sight keeps what QueryInv says of all of them.
LEMMA SeeKeeps ==
  ASSUME RingInv, QueryInv, NEW r \in Readers, NEW f \in Fields, NEW i \in 0 .. head - 1,
         NEW e, e = ts[Slot(i)] \/ e = body[Slot(i)],
         See(r, Sight(f, i, e)), UNCHANGED ringVars
  PROVE  /\ (\A q \in Readers : \A g \in got[q] : g.at < head)'
         /\ CleanUnlessLapped' /\ LappedReadsAreNewer'
<1> DEFINE s == Sight(f, i, e)
<1>1. s.at = i /\ s.saw = e
  BY DEF Sight
<1>2. head < i + Capacity => e = i
  BY SightSound
<1>3. e = Torn \/ (e >= i /\ Slot(e) = Slot(i))
  BY SightSound DEF Newer
<1>4. got' = [got EXCEPT ![r] = @ \cup {s}]
  BY DEF See
<1> HIDE DEF s
<1>5. \A q \in Readers : \A g \in got'[q] : g \in got[q] \/ g = s
  BY <1>4 DEF RingInv, TypeOK
<1>6. head' = head /\ i < head
  BY DEF ringVars, RingInv, TypeOK
<1>7. (\A q \in Readers : \A g \in got[q] : g.at < head)'
  BY <1>1, <1>5, <1>6 DEF QueryInv
<1>8. CleanUnlessLapped'
  BY <1>1, <1>2, <1>5, <1>6 DEF QueryInv, CleanUnlessLapped
<1>9. LappedReadsAreNewer'
  BY <1>1, <1>3, <1>5 DEF QueryInv, LappedReadsAreNewer
<1> QED
  BY <1>7, <1>8, <1>9

\* Appends and eviction passes leave every query's past reads sound.
LEMMA OthersKeepQueries ==
  ASSUME RingInv, QueryInv, RingInv', UNCHANGED readerVars, head' >= head
  PROVE  QueryInv'
<1> USE CapacityAssumption DEF RingInv, TypeOK, readerVars
<1>1. QueryWindow'
  BY DEF QueryInv, QueryWindow
<1>2. (\A r \in Readers : \A g \in got[r] : g.at < head)'
  BY DEF QueryInv, Sights
<1>3. CleanUnlessLapped'
  BY DEF QueryInv, CleanUnlessLapped, Sights
<1>4. LappedReadsAreNewer'
  BY DEF QueryInv, LappedReadsAreNewer
<1> QED
  BY <1>1, <1>2, <1>3, <1>4 DEF QueryInv

\* No step of a query breaks QueryInv.
LEMMA QueryStep ==
  ASSUME RingInv, RingInv', QueryInv, NEW r \in Readers, Query(r)
  PROVE  QueryInv'
<1> USE CapacityAssumption
<1>0. UNCHANGED ringVars
  BY QueryOnlyReads
<1>1. head' = head
  BY <1>0 DEF ringVars
\* The windows.
<1>2. QueryWindow'
  <2> USE <1>1 DEF RingInv, TypeOK, QueryInv, QueryWindow
  <2>1. CASE QueryLoadTail(r)
    BY <2>1 DEF QueryLoadTail
  <2>2. CASE QueryLoadHead(r)
    BY <2>2 DEF QueryLoadHead, SnapshotBegin, SnapshotEnd
  <2>3. CASE QueryRangeTimestamp(r)
    BY <2>3 DEF QueryRangeTimestamp, NextRow
  <2>4. CASE QueryRangeBody(r)
    BY <2>4 DEF QueryRangeBody, NextRow
  <2>5. CASE QueryScore(r)
    BY <2>5 DEF QueryScore, NextRow
  <2>6. CASE QueryRankTimestamp(r)
    BY <2>6 DEF QueryRankTimestamp
  <2>7. CASE QueryReturn(r)
    BY <2>7 DEF QueryReturn
  <2> QED
    BY <2>1, <2>2, <2>3, <2>4, <2>5, <2>6, <2>7 DEF Query
\* The reads.
<1>3. /\ (\A q \in Readers : \A g \in got[q] : g.at < head)'
      /\ CleanUnlessLapped' /\ LappedReadsAreNewer'
  <2>1. CASE got' = got
    BY <2>1, <1>1 DEF QueryInv, CleanUnlessLapped, LappedReadsAreNewer
  <2>2. CASE QueryReturn(r)
    BY <2>2, <1>1 DEF QueryReturn, RingInv, TypeOK, QueryInv, CleanUnlessLapped,
                      LappedReadsAreNewer
  <2>3. CASE rpc[r] \in {"row", "rowbody", "score"} /\ ~QueryReturn(r) /\ got' # got
    <3>1. rcur[r] \in 0 .. head - 1
      BY <2>3 DEF RingInv, TypeOK, QueryInv, QueryWindow
    <3>2. \E f \in Fields : \E e \in {ts[Slot(rcur[r])], body[Slot(rcur[r])]} :
              See(r, Sight(f, rcur[r], e))
      BY <2>3 DEF Query, QueryLoadTail, QueryLoadHead, QueryRangeTimestamp,
                  QueryRangeBody, QueryScore, QueryRankTimestamp, Fields
    <3> QED
      BY <1>0, <3>1, <3>2, SeeKeeps
  <2>4. CASE QueryRankTimestamp(r)
    <3>1. PICK i \in rbegin[r] .. rend[r] - 1 : See(r, Sight("ts", i, ts[Slot(i)]))
      BY <2>4 DEF QueryRankTimestamp
    <3>2. i \in 0 .. head - 1
      BY <2>4 DEF QueryRankTimestamp, RingInv, TypeOK, QueryInv, QueryWindow
    <3> QED
      BY <1>0, <3>1, <3>2, SeeKeeps DEF Fields
  <2> QED
    BY <2>1, <2>2, <2>3, <2>4
       DEF Query, QueryLoadTail, QueryLoadHead, QueryRangeTimestamp, QueryRangeBody,
           QueryScore
<1> QED
  BY <1>2, <1>3 DEF QueryInv

\* No step at all breaks QueryInv.
LEMMA AllStep == RingInv /\ QueryInv /\ [Next]_vars => QueryInv'
<1> SUFFICES ASSUME RingInv, QueryInv, [Next]_vars PROVE QueryInv'
  OBVIOUS
<1>1. RingInv'
  BY RingStep
<1>2. CASE \E r \in Readers : Query(r)
  BY <1>1, <1>2, QueryStep
<1>3. CASE Producer \/ Evictor \/ UNCHANGED vars
  <2>1. UNCHANGED readerVars
    BY <1>3 DEF Producer, Evictor, AppendBegin, AppendTimestamp, AppendBodyStart,
                AppendBodyEnd, AppendPublish, EvictLoadTail, EvictLoadHead, EvictSplit,
                EvictCopyTimestamp, EvictCopyBody, EvictAdvanceTail, vars
  <2>2. head' \in {head, head + 1}
    BY <1>3 DEF Producer, Evictor, AppendBegin, AppendTimestamp, AppendBodyStart,
                AppendBodyEnd, AppendPublish, EvictLoadTail, EvictLoadHead, EvictSplit,
                EvictCopyTimestamp, EvictCopyBody, EvictAdvanceTail, vars
  <2> QED
    BY <1>1, <2>1, <2>2, OthersKeepQueries DEF RingInv, TypeOK
<1> QED
  BY <1>2, <1>3 DEF Next

-----------------------------------------------------------------------------
(* The theorems *)

\* Both hold in every reachable state.
LEMMA RingAlways == Spec => [](RingInv /\ QueryInv)
<1>1. Init => RingInv /\ QueryInv
  BY RingInit, QueryInit
<1>2. (RingInv /\ QueryInv) /\ [Next]_vars => (RingInv /\ QueryInv)'
  BY RingStep, AllStep
<1> QED
  BY <1>1, <1>2, PTL DEF Spec

\* The values of ring_buffer.h's members and of its clients' locals.
THEOREM TypeCorrect == Spec => []TypeOK
<1>1. RingInv => TypeOK
  BY DEF RingInv
<1> QED
  BY <1>1, RingAlways, PTL

\* SensorRing::Append counts before it overwrites and EvictSensor copies before
\* it advances tail, so no entry leaves the ring unrecorded.
THEOREM NothingLostSilently == Spec => []NoSilentLoss
<1>1. RingInv => NoSilentLoss
  BY DEF RingInv
<1> QED
  BY <1>1, RingAlways, PTL

\* Zero overwrite counters mean that every entry below tail was copied out whole,
\* and nothing else was (EvictSensor).
THEOREM LosslessIfNeverFull == Spec => []LosslessWhileNotFull
<1>1. RingInv => LosslessWhileNotFull
  <2> SUFFICES ASSUME RingInv, overwritten = {}
               PROVE  evicted = {Intact(i) : i \in 0 .. tail - 1}
    BY DEF LosslessWhileNotFull
  <2>1. \A c \in evicted : c.at \in 0 .. tail - 1 /\ c = Intact(c.at)
    BY DEF RingInv, TypeOK, Copies, EvictedAccounted
  <2>2. \A i \in 0 .. tail - 1 : Intact(i) \in evicted
    BY DEF RingInv, NoSilentLoss
  <2> QED
    BY <2>1, <2>2
<1> QED
  BY <1>1, RingAlways, PTL

\* The lock-free read path: a slot read for entry i shows entry i unless the
\* producer has published i + capacity entries (timestamp_at, vector_at).
THEOREM ReadsClean == Spec => []CleanUnlessLapped
<1>1. QueryInv => CleanUnlessLapped
  BY DEF QueryInv
<1> QED
  BY <1>1, RingAlways, PTL

\* A lapped query is shown newer entries of the same slot or torn ones only.
THEOREM LappedReadsNewer == Spec => []LappedReadsAreNewer
<1>1. QueryInv => LappedReadsAreNewer
  BY DEF QueryInv
<1> QED
  BY <1>1, RingAlways, PTL

\* Snapshot's clamp keeps every window within one capacity.
THEOREM WindowsFit == Spec => []WindowFits
<1>1. RingInv /\ QueryInv => WindowFits
  BY CapacityAssumption
     DEF RingInv, TypeOK, EvictionWindow, QueryInv, QueryWindow, WindowFits
<1> QED
  BY <1>1, RingAlways, PTL

\* AdvanceTail's precondition holds at its only call.
THEOREM TailOnlyAdvances == Spec => TailAdvances
<1>1. RingInv /\ RingInv' /\ [Next]_vars => [tail' >= tail /\ tail' <= head']_vars
  <2> SUFFICES ASSUME RingInv, RingInv', Next PROVE tail' >= tail /\ tail' <= head'
    OBVIOUS
  <2>1. CASE EvictAdvanceTail
    BY <2>1 DEF EvictAdvanceTail, RingInv, TypeOK, EvictionWindow
  <2>2. CASE ~EvictAdvanceTail
    <3>1. tail' = tail
      BY <2>2, QueryOnlyReads
         DEF Next, Producer, Evictor, AppendBegin, AppendTimestamp, AppendBodyStart,
             AppendBodyEnd, AppendPublish, EvictLoadTail, EvictLoadHead, EvictSplit,
             EvictCopyTimestamp, EvictCopyBody, ringVars
    <3> QED
      BY <3>1 DEF RingInv, TypeOK
  <2> QED
    BY <2>1, <2>2
<1> QED
  BY <1>1, RingAlways, PTL DEF Spec, TailAdvances

-----------------------------------------------------------------------------
(* The ring implements SlidingLog. *)

archived == {i \in 0 .. tail - 1 : Intact(i) \in evicted}

\* A new ring is an empty log.
LEMMA LogInit == Init => Log!Init
BY DEF Init, Log!Init

\* Every step of the ring is a step of the log or none.
LEMMA LogStep == RingInv /\ RingInv' /\ [Next]_vars => [Log!Next]_(Log!vars)
<1> SUFFICES ASSUME RingInv, RingInv', [Next]_vars PROVE [Log!Next]_(Log!vars)
  OBVIOUS
<1> USE CapacityAssumption
\* Counting the overtaken entry is giving it up.
<1>1. CASE AppendBegin
  <2>1. CASE Overfull
    <3>1. Log!GiveUp
      BY <1>1, <2>1 DEF AppendBegin, Overfull, Log!GiveUp
    <3> QED
      BY <3>1 DEF Log!Next
  <2>2. CASE ~Overfull
    BY <1>1, <2>2 DEF AppendBegin, Log!vars
  <2> QED
    BY <2>1, <2>2
\* The producer only publishes past an entry that was given up or archived.
<1>2. CASE AppendPublish
  <2>1. head - tail >= Capacity => head - Capacity \in overwritten
    BY <1>2 DEF AppendPublish, RingInv, TypeOK, Counted, Overtaken
  <2>2. Log!Append
    BY <1>2, <2>1 DEF AppendPublish, Log!Append
  <2> QED
    BY <2>2 DEF Log!Next
<1>3. CASE EvictAdvanceTail
  <2> DEFINE kept == {i \in tail .. eend - 1 : Intact(i) \in evicted'}
  <2>1. eend \in tail + 1 .. head /\ tail' = eend
    BY <1>3 DEF EvictAdvanceTail, RingInv, TypeOK, EvictionWindow
  <2>2. (tail .. eend - 1) \ overwritten \subseteq kept
    BY <2>1, <1>3 DEF EvictAdvanceTail, RingInv, TypeOK, NoSilentLoss
  <2>3. \A i \in 0 .. tail - 1 : Intact(i) \in evicted' <=> Intact(i) \in evicted
    <3> SUFFICES ASSUME NEW i \in 0 .. tail - 1, Intact(i) \in scratch PROVE FALSE
      BY <1>3 DEF EvictAdvanceTail
    <3> QED
      BY <1>3 DEF EvictAdvanceTail, RingInv, TypeOK, EvictionWindow, CopiesAccounted,
                  Intact, Copy
  <2>4. archived' = archived \cup kept
    BY <2>1, <2>3 DEF archived, RingInv, TypeOK
  <2>5. kept \in SUBSET (tail .. eend - 1)
    OBVIOUS
  <2>6. head' = head /\ overwritten' = overwritten
    BY <1>3 DEF EvictAdvanceTail
  <2> HIDE DEF kept
  <2>7. Log!Slide
    BY <2>1, <2>2, <2>4, <2>5, <2>6 DEF Log!Slide, archived
  <2> QED
    BY <2>7 DEF Log!Next
\* Every other step is invisible.
<1>4. CASE UNCHANGED <<head, tail, overwritten, evicted>>
  BY <1>4 DEF Log!vars
<1>5. UNCHANGED ringVars => UNCHANGED <<head, tail, overwritten, evicted>>
  BY DEF ringVars
<1> QED
  BY <1>1, <1>2, <1>3, <1>4, <1>5, QueryOnlyReads
     DEF Next, Producer, Evictor, AppendTimestamp, AppendBodyStart, AppendBodyEnd,
         EvictLoadTail, EvictLoadHead, EvictSplit, EvictCopyTimestamp, EvictCopyBody,
         vars, ringVars

\* The ring's producer and eviction pass refine the abstract sliding log.
THEOREM RingImplementsLog == Spec => ImplementsSlidingLog
<1>1. Init => Log!Init
  BY LogInit
<1>2. RingInv /\ RingInv' /\ [Next]_vars => [Log!Next]_(Log!vars)
  BY LogStep
<1> QED
  BY <1>1, <1>2, RingAlways, PTL DEF Spec, ImplementsSlidingLog, Log!Spec
=============================================================================
