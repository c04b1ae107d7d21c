--------------------------- MODULE EngineCalls_proofs ---------------------------
(***************************************************************************)
(* Proofs about EngineCalls, for any sensors, capacity, configurations,     *)
(* traffic and bounds.                                                      *)
(*                                                                         *)
(* RingInv relates one ring to what was appended to it and what was taken   *)
(* out of it: which entry a slot holds, and that what is before the window  *)
(* was either taken or counted.  SinkInv relates the losses a sensor's      *)
(* observer was told to the counter of its producer thread.                 *)
(* VecsHold keeps the vector of every entry of the window in its slot, or   *)
(* its quantized form: query_range answers with the first.  What the        *)
(* queries compute on them is exact up to what quantization loses, in four  *)
(* steps: a kernel is close to the reference; the heap holds the best of    *)
(* the scores; two runs of slots are the window; two sums are its sum.      *)
(***************************************************************************)
EXTENDS EngineCalls, FiniteLemmas, SequenceTheorems

-----------------------------------------------------------------------------
(* Slots *)

\* An entry goes to a slot of the ring.
LEMMA SlotIn ==
  ASSUME NEW i \in Nat
  PROVE  i % Capacity \in 0 .. Capacity - 1
BY SlotsAssumption

\* The first round.
LEMMA SlotSmall ==
  ASSUME NEW i \in 0 .. Capacity - 1
  PROVE  i % Capacity = i
BY SlotsAssumption

\* A round later it is the same slot.
LEMMA SlotAgain ==
  ASSUME NEW i \in Nat, i >= Capacity
  PROVE  (i - Capacity) % Capacity = i % Capacity
<1>1. Capacity \in Nat /\ Capacity > 0
  BY SlotsAssumption
<1> DEFINE q == i \div Capacity
           m == i % Capacity
<1>2. q \in Nat /\ m \in 0 .. Capacity - 1 /\ i = q * Capacity + m
  BY <1>1
<1> HIDE DEF q, m
<1>3. q >= 1
  <2> SUFFICES ASSUME q = 0 PROVE FALSE
    BY <1>2
  <2> QED
    BY <1>1, <1>2
<1>4. i - Capacity = (q - 1) * Capacity + m
  BY <1>1, <1>2
<1>5. ((q - 1) * Capacity + m) % Capacity = m
  BY <1>1, <1>2, <1>3
<1> QED
  BY <1>4, <1>5 DEF m

\* Two entries less than a capacity apart never share a slot.
LEMMA SlotDistinct ==
  ASSUME NEW a \in Nat, NEW b \in Nat, a < b, b < a + Capacity
  PROVE  a % Capacity # b % Capacity
<1>1. Capacity \in Nat /\ Capacity > 0
  BY SlotsAssumption
<1> SUFFICES ASSUME a % Capacity = b % Capacity PROVE FALSE
  OBVIOUS
<1> DEFINE p == a \div Capacity
           q == b \div Capacity
<1>2. p \in Int /\ q \in Int
  BY <1>1
<1>3. a = p * Capacity + (a % Capacity) /\ b = q * Capacity + (b % Capacity)
  BY <1>1
<1>4. a % Capacity \in Int /\ b % Capacity \in Int
  BY <1>1
<1> HIDE DEF p, q
<1>5. b - a = (q - p) * Capacity
  BY <1>1, <1>2, <1>3, <1>4
<1>6. q - p >= 1
  <2>1. CASE q - p <= 0
    <3>1. (q - p) * Capacity <= 0
      BY <1>1, <1>2, <2>1
    <3> QED
      BY <3>1, <1>5
  <2> QED
    BY <2>1, <1>2
<1>7. (q - p) * Capacity >= Capacity
  BY <1>1, <1>2, <1>6
<1> QED
  BY <1>1, <1>5, <1>7

-----------------------------------------------------------------------------
(* Payloads *)

\* The payload slot i % Capacity shows after entry i.
Given(lg, i) == {n \in 0 .. i : (i - n) % Capacity = 0 /\ lg[n + 1].payload}
Stale(lg, i) == IF Given(lg, i) = {} THEN Garbage ELSE [of |-> Max(Given(lg, i))]

\* What every entry that is appended has.
LEMMA TrafficFields == \A e \in Traffic : e.s \in Sensors /\ e.ts \in Int /\ e.payload \in BOOLEAN
BY TrafficAssumption

\* It depends on nothing that was appended later.
LEMMA StalePrefix ==
  ASSUME NEW lg \in Seq(Traffic), NEW e \in Traffic, NEW i \in 0 .. Len(lg) - 1
  PROVE  Stale(Append(lg, e), i) = Stale(lg, i)
<1>1. PICK all \in Seq(Traffic) : all = Append(lg, e)
  BY AppendProperties
<1>2. \A j \in 1 .. Len(lg) : all[j] = lg[j]
  BY <1>1, AppendProperties
<1>3. \A n \in 0 .. i : n + 1 \in 1 .. Len(lg)
  OBVIOUS
<1>4. Given(all, i) = Given(lg, i)
  BY <1>2, <1>3 DEF Given
<1> QED
  BY <1>1, <1>4 DEF Stale

\* An entry's own payload replaces what was there.
LEMMA StaleOwn ==
  ASSUME NEW lg \in Seq(Traffic), NEW e \in Traffic, e.payload
  PROVE  Stale(Append(lg, e), Len(lg)) = [of |-> Len(lg)]
<1>1. PICK all \in Seq(Traffic) : all = Append(lg, e)
  BY AppendProperties
<1>2. PICK i \in Nat : i = Len(lg)
  OBVIOUS
<1>3. all[i + 1] = e
  BY <1>1, <1>2, AppendProperties
<1>4. (i - i) % Capacity = 0
  BY SlotsAssumption, SlotSmall
<1>5. i \in Given(all, i) /\ Given(all, i) \subseteq Nat /\ \A n \in Given(all, i) : n <= i
  BY <1>3, <1>4 DEF Given
<1>6. Max(Given(all, i)) \in Nat /\ Max(Given(all, i)) <= i /\ i <= Max(Given(all, i))
  BY <1>5, MaxIs
<1> QED
  BY <1>1, <1>2, <1>5, <1>6 DEF Stale

\* Without one the slot keeps the payload of a round before.
LEMMA StaleOld ==
  ASSUME NEW lg \in Seq(Traffic), NEW e \in Traffic, ~e.payload
  PROVE  Stale(Append(lg, e), Len(lg))
           = IF Len(lg) < Capacity THEN Garbage ELSE Stale(lg, Len(lg) - Capacity)
<1>1. PICK all \in Seq(Traffic) : all = Append(lg, e)
  BY AppendProperties
<1>2. PICK i \in Nat : i = Len(lg)
  OBVIOUS
<1>3. all[i + 1] = e /\ \A j \in 1 .. i : all[j] = lg[j]
  BY <1>1, <1>2, AppendProperties
<1>4. Capacity \in Nat /\ Capacity > 0
  BY SlotsAssumption
<1>5. i \notin Given(all, i)
  BY <1>3 DEF Given
<1>6. ASSUME NEW n \in Given(all, i)
      PROVE  n \in 0 .. i - Capacity /\ (i - Capacity - n) % Capacity = 0 /\ lg[n + 1].payload
  <2>1. n \in 0 .. i - 1 /\ (i - n) % Capacity = 0 /\ all[n + 1].payload
    BY <1>5 DEF Given
  <2>2. PICK d \in Nat : d = i - n /\ d > 0
    BY <2>1
  <2>3. d >= Capacity
    <3> SUFFICES ASSUME d < Capacity PROVE FALSE
      BY <1>4
    <3> QED
      BY <1>4, <2>1, <2>2, SlotSmall
  <2>4. (d - Capacity) % Capacity = 0
    BY <2>1, <2>2, <2>3, SlotAgain
  <2>5. i - Capacity - n = d - Capacity
    BY <1>4, <2>1, <2>2
  <2>6. n + 1 \in 1 .. i
    BY <2>1
  <2> QED
    BY <1>3, <1>4, <2>1, <2>2, <2>3, <2>4, <2>5, <2>6
<1>7. CASE i < Capacity
  <2>1. Given(all, i) = {}
    BY <1>4, <1>6, <1>7
  <2> QED
    BY <1>1, <1>2, <1>7, <2>1 DEF Stale
<1>8. CASE ~(i < Capacity)
  <2>1. ASSUME NEW n \in Given(lg, i - Capacity) PROVE n \in Given(all, i)
    <3>1. /\ n \in 0 .. i - Capacity /\ (i - Capacity - n) % Capacity = 0
          /\ lg[n + 1].payload
      BY DEF Given
    <3>2. PICK d \in Nat : d = i - n /\ d >= Capacity
      BY <1>4, <3>1
    <3>3. (d - Capacity) % Capacity = d % Capacity /\ i - Capacity - n = d - Capacity
      BY <1>4, <3>1, <3>2, SlotAgain
    <3>4. n \in 0 .. i /\ n + 1 \in 1 .. i
      BY <1>4, <3>1
    <3> QED
      BY <1>3, <3>1, <3>2, <3>3, <3>4 DEF Given
  <2>2. Given(all, i) = Given(lg, i - Capacity)
    BY <1>6, <2>1 DEF Given
  <2> QED
    BY <1>1, <1>2, <1>8, <2>2 DEF Stale
<1> QED
  BY <1>7, <1>8

\* It is a payload, or garbage.
LEMMA StaleTyped ==
  ASSUME NEW lg, NEW i \in Nat
  PROVE  Stale(lg, i) \in Payloads
<1>1. CASE Given(lg, i) = {}
  BY <1>1 DEF Stale, Payloads
<1>2. CASE Given(lg, i) # {}
  <2>1. Given(lg, i) \subseteq Nat /\ \A n \in Given(lg, i) : n <= i
    BY DEF Given
  <2>2. Max(Given(lg, i)) \in Nat
    BY <1>2, <2>1, MaxIs
  <2> QED
    BY <1>2, <2>2 DEF Stale, Payloads
<1> QED
  BY <1>1, <1>2

-----------------------------------------------------------------------------
(* One ring *)

\* A ring has its four fields, and slots with payloads.
IsRing(r) ==
  /\ r = [head |-> r.head, tail |-> r.tail, lost |-> r.lost, slots |-> r.slots]
  /\ r.head \in Nat /\ r.lost \in Nat /\ r.tail \in 0 .. r.head
  /\ r.slots = [i \in 0 .. Capacity - 1 |-> r.slots[i]]
  /\ \A i \in 0 .. Capacity - 1 : r.slots[i].payload \in Payloads

\* The last Capacity entries are in the slots.
SlotsHold(r, lg) ==
  /\ \A i \in 0 .. r.head - 1 : i >= r.head - Capacity =>
        At(r, i).ts = lg[i + 1].ts /\ At(r, i).payload = Stale(lg, i)
  /\ \A i \in 0 .. Capacity - 1 : i >= r.head => r.slots[i].payload = Garbage

TakenRows == [n : Nat, ts : Int, payload : Payloads]

\* Rows that were taken: of entries before `upto`, in order, as appended.
RowsHold(rows, upto, lg) ==
  /\ rows \in Seq(TakenRows)
  /\ \A j, k \in 1 .. Len(rows) : j < k => rows[j].n < rows[k].n
  /\ \A k \in 1 .. Len(rows) :
        /\ rows[k].n < upto
        /\ rows[k].ts = lg[rows[k].n + 1].ts
        /\ rows[k].payload = Stale(lg, rows[k].n)

Apart(rows, others) ==
  \A j \in 1 .. Len(rows), k \in 1 .. Len(others) : rows[j].n # others[k].n

\* Ring, appends, stored rows and rows whose block could not be written.
RingInv(r, lg, st, un) ==
  /\ IsRing(r)
  /\ lg \in Seq(Traffic) /\ Len(lg) = r.head
  /\ SlotsHold(r, lg)
  /\ RowsHold(st, r.tail, lg) /\ RowsHold(un, r.tail, lg) /\ Apart(st, un)
  /\ Len(st) + Len(un) + r.lost = Begin(r)

\* The window is of at most Capacity entries, none of them taken.
LEMMA BeginIs ==
  ASSUME NEW r, IsRing(r)
  PROVE  /\ Begin(r) \in r.tail .. r.head
         /\ r.head - Begin(r) \in 0 .. Capacity
         /\ Window(r) = Begin(r) .. r.head - 1
         /\ Cardinality(Window(r)) = r.head - Begin(r)
<1>1. Capacity \in Nat /\ r.head \in Nat /\ r.tail \in 0 .. r.head
  BY SlotsAssumption DEF IsRing
<1>2. Begin(r) \in r.tail .. r.head /\ r.head - Begin(r) \in 0 .. Capacity
  BY <1>1 DEF Begin
<1>3. Cardinality(Begin(r) .. r.head - 1) = r.head - Begin(r)
  <2>1. PICK a \in Int, b \in Int : a = Begin(r) /\ b = r.head - 1
    BY <1>1, <1>2
  <2>2. Cardinality(a .. b) = IF a > b THEN 0 ELSE b - a + 1
    BY FS_Interval
  <2> QED
    BY <1>1, <1>2, <2>1, <2>2
<1> QED
  BY <1>2, <1>3 DEF Window

\* A new ring, of a sensor nothing was appended to.
LEMMA NewRingHolds == RingInv(NewRing, <<>>, <<>>, <<>>)
<1>1. PICK r : r = NewRing
  OBVIOUS
<1>2. Capacity \in Nat /\ Capacity > 0
  BY SlotsAssumption
<1>3. r.head = 0 /\ r.tail = 0 /\ r.lost = 0
  BY <1>1 DEF NewRing
<1>4. r.slots = [i \in 0 .. Capacity - 1 |->
                    [ts |-> 0, vec |-> Garbage, max |-> 0, norm |-> 0, payload |-> Garbage]]
  BY <1>1 DEF NewRing
<1>5. \A i \in 0 .. Capacity - 1 : r.slots[i].payload = Garbage
  BY <1>4
<1>6. IsRing(r)
  <2>1. r = [head |-> r.head, tail |-> r.tail, lost |-> r.lost, slots |-> r.slots]
    BY <1>1 DEF NewRing
  <2>2. r.slots = [i \in 0 .. Capacity - 1 |-> r.slots[i]]
    BY <1>4
  <2> QED
    BY <1>3, <1>5, <2>1, <2>2 DEF IsRing, Payloads
<1>7. SlotsHold(r, <<>>)
  BY <1>3, <1>5 DEF SlotsHold
<1>8. Begin(r) = 0
  BY <1>2, <1>3 DEF Begin
<1>9. RowsHold(<<>>, 0, <<>>) /\ Apart(<<>>, <<>>)
  BY DEF RowsHold, Apart
<1> QED
  BY <1>1, <1>3, <1>6, <1>7, <1>8, <1>9 DEF RingInv

\* What an append changes of a ring.
LEMMA AppendedIs ==
  ASSUME NEW r, IsRing(r), NEW e \in Traffic, NEW new, new = Appended(r, e)
  PROVE  /\ IsRing(new)
         /\ new.head = r.head + 1 /\ new.tail = r.tail
         /\ new.lost = IF r.head - r.tail >= Capacity THEN r.lost + 1 ELSE r.lost
         /\ new.slots[r.head % Capacity].ts = e.ts
         /\ new.slots[r.head % Capacity].payload
              = IF e.payload THEN [of |-> r.head] ELSE r.slots[r.head % Capacity].payload
         /\ \A i \in 0 .. Capacity - 1 : i # r.head % Capacity => new.slots[i] = r.slots[i]
<1>1. PICK x \in 0 .. Capacity - 1 : x = r.head % Capacity
  BY SlotIn DEF IsRing
<1>2. PICK slot : slot = SlotWith(r.slots[x], e, r.head)
  OBVIOUS
<1>3. slot.ts = e.ts
      /\ slot.payload = IF e.payload THEN [of |-> r.head] ELSE r.slots[x].payload
  BY <1>2 DEF SlotWith, SlotPayload
<1>4. new = [head |-> r.head + 1, tail |-> r.tail,
             lost |-> IF r.head - r.tail >= Capacity THEN r.lost + 1 ELSE r.lost,
             slots |-> [r.slots EXCEPT ![x] = slot]]
  BY <1>1, <1>2 DEF Appended, IsRing
<1>5. /\ new.head = r.head + 1 /\ new.tail = r.tail
      /\ new.lost = IF r.head - r.tail >= Capacity THEN r.lost + 1 ELSE r.lost
      /\ new.slots = [r.slots EXCEPT ![x] = slot]
      /\ new = [head |-> new.head, tail |-> new.tail, lost |-> new.lost, slots |-> new.slots]
  BY <1>4
<1>6. /\ new.slots = [i \in 0 .. Capacity - 1 |-> new.slots[i]]
      /\ new.slots[x] = slot
      /\ \A i \in 0 .. Capacity - 1 : i # x => new.slots[i] = r.slots[i]
  BY <1>5 DEF IsRing
<1>7. slot.payload \in Payloads
  BY <1>3 DEF IsRing, Payloads
<1>8. \A i \in 0 .. Capacity - 1 : new.slots[i].payload \in Payloads
  BY <1>6, <1>7 DEF IsRing
<1>9. new.head \in Nat /\ new.lost \in Nat /\ new.tail \in 0 .. new.head
  BY <1>5 DEF IsRing
<1>10. IsRing(new)
  BY <1>5, <1>6, <1>8, <1>9 DEF IsRing
<1> QED
  BY <1>1, <1>3, <1>5, <1>6, <1>10

\* The number of a row.
LEMMA RowNumbers ==
  ASSUME NEW rows \in Seq(TakenRows)
  PROVE  \A k \in 1 .. Len(rows) : rows[k].n \in Nat
<1> SUFFICES ASSUME NEW k \in 1 .. Len(rows) PROVE rows[k].n \in Nat
  OBVIOUS
<1>1. rows[k] \in TakenRows
  OBVIOUS
<1> QED
  BY <1>1 DEF TakenRows

\* Rows that were taken stay what they are.
LEMMA RowsStay ==
  ASSUME NEW rows, NEW lg \in Seq(Traffic), NEW upto \in 0 .. Len(lg), RowsHold(rows, upto, lg),
         NEW e \in Traffic
  PROVE  RowsHold(rows, upto, Append(lg, e))
<1>1. PICK all \in Seq(Traffic) : all = Append(lg, e) /\ \A j \in 1 .. Len(lg) : all[j] = lg[j]
  <2>1. /\ Append(lg, e) \in Seq(Traffic)
        /\ \A j \in 1 .. Len(lg) : Append(lg, e)[j] = lg[j]
    BY AppendProperties
  <2> QED
    BY <2>1
<1>2. ASSUME NEW k \in 1 .. Len(rows)
      PROVE  rows[k].ts = all[rows[k].n + 1].ts /\ rows[k].payload = Stale(all, rows[k].n)
  <2>1. rows[k].n \in Nat /\ rows[k].n < upto
    BY RowNumbers DEF RowsHold
  <2>2. rows[k].n \in 0 .. Len(lg) - 1 /\ rows[k].n + 1 \in 1 .. Len(lg)
    BY <2>1
  <2> QED
    BY <1>1, <2>2, StalePrefix DEF RowsHold
<1> QED
  BY <1>1, <1>2 DEF RowsHold

\* An append keeps the invariant of its ring.
LEMMA AppendKeeps ==
  ASSUME NEW r, NEW lg, NEW st, NEW un, RingInv(r, lg, st, un), NEW e \in Traffic
  PROVE  RingInv(Appended(r, e), Append(lg, e), st, un)
<1> USE DEF RingInv
<1>1. PICK new : new = Appended(r, e)
  OBVIOUS
<1>2. /\ IsRing(new)
      /\ new.head = r.head + 1 /\ new.tail = r.tail
      /\ new.lost = IF r.head - r.tail >= Capacity THEN r.lost + 1 ELSE r.lost
      /\ new.slots[r.head % Capacity].ts = e.ts
      /\ new.slots[r.head % Capacity].payload
           = IF e.payload THEN [of |-> r.head] ELSE r.slots[r.head % Capacity].payload
      /\ \A i \in 0 .. Capacity - 1 : i # r.head % Capacity => new.slots[i] = r.slots[i]
  BY <1>1, AppendedIs
<1>3. PICK all \in Seq(Traffic) : /\ all = Append(lg, e) /\ Len(all) = Len(lg) + 1
                                  /\ \A j \in 1 .. Len(lg) : all[j] = lg[j]
                                  /\ all[Len(lg) + 1] = e
  BY AppendProperties
<1>4. Capacity \in Nat /\ Capacity > 0
  BY SlotsAssumption
<1>5. PICK h \in Nat : h = r.head /\ h = Len(lg)
  BY DEF IsRing
<1>6. /\ r.tail \in 0 .. h /\ r.lost \in Nat
      /\ new.head = h + 1 /\ new.tail = r.tail
      /\ new.lost = IF h - r.tail >= Capacity THEN r.lost + 1 ELSE r.lost
  BY <1>2, <1>5 DEF IsRing
<1>7. RowsHold(st, new.tail, all) /\ RowsHold(un, new.tail, all)
  BY <1>2, <1>3, <1>5, <1>6, RowsStay
<1>8. Len(st) + Len(un) + new.lost = Begin(new)
  <2>1. Len(st) \in Nat /\ Len(un) \in Nat
    BY DEF RowsHold
  <2>2. CASE h - r.tail >= Capacity
    <3>1. Begin(r) = h - Capacity
      BY <1>4, <1>5, <1>6, <2>2, SMTT(30) DEF Begin
    <3>2. Begin(new) = h + 1 - Capacity
      BY <1>4, <1>6, <2>2 DEF Begin
    <3>3. Len(st) + Len(un) + r.lost = h - Capacity /\ new.lost = r.lost + 1
      BY <1>6, <2>2, <3>1
    <3> QED
      BY <1>4, <1>6, <2>1, <3>2, <3>3, SMTT(30)
  <2>3. CASE ~(h - r.tail >= Capacity)
    <3>1. Begin(r) = r.tail
      BY <1>4, <1>5, <1>6, <2>3 DEF Begin
    <3>2. Begin(new) = r.tail
      BY <1>4, <1>6, <2>3 DEF Begin
    <3> QED
      BY <1>6, <2>3, <3>1, <3>2
  <2> QED
    BY <2>2, <2>3
<1>9. ASSUME NEW i \in 0 .. h, i >= h + 1 - Capacity
      PROVE  At(new, i).ts = all[i + 1].ts /\ At(new, i).payload = Stale(all, i)
  <2>1. CASE i = h
    <3>1. At(new, i).ts = all[i + 1].ts
      BY <1>2, <1>3, <1>5, <2>1 DEF At
    <3>2. CASE e.payload
      BY <1>2, <1>3, <1>5, <2>1, <3>2, StaleOwn DEF At
    <3>3. CASE ~e.payload /\ h < Capacity
      <4>1. h \in 0 .. Capacity - 1
        BY <1>4, <3>3
      <4>2. h % Capacity = h
        BY <4>1, SlotSmall
      <4>3. r.slots[h].payload = Garbage
        BY <1>5, <4>1 DEF SlotsHold
      <4>4. Stale(all, h) = Garbage
        BY <1>3, <1>5, <3>3, StaleOld
      <4>5. new.slots[h % Capacity].payload = r.slots[h % Capacity].payload
        BY <1>2, <1>5, <3>3
      <4> QED
        BY <2>1, <3>1, <4>2, <4>3, <4>4, <4>5 DEF At
    <3>4. CASE ~e.payload /\ ~(h < Capacity)
      <4>1. (h - Capacity) % Capacity = h % Capacity
        BY <1>4, <3>4, SlotAgain
      <4>2. h - Capacity \in 0 .. h - 1
        BY <1>4, <3>4
      <4>3. r.slots[h % Capacity].payload = Stale(lg, h - Capacity)
        BY <1>4, <1>5, <4>1, <4>2, SMTT(30) DEF SlotsHold, At
      <4>4. Stale(all, h) = Stale(lg, h - Capacity)
        BY <1>3, <1>5, <3>4, StaleOld
      <4>5. new.slots[h % Capacity].payload = r.slots[h % Capacity].payload
        BY <1>2, <1>5, <3>4
      <4> QED
        BY <2>1, <3>1, <4>3, <4>4, <4>5 DEF At
    <3> QED
      BY <3>1, <3>2, <3>3, <3>4
  <2>2. CASE i # h
    <3>1. i \in 0 .. h - 1 /\ i < h /\ h < i + Capacity /\ i >= h - Capacity
      BY <1>4, <1>9, <2>2
    <3>2. i % Capacity # h % Capacity /\ i % Capacity \in 0 .. Capacity - 1
      BY <3>1, SlotDistinct, SlotIn
    <3>3. At(new, i) = At(r, i)
      BY <1>2, <1>5, <3>2 DEF At
    <3>4. At(r, i).ts = lg[i + 1].ts /\ At(r, i).payload = Stale(lg, i)
      BY <1>5, <3>1 DEF SlotsHold
    <3>5. all[i + 1] = lg[i + 1]
      BY <1>3, <1>5, <3>1
    <3>6. Stale(all, i) = Stale(lg, i)
      BY <1>3, <1>5, <3>1, StalePrefix
    <3> QED
      BY <3>3, <3>4, <3>5, <3>6
  <2> QED
    BY <2>1, <2>2
<1>10. ASSUME NEW i \in 0 .. Capacity - 1, i >= h + 1 PROVE new.slots[i].payload = Garbage
  <2>1. h \in 0 .. Capacity - 1 /\ i # h /\ i >= h
    BY <1>4, <1>10
  <2>2. h % Capacity = h
    BY <2>1, SlotSmall
  <2> QED
    BY <1>2, <1>5, <2>1, <2>2 DEF SlotsHold
<1>11. SlotsHold(new, all)
  <2>1. new.head = h + 1 /\ new.head - 1 = h /\ new.head - Capacity = h + 1 - Capacity
    BY <1>4, <1>6
  <2>2. \A i \in 0 .. new.head - 1 : i >= new.head - Capacity =>
            At(new, i).ts = all[i + 1].ts /\ At(new, i).payload = Stale(all, i)
    <3> SUFFICES ASSUME NEW i \in 0 .. new.head - 1, i >= new.head - Capacity
                 PROVE  At(new, i).ts = all[i + 1].ts /\ At(new, i).payload = Stale(all, i)
      OBVIOUS
    <3>1. i \in 0 .. h /\ i >= h + 1 - Capacity
      BY <2>1
    <3> QED
      BY <1>9, <3>1
  <2>3. \A i \in 0 .. Capacity - 1 : i >= new.head => new.slots[i].payload = Garbage
    BY <1>10, <2>1
  <2> QED
    BY <2>2, <2>3 DEF SlotsHold
<1> QED
  BY <1>1, <1>2, <1>3, <1>7, <1>8, <1>11

\* The rows a pass copies out of a ring, and the ring it leaves.
Copied(r, count) == [k \in 1 .. count |-> RowAt(r, Begin(r) + k - 1)]
Advanced(r, count) == [r EXCEPT !.tail = Begin(r) + count]

\* The rows are of the window's first entries, as they were appended.
LEMMA CopiedAre ==
  ASSUME NEW r, NEW lg, IsRing(r), SlotsHold(r, lg), lg \in Seq(Traffic), Len(lg) = r.head,
         NEW count \in 0 .. r.head - Begin(r)
  PROVE  /\ Copied(r, count) \in Seq(TakenRows) /\ Len(Copied(r, count)) = count
         /\ \A k \in 1 .. count :
              /\ Copied(r, count)[k].n = Begin(r) + k - 1
              /\ Copied(r, count)[k].ts = lg[Begin(r) + k].ts
              /\ Copied(r, count)[k].payload = Stale(lg, Begin(r) + k - 1)
<1>1. PICK b \in Nat, h \in Nat : b = Begin(r) /\ h = r.head
  BY BeginIs DEF IsRing
<1>2. b <= h /\ h - b <= Capacity /\ count \in 0 .. h - b /\ Capacity \in Nat
  BY <1>1, BeginIs, SlotsAssumption
<1>3. ASSUME NEW k \in 1 .. count
      PROVE  /\ RowAt(r, b + k - 1) \in TakenRows
             /\ RowAt(r, b + k - 1).n = b + k - 1
             /\ RowAt(r, b + k - 1).ts = lg[b + k].ts
             /\ RowAt(r, b + k - 1).payload = Stale(lg, b + k - 1)
  <2>1. PICK i \in 0 .. h - 1 : i = b + k - 1 /\ i >= h - Capacity /\ i + 1 = b + k
    BY <1>2
  <2>2. At(r, i).ts = lg[i + 1].ts /\ At(r, i).payload = Stale(lg, i)
    BY <1>1, <2>1 DEF SlotsHold
  <2>3. RowAt(r, i) = [n |-> i, ts |-> At(r, i).ts, payload |-> At(r, i).payload]
    BY DEF RowAt
  <2>4. lg[i + 1].ts \in Int
    <3>1. i + 1 \in 1 .. Len(lg)
      BY <1>1, <2>1, SMTT(30)
    <3>2. lg[i + 1] \in Traffic
      BY <3>1
    <3> QED
      BY <3>2, TrafficFields
  <2>5. Stale(lg, i) \in Payloads
    BY StaleTyped
  <2> QED
    BY <2>1, <2>2, <2>3, <2>4, <2>5 DEF TakenRows
<1>4. PICK rows : rows = [k \in 1 .. count |-> RowAt(r, b + k - 1)] /\ rows = Copied(r, count)
  BY <1>1 DEF Copied
<1>5. rows \in [1 .. count -> TakenRows]
  BY <1>3, <1>4
<1>6. rows \in Seq(TakenRows) /\ Len(rows) = count
  BY <1>2, <1>5
<1> QED
  BY <1>1, <1>3, <1>4, <1>6, SMTT(30)

\* They come after what was taken before.
LEMMA MoreRows ==
  ASSUME NEW r, NEW lg, IsRing(r), SlotsHold(r, lg), lg \in Seq(Traffic), Len(lg) = r.head,
         NEW rows, RowsHold(rows, r.tail, lg), NEW count \in 0 .. r.head - Begin(r)
  PROVE  /\ RowsHold(rows, Begin(r) + count, lg)
         /\ RowsHold(rows \o Copied(r, count), Begin(r) + count, lg)
         /\ Len(rows \o Copied(r, count)) = Len(rows) + count
         /\ \A k \in 1 .. Len(rows) + count :
              (rows \o Copied(r, count))[k].n
                = IF k <= Len(rows) THEN rows[k].n ELSE Begin(r) + (k - Len(rows)) - 1
<1>1. PICK b \in Nat, t \in Nat : b = Begin(r) /\ t = r.tail /\ t <= b
  BY BeginIs DEF IsRing
<1>2. count \in Nat
  BY BeginIs DEF IsRing
<1>3. rows \in Seq(TakenRows)
  BY DEF RowsHold
<1>4. PICK m \in Nat : m = Len(rows)
  BY <1>3
<1>5. PICK more \in Seq(TakenRows) :
        /\ more = Copied(r, count) /\ Len(more) = count
        /\ \A k \in 1 .. count : /\ more[k].n = b + k - 1
                                 /\ more[k].ts = lg[b + k].ts
                                 /\ more[k].payload = Stale(lg, b + k - 1)
  BY <1>1, CopiedAre
<1>6. PICK both \in Seq(TakenRows) :
        /\ both = rows \o more /\ Len(both) = m + count
        /\ \A k \in 1 .. m + count : both[k] = IF k <= m THEN rows[k] ELSE more[k - m]
  <2>1. /\ rows \o more \in Seq(TakenRows)
        /\ Len(rows \o more) = Len(rows) + Len(more)
        /\ \A k \in 1 .. Len(rows) + Len(more) :
             (rows \o more)[k] = IF k <= Len(rows) THEN rows[k] ELSE more[k - Len(rows)]
    BY <1>3, ConcatProperties
  <2> QED
    BY <1>4, <1>5, <2>1
<1>7. /\ \A k \in 1 .. m : rows[k].n \in Nat /\ rows[k].n < t
                           /\ rows[k].ts = lg[rows[k].n + 1].ts
                           /\ rows[k].payload = Stale(lg, rows[k].n)
      /\ \A j, k \in 1 .. m : j < k => rows[j].n < rows[k].n
  BY <1>1, <1>3, <1>4, RowNumbers DEF RowsHold
<1>8. RowsHold(rows, b + count, lg)
  BY <1>1, <1>2, <1>3, <1>4, <1>7 DEF RowsHold
<1>9. ASSUME NEW k \in 1 .. m + count
      PROVE  /\ both[k].n = IF k <= m THEN rows[k].n ELSE b + (k - m) - 1
             /\ both[k].n < b + count
             /\ both[k].ts = lg[both[k].n + 1].ts
             /\ both[k].payload = Stale(lg, both[k].n)
  <2>1. CASE k <= m
    <3>1. k \in 1 .. m /\ both[k] = rows[k]
      BY <1>2, <1>6, <2>1
    <3>2. rows[k].n \in Nat /\ rows[k].n < t
      BY <1>7, <3>1
    <3>3. rows[k].n < b + count
      BY <1>1, <1>2, <3>2
    <3> QED
      BY <1>7, <2>1, <3>1, <3>3
  <2>2. CASE ~(k <= m)
    <3>1. PICK i \in 1 .. count : i = k - m
      BY <1>2, <2>2
    <3>2. both[k] = more[i]
      BY <1>6, <2>2, <3>1
    <3>3. more[i].n = b + i - 1 /\ b + i - 1 + 1 = b + i /\ b + i - 1 < b + count
      BY <1>2, <1>5
    <3>4. more[i].ts = lg[more[i].n + 1].ts /\ more[i].payload = Stale(lg, more[i].n)
      BY <1>5, <3>3
    <3> QED
      BY <2>2, <3>1, <3>2, <3>3, <3>4
  <2> QED
    BY <2>1, <2>2
<1>10. ASSUME NEW j \in 1 .. m + count, NEW k \in 1 .. m + count, j < k
       PROVE  both[j].n < both[k].n
  <2>1. CASE k <= m
    BY <1>7, <1>9, <1>10, <2>1
  <2>2. CASE j <= m /\ ~(k <= m)
    <3>1. rows[j].n < t /\ rows[j].n \in Nat /\ t <= b + (k - m) - 1
      BY <1>1, <1>7, <2>2
    <3> QED
      BY <1>9, <2>2, <3>1, SMTT(30)
  <2>3. CASE ~(j <= m)
    <3>1. both[j].n = b + (j - m) - 1 /\ both[k].n = b + (k - m) - 1
      BY <1>9, <1>10, <2>3
    <3> QED
      BY <1>10, <3>1
  <2> QED
    BY <1>10, <2>1, <2>2, <2>3
<1>11. RowsHold(both, b + count, lg)
  BY <1>6, <1>9, <1>10 DEF RowsHold
<1> QED
  BY <1>1, <1>4, <1>5, <1>6, <1>8, <1>9, <1>11

\* A pass over a ring keeps its invariant, whether the block was written or not.
LEMMA AdvanceKeeps ==
  ASSUME NEW r, NEW lg, NEW st, NEW un, RingInv(r, lg, st, un),
         NEW count \in 0 .. r.head - Begin(r)
  PROVE  /\ RingInv(Advanced(r, count), lg, st \o Copied(r, count), un)
         /\ RingInv(Advanced(r, count), lg, st, un \o Copied(r, count))
<1> USE DEF RingInv
<1>1. PICK b \in Nat, t \in Nat, h \in Nat :
        b = Begin(r) /\ t = r.tail /\ h = r.head /\ t <= b /\ b <= h /\ h - b <= Capacity
  BY BeginIs DEF IsRing
<1>2. count \in 0 .. h - b /\ Capacity \in Nat
  BY <1>1, SlotsAssumption
<1>3. PICK new : new = Advanced(r, count)
  OBVIOUS
<1>4. new = [head |-> r.head, tail |-> b + count, lost |-> r.lost, slots |-> r.slots]
  BY <1>1, <1>3 DEF Advanced, IsRing
<1>5. new.head = h /\ new.tail = b + count /\ new.lost = r.lost /\ new.slots = r.slots
  BY <1>1, <1>4
<1>6. IsRing(new)
  <2>1. new = [head |-> new.head, tail |-> new.tail, lost |-> new.lost, slots |-> new.slots]
    BY <1>4
  <2>2. new.tail \in 0 .. new.head /\ new.head \in Nat
    BY <1>1, <1>2, <1>5
  <2> QED
    BY <1>5, <2>1, <2>2 DEF IsRing
<1>7. SlotsHold(new, lg)
  BY <1>1, <1>5 DEF SlotsHold, At
<1>8. Begin(new) = b + count
  BY <1>1, <1>2, <1>5, SMTT(30) DEF Begin
<1>9. PICK rows : rows = Copied(r, count)
  OBVIOUS
<1>10. /\ RowsHold(st, b + count, lg) /\ RowsHold(un, b + count, lg)
       /\ RowsHold(st \o rows, b + count, lg) /\ RowsHold(un \o rows, b + count, lg)
       /\ Len(st \o rows) = Len(st) + count /\ Len(un \o rows) = Len(un) + count
       /\ \A k \in 1 .. Len(st) + count :
            (st \o rows)[k].n = IF k <= Len(st) THEN st[k].n ELSE b + (k - Len(st)) - 1
       /\ \A k \in 1 .. Len(un) + count :
            (un \o rows)[k].n = IF k <= Len(un) THEN un[k].n ELSE b + (k - Len(un)) - 1
  <2>1. IsRing(r) /\ SlotsHold(r, lg) /\ lg \in Seq(Traffic) /\ Len(lg) = r.head
    OBVIOUS
  <2>2. /\ RowsHold(st, b + count, lg) /\ RowsHold(st \o rows, b + count, lg)
        /\ Len(st \o rows) = Len(st) + count
        /\ \A k \in 1 .. Len(st) + count :
             (st \o rows)[k].n = IF k <= Len(st) THEN st[k].n ELSE b + (k - Len(st)) - 1
    <3>1. RowsHold(st, r.tail, lg)
      OBVIOUS
    <3> HIDE DEF RingInv
    <3> QED
      BY <1>1, <1>9, <2>1, <3>1, MoreRows, SMTT(30)
  <2>3. /\ RowsHold(un, b + count, lg) /\ RowsHold(un \o rows, b + count, lg)
        /\ Len(un \o rows) = Len(un) + count
        /\ \A k \in 1 .. Len(un) + count :
             (un \o rows)[k].n = IF k <= Len(un) THEN un[k].n ELSE b + (k - Len(un)) - 1
    <3>1. RowsHold(un, r.tail, lg)
      OBVIOUS
    <3> HIDE DEF RingInv
    <3> QED
      BY <1>1, <1>9, <2>1, <3>1, MoreRows, SMTT(30)
  <2> QED
    BY <2>2, <2>3
<1>11. Len(st) \in Nat /\ Len(un) \in Nat /\ r.lost \in Nat
       /\ Len(st) + Len(un) + r.lost = b
  BY <1>1 DEF RowsHold, IsRing
<1>12. /\ \A k \in 1 .. Len(st) : st[k].n \in Nat /\ st[k].n < b
       /\ \A k \in 1 .. Len(un) : un[k].n \in Nat /\ un[k].n < b
  <2>1. /\ \A k \in 1 .. Len(st) : st[k].n \in Nat /\ st[k].n < t
        /\ \A k \in 1 .. Len(un) : un[k].n \in Nat /\ un[k].n < t
    BY <1>1, RowNumbers DEF RowsHold
  <2> QED
    BY <1>1, <2>1, SMTT(30)
<1>13. Apart(st \o rows, un)
  <2> SUFFICES ASSUME NEW j \in 1 .. Len(st) + count, NEW k \in 1 .. Len(un)
               PROVE  (st \o rows)[j].n # un[k].n
    BY <1>10 DEF Apart
  <2>1. CASE j <= Len(st)
    BY <1>10, <1>11, <2>1 DEF Apart
  <2>2. CASE ~(j <= Len(st))
    <3>1. (st \o rows)[j].n = b + (j - Len(st)) - 1 /\ b + (j - Len(st)) - 1 >= b
      BY <1>10, <1>11, <2>2, SMTT(30)
    <3> QED
      BY <1>12, <3>1
  <2> QED
    BY <2>1, <2>2
<1>14. Apart(st, un \o rows)
  <2> SUFFICES ASSUME NEW j \in 1 .. Len(st), NEW k \in 1 .. Len(un) + count
               PROVE  st[j].n # (un \o rows)[k].n
    BY <1>10 DEF Apart
  <2>1. CASE k <= Len(un)
    BY <1>10, <1>11, <2>1 DEF Apart
  <2>2. CASE ~(k <= Len(un))
    <3>1. (un \o rows)[k].n = b + (k - Len(un)) - 1 /\ b + (k - Len(un)) - 1 >= b
      BY <1>10, <1>11, <2>2, SMTT(30)
    <3>2. st[j].n \in Nat /\ st[j].n < b
      BY <1>12
    <3>3. b + (k - Len(un)) - 1 \in Int
      BY <1>2, <1>11
    <3> QED
      BY <3>1, <3>2, <3>3
  <2> QED
    BY <2>1, <2>2
<1>15. /\ Len(st \o rows) + Len(un) + new.lost = Begin(new)
       /\ Len(st) + Len(un \o rows) + new.lost = Begin(new)
  BY <1>1, <1>2, <1>5, <1>8, <1>10, <1>11, SMTT(30)
<1> QED
  BY <1>1, <1>3, <1>5, <1>6, <1>7, <1>9, <1>10, <1>13, <1>14, <1>15

-----------------------------------------------------------------------------
(* The inductive invariant *)

EngineType ==
  /\ int8 \in BOOLEAN /\ cosine \in BOOLEAN /\ sink \in BOOLEAN /\ closed \in BOOLEAN
  /\ limit \in Nat /\ producer \in [Sensors -> Threads]
  /\ slots \subseteq Sensors /\ DOMAIN rings \subseteq slots
  /\ lastSeen \in [Threads -> Nat] /\ told \in [Sensors -> Nat]
  /\ log \in [Sensors -> Seq(Traffic)]
  /\ stored \in [Sensors -> Seq(TakenRows)] /\ unstored \in [Sensors -> Seq(TakenRows)]
  /\ failures \in 0 .. MaxFailures /\ drops \in 0 .. MaxDrops
  /\ dropped \subseteq Sensors
  /\ answer.code \in Codes

RingsHold == \A s \in Sensors : RingInv(RingOf(s), log[s], stored[s], unstored[s])

\* There is a sink, its producer feeds no other sensor, and it was never dropped.
Undisturbed(s) == sink /\ (\A q \in Sensors \ {s} : producer[q] # producer[s]) /\ s \notin dropped

\* No sensor's observer was told more than the ring lost, nor more than the
\* producer thread has seen; exactly that if the thread has seen no other ring.
SinkInv ==
  \A s \in Sensors :
    /\ told[s] <= RingOf(s).lost
    /\ told[s] <= lastSeen[producer[s]]
    /\ Undisturbed(s) => told[s] = lastSeen[producer[s]]

AppendTold ==
  answer.call = "append" => (Undisturbed(answer.s) => told[answer.s] = rings[answer.s].lost)

CallsInv == EngineType /\ RingsHold /\ SinkInv /\ AppendTold

-----------------------------------------------------------------------------
(* Every action keeps it *)

\* An engine after Create or Open.
LEMMA CallsInit == Init => CallsInv
<1> SUFFICES ASSUME Init PROVE CallsInv
  OBVIOUS
<1>1. PICK setup \in Setups :
        /\ int8 = setup.int8 /\ cosine = setup.cosine
        /\ limit = setup.limit /\ producer = setup.producer
        /\ sink = ~setup.opened
        /\ slots = IF setup.opened THEN Recovered ELSE {}
  BY DEF Init
<1>2. int8 \in BOOLEAN /\ cosine \in BOOLEAN /\ limit \in Nat /\ sink \in BOOLEAN
  BY <1>1, SetupsAssumption
<1>3. producer \in [Sensors -> Threads]
  <2>1. producer = [s \in Sensors |-> producer[s]]
    BY <1>1, SetupsAssumption
  <2>2. \A s \in Sensors : producer[s] \in Threads
    <3> SUFFICES ASSUME NEW s \in Sensors PROVE producer[s] \in Threads
      OBVIOUS
    <3>1. producer[s] \in Range(setup.producer)
      BY <1>1, <2>1 DEF Range
    <3> QED
      BY <3>1 DEF Threads
  <2> QED
    BY <2>1, <2>2
<1>4. DOMAIN rings = {} /\ \A s : RingOf(s) = NewRing
  BY DEF Init, RingOf, HasRing
<1>5. EngineType
  <2>1. 0 \in 0 .. MaxFailures /\ 0 \in 0 .. MaxDrops
    BY CallBoundsAssumption
  <2>2. answer.code \in Codes
    BY DEF Init, NoAnswer, Answer, Codes
  <2>3. slots \subseteq Sensors
    BY <1>1, SlotsAssumption
  <2>4. /\ log \in [Sensors -> Seq(Traffic)]
        /\ stored \in [Sensors -> Seq(TakenRows)] /\ unstored \in [Sensors -> Seq(TakenRows)]
    BY DEF Init
  <2>5. lastSeen \in [Threads -> Nat] /\ told \in [Sensors -> Nat]
    BY DEF Init
  <2>6. closed \in BOOLEAN /\ dropped \subseteq Sensors /\ failures = 0 /\ drops = 0
    BY DEF Init
  <2> HIDE DEF CallsInv
  <2> QED
    BY <1>2, <1>3, <1>4, <2>1, <2>2, <2>3, <2>4, <2>5, <2>6 DEF EngineType
<1>6. RingsHold
  BY <1>4, NewRingHolds DEF Init, RingsHold
<1>7. SinkInv
  <2>1. NewRing.lost = 0
    BY DEF NewRing
  <2>2. \A s \in Sensors : told[s] = 0 /\ lastSeen[producer[s]] = 0
    BY <1>3 DEF Init
  <2> QED
    BY <1>4, <2>1, <2>2 DEF SinkInv
<1>8. AppendTold
  BY DEF Init, NoAnswer, Answer, AppendTold
<1> QED
  BY <1>5, <1>6, <1>7, <1>8 DEF CallsInv

\* A ring's counter is a natural number.
LEMMA LostIs == \A r, lg, st, un : RingInv(r, lg, st, un) => r.lost \in Nat
BY DEF RingInv, IsRing

\* An append never takes a loss back.
LEMMA LostGrows ==
  ASSUME NEW r, NEW lg, NEW st, NEW un, RingInv(r, lg, st, un), NEW e \in Traffic
  PROVE  /\ r.lost \in Nat /\ Appended(r, e).lost \in Nat
         /\ r.lost <= Appended(r, e).lost
<1>1. PICK new : new = Appended(r, e)
  OBVIOUS
<1>2. IsRing(r) /\ r.lost \in Nat
  BY DEF RingInv, IsRing
<1>3. new.lost = IF r.head - r.tail >= Capacity THEN r.lost + 1 ELSE r.lost
  BY <1>1, <1>2, AppendedIs
<1> QED
  BY <1>1, <1>2, <1>3

\* A call that changes nothing but the answer, and is no append; or Close.
LEMMA QuietKeeps ==
  ASSUME CallsInv, answer'.code \in Codes, answer'.call # "append", closed' \in BOOLEAN,
         UNCHANGED <<configVars, slots, rings, lastSeen, drops, log, storeVars, told, dropped>>
  PROVE  CallsInv'
<1>1. UNCHANGED <<int8, cosine, limit, sink, producer, stored, unstored, failures>>
  BY DEF configVars, storeVars
<1>2. \A s : RingOf(s)' = RingOf(s)
  BY DEF RingOf, HasRing
<1>3. EngineType'
  BY <1>1 DEF CallsInv, EngineType
<1>4. RingsHold'
  BY <1>1, <1>2 DEF CallsInv, RingsHold
<1>5. SinkInv'
  BY <1>1, <1>2 DEF CallsInv, SinkInv, Undisturbed
<1>6. AppendTold'
  BY DEF AppendTold
<1> QED
  BY <1>3, <1>4, <1>5, <1>6 DEF CallsInv

\* Every refusal has a code of its own.
LEMMA RefusedCode ==
  ASSUME NEW call \in Calls, NEW s, NEW faults, ~Passes(call, s, faults)
  PROVE  CodeOf[Checks(call)[Failing(call, s, faults)]] \in Codes
<1> DEFINE T == {k \in DOMAIN Checks(call) : Checks(call)[k] \in faults \cup Standing(s)}
           Names == {"arg", "dim0", "id", "empty", "closed", "dim", "unknown", "limit", "memory"}
<1>1. Checks(call) \in Seq(Names) /\ Len(Checks(call)) <= 8
  <2>1. CASE call = "append"
    BY <2>1 DEF Checks
  <2>2. CASE call = "append_batch"
    BY <2>2 DEF Checks
  <2>3. CASE call = "preallocate"
    BY <2>3 DEF Checks
  <2>4. CASE call = "query_nearest_n"
    BY <2>4 DEF Checks
  <2>5. CASE call = "query_range"
    BY <2>5 DEF Checks
  <2>6. CASE call = "detect_anomaly"
    BY <2>6 DEF Checks
  <2>7. CASE call = "maintain"
    BY <2>7 DEF Checks
  <2>8. CASE call = "flush"
    BY <2>8 DEF Checks
  <2>9. CASE call = "drop_sensor"
    BY <2>9 DEF Checks
  <2> QED
    BY <2>1, <2>2, <2>3, <2>4, <2>5, <2>6, <2>7, <2>8, <2>9 DEF Calls
<1>2. T \subseteq Nat /\ T # {}
  BY <1>1 DEF Passes, ToSet
<1>3. Min(T) \in T
  <2> HIDE DEF T
  <2>1. \E n \in T : \A m \in T : n <= m
    BY <1>2, LeastNat
  <2> QED
    BY <2>1 DEF Min
<1>4. Checks(call)[Failing(call, s, faults)] \in Names
  BY <1>1, <1>3 DEF Failing
<1>5. \A name \in Names : CodeOf[name] \in Codes
  BY DEF CodeOf, Codes
<1> QED
  BY <1>4, <1>5

\* What the map holds after a sensor got a ring.
LEMMA RegisterGives ==
  ASSUME NEW s \in Sensors, NEW r, Register(s, r), slots \subseteq Sensors,
         DOMAIN rings \subseteq slots
  PROVE  /\ slots' \subseteq Sensors /\ DOMAIN rings' \subseteq slots'
         /\ s \in DOMAIN rings' /\ rings'[s] = r
         /\ \A q \in Sensors : RingOf(q)' = IF q = s THEN r ELSE RingOf(q)
<1>1. /\ DOMAIN rings' = DOMAIN rings \cup {s}
      /\ \A q \in DOMAIN rings \cup {s} : rings'[q] = IF q = s THEN r ELSE rings[q]
  BY DEF Register, With
<1> QED
  BY <1>1 DEF Register, RingOf, HasRing

\* Engine::Append.
LEMMA AppendOneKeeps ==
  ASSUME CallsInv, NEW e \in Traffic, AppendOne(e)
  PROVE  CallsInv'
<1>1. PICK s \in Sensors : s = e.s
  BY TrafficFields
<1>2. PICK old : old = RingOf(s)
  OBVIOUS
<1>3. PICK r : r = Appended(old, e)
  OBVIOUS
<1>4. Register(s, r) /\ log' = [log EXCEPT ![s] = Append(@, e)]
  BY <1>1, <1>2, <1>3 DEF AppendOne
<1>5. EngineType
  BY DEF CallsInv
<1>6. /\ slots' \subseteq Sensors /\ DOMAIN rings' \subseteq slots'
      /\ s \in DOMAIN rings' /\ rings'[s] = r
      /\ \A q \in Sensors : RingOf(q)' = IF q = s THEN r ELSE RingOf(q)
  BY <1>4, <1>5, RegisterGives DEF EngineType
<1>7. RingInv(old, log[s], stored[s], unstored[s])
  BY <1>2 DEF CallsInv, RingsHold
<1>8. /\ old.lost \in Nat /\ r.lost \in Nat /\ old.lost <= r.lost
  BY <1>3, <1>7, LostGrows
<1>9. /\ UNCHANGED <<int8, cosine, limit, sink, producer, closed, stored, unstored, failures, drops, dropped>>
      /\ answer' = [call |-> "append", code |-> "OK", s |-> s]
  BY <1>1 DEF AppendOne, configVars, storeVars
<1>10. PICK seen \in Nat, p \in Threads : p = producer[s] /\ seen = lastSeen[p]
  BY <1>5 DEF EngineType
<1>11. told[s] \in Nat /\ told[s] <= old.lost /\ told[s] <= seen
       /\ (Undisturbed(s) => told[s] = seen)
  BY <1>2, <1>5, <1>10 DEF CallsInv, SinkInv, EngineType
<1>12. \/ /\ r.lost > seen
          /\ told' = [told EXCEPT ![s] = @ + r.lost - seen]
          /\ lastSeen' = [lastSeen EXCEPT ![p] = r.lost]
       \/ ~(sink /\ r.lost > seen) /\ told' = told /\ lastSeen' = lastSeen
  BY <1>1, <1>2, <1>3, <1>10 DEF AppendOne, Report
<1>13. EngineType'
  <2>1. lastSeen' \in [Threads -> Nat]
    BY <1>5, <1>8, <1>12 DEF EngineType
  <2>2. told' \in [Sensors -> Nat]
    <3>1. CASE told' = [told EXCEPT ![s] = @ + r.lost - seen] /\ r.lost > seen
      <4>1. told[s] + r.lost - seen \in Nat
        BY <1>8, <1>10, <1>11, <3>1
      <4> QED
        BY <1>5, <1>12, <3>1, <4>1 DEF EngineType
    <3>2. CASE told' = told
      BY <1>5, <3>2 DEF EngineType
    <3> QED
      BY <1>12, <3>1, <3>2
  <2>3. log' \in [Sensors -> Seq(Traffic)]
    <3>1. Append(log[s], e) \in Seq(Traffic)
      BY <1>5, AppendProperties DEF EngineType
    <3> QED
      BY <1>4, <1>5, <3>1 DEF EngineType
  <2>4. answer'.code \in Codes
    BY <1>9 DEF Codes
  <2> QED
    BY <1>5, <1>6, <1>9, <2>1, <2>2, <2>3, <2>4 DEF EngineType
<1>14. RingsHold'
  <2> SUFFICES ASSUME NEW q \in Sensors
               PROVE  RingInv(RingOf(q)', log'[q], stored[q], unstored[q])
    BY <1>9 DEF RingsHold
  <2>1. CASE q = s
    <3>1. log'[q] = Append(log[s], e)
      BY <1>4, <1>5, <2>1 DEF EngineType
    <3> QED
      BY <1>3, <1>6, <1>7, <2>1, <3>1, AppendKeeps
  <2>2. CASE q # s
    <3>1. log'[q] = log[q] /\ RingOf(q)' = RingOf(q)
      BY <1>4, <1>5, <1>6, <2>2 DEF EngineType
    <3> QED
      BY <3>1 DEF CallsInv, RingsHold
  <2> QED
    BY <2>1, <2>2
<1>15. told'[s] <= r.lost /\ told'[s] <= lastSeen'[p] /\ (Undisturbed(s) => told'[s] = lastSeen'[p])
       /\ (Undisturbed(s) => told'[s] = r.lost)
  <2>1. CASE /\ r.lost > seen
             /\ told' = [told EXCEPT ![s] = @ + r.lost - seen]
             /\ lastSeen' = [lastSeen EXCEPT ![p] = r.lost]
    <3>1. told'[s] = told[s] + r.lost - seen /\ lastSeen'[p] = r.lost
      BY <1>5, <2>1 DEF EngineType
    <3> QED
      BY <1>8, <1>10, <1>11, <3>1
  <2>2. CASE ~(sink /\ r.lost > seen) /\ told' = told /\ lastSeen' = lastSeen
    <3>1. Undisturbed(s) => r.lost <= seen
      BY <1>8, <1>10, <2>2 DEF Undisturbed
    <3> QED
      BY <1>8, <1>10, <1>11, <2>2, <3>1
  <2> QED
    BY <1>12, <2>1, <2>2
<1>16. \A q : Undisturbed(q)' <=> Undisturbed(q)
  BY <1>9 DEF Undisturbed
<1>17. SinkInv'
  <2> SUFFICES ASSUME NEW q \in Sensors
               PROVE  /\ told'[q] <= RingOf(q)'.lost
                      /\ told'[q] <= lastSeen'[producer[q]]
                      /\ Undisturbed(q) => told'[q] = lastSeen'[producer[q]]
    BY <1>9, <1>16 DEF SinkInv
  <2>1. CASE q = s
    BY <1>6, <1>10, <1>15, <2>1
  <2>2. CASE q # s
    <3>1. told'[q] = told[q] /\ RingOf(q)' = RingOf(q)
      BY <1>5, <1>6, <1>12, <2>2 DEF EngineType
    <3>2. told[q] \in Nat /\ producer[q] \in Threads /\ lastSeen[producer[q]] \in Nat
      BY <1>5 DEF EngineType
    <3>3. /\ told[q] <= RingOf(q).lost /\ told[q] <= lastSeen[producer[q]]
          /\ Undisturbed(q) => told[q] = lastSeen[producer[q]]
      BY DEF CallsInv, SinkInv
    <3>4. CASE producer[q] = p
      <4>1. ~Undisturbed(q)
        BY <1>10, <2>2, <3>4 DEF Undisturbed
      <4>2. lastSeen'[p] \in Nat /\ lastSeen[p] <= lastSeen'[p]
        <5>1. CASE r.lost > seen /\ lastSeen' = [lastSeen EXCEPT ![p] = r.lost]
          BY <1>5, <1>8, <1>10, <5>1 DEF EngineType
        <5>2. CASE lastSeen' = lastSeen
          BY <1>10, <5>2
        <5> QED
          BY <1>12, <5>1, <5>2
      <4> QED
        BY <3>1, <3>2, <3>3, <3>4, <4>1, <4>2
    <3>5. CASE producer[q] # p
      <4>1. lastSeen'[producer[q]] = lastSeen[producer[q]]
        BY <1>5, <1>12, <3>2, <3>5 DEF EngineType
      <4> QED
        BY <3>1, <3>3, <4>1
    <3> QED
      BY <3>4, <3>5
  <2> QED
    BY <2>1, <2>2
<1>18. AppendTold'
  <2>1. answer'.s = s
    BY <1>9
  <2> QED
    BY <1>6, <1>15, <1>16, <2>1 DEF AppendTold
<1> QED
  BY <1>13, <1>14, <1>17, <1>18 DEF CallsInv

\* A ring is registered or appended to without a word to the sink.
LEMMA RegisterKeeps ==
  ASSUME CallsInv, NEW s \in Sensors, NEW r, NEW lg \in Seq(Traffic), Register(s, r),
         RingInv(r, lg, stored[s], unstored[s]), RingOf(s).lost <= r.lost,
         log' = [log EXCEPT ![s] = lg],
         answer'.code \in Codes, answer'.call # "append",
         UNCHANGED <<configVars, closed, lastSeen, drops, storeVars, told, dropped>>
  PROVE  CallsInv'
<1>1. UNCHANGED <<int8, cosine, limit, sink, producer, closed, stored, unstored, failures>>
  BY DEF configVars, storeVars
<1>2. EngineType
  BY DEF CallsInv
<1>3. /\ slots' \subseteq Sensors /\ DOMAIN rings' \subseteq slots'
      /\ \A q \in Sensors : RingOf(q)' = IF q = s THEN r ELSE RingOf(q)
  BY <1>2, RegisterGives DEF EngineType
<1>4. EngineType'
  BY <1>1, <1>2, <1>3 DEF EngineType
<1>5. RingsHold'
  <2> SUFFICES ASSUME NEW q \in Sensors
               PROVE  RingInv(RingOf(q)', log'[q], stored[q], unstored[q])
    BY <1>1 DEF RingsHold
  <2>1. log'[q] = IF q = s THEN lg ELSE log[q]
    BY <1>2 DEF EngineType
  <2> QED
    BY <1>3, <2>1 DEF CallsInv, RingsHold
<1>6. SinkInv'
  <2> SUFFICES ASSUME NEW q \in Sensors PROVE told[q] <= RingOf(q)'.lost
    BY <1>1 DEF CallsInv, SinkInv, Undisturbed
  <2>1. told[q] \in Nat /\ told[q] <= RingOf(q).lost
    BY <1>2 DEF EngineType, CallsInv, SinkInv
  <2>2. r.lost \in Nat /\ RingOf(q).lost \in Nat
    BY LostIs DEF CallsInv, RingsHold
  <2> QED
    BY <1>3, <2>1, <2>2
<1>7. AppendTold'
  BY DEF AppendTold
<1> QED
  BY <1>4, <1>5, <1>6, <1>7 DEF CallsInv

\* Engine::AppendBatch.
LEMMA AppendBatchKeeps ==
  ASSUME CallsInv, NEW e \in Traffic, NEW f \in Traffic, AppendBatch(e, f)
  PROVE  CallsInv'
<1>1. PICK s \in Sensors : s = e.s
  BY TrafficFields
<1>2. PICK old, mid, r : old = RingOf(s) /\ mid = Appended(old, e) /\ r = Appended(mid, f)
  OBVIOUS
<1>3. RingInv(old, log[s], stored[s], unstored[s]) /\ log[s] \in Seq(Traffic)
  BY <1>2 DEF CallsInv, RingsHold, EngineType
<1>4. RingInv(mid, Append(log[s], e), stored[s], unstored[s])
  BY <1>2, <1>3, AppendKeeps
<1>5. RingInv(r, Append(Append(log[s], e), f), stored[s], unstored[s])
  BY <1>2, <1>4, AppendKeeps
<1>6. old.lost <= mid.lost /\ mid.lost <= r.lost
      /\ old.lost \in Nat /\ mid.lost \in Nat /\ r.lost \in Nat
  BY <1>2, <1>3, <1>4, LostGrows
<1>7. old.lost <= r.lost
  BY <1>6
<1>8. PICK lg \in Seq(Traffic) : lg = Append(Append(log[s], e), f)
  BY <1>5 DEF RingInv
<1>9. /\ Register(s, r) /\ log' = [log EXCEPT ![s] = lg]
       /\ answer'.code \in Codes /\ answer'.call # "append"
       /\ UNCHANGED <<configVars, closed, lastSeen, drops, storeVars, told, dropped>>
  BY <1>1, <1>2, <1>8 DEF AppendBatch, Answer, Codes
<1> QED
  BY <1>2, <1>5, <1>7, <1>8, <1>9, RegisterKeeps

\* Engine::PreallocateSensor.
LEMMA PreallocateKeeps ==
  ASSUME CallsInv, NEW s \in Sensors, PreallocateSensor(s)
  PROVE  CallsInv'
<1>1. PICK r, lg : r = RingOf(s) /\ lg = log[s]
  OBVIOUS
<1>2. RingInv(r, lg, stored[s], unstored[s]) /\ lg \in Seq(Traffic)
  BY <1>1 DEF CallsInv, RingsHold, EngineType
<1>3. log' = [log EXCEPT ![s] = lg]
  BY <1>1 DEF PreallocateSensor, CallsInv, EngineType
<1>4. RingOf(s).lost <= r.lost
  BY <1>1, <1>2, LostIs
<1>5. /\ Register(s, r) /\ answer'.code \in Codes /\ answer'.call # "append"
      /\ UNCHANGED <<configVars, closed, lastSeen, drops, storeVars, told, dropped>>
  BY <1>1 DEF PreallocateSensor, Answer, Codes
<1> QED
  BY <1>2, <1>3, <1>4, <1>5, RegisterKeeps

\* A producer's int8 scratch cannot be grown.
LEMMA NoScratchKeeps ==
  ASSUME CallsInv, NEW s \in Sensors, NEW call, IngestNoScratch(call, s)
  PROVE  CallsInv'
<1>1. PICK r, lg : r = RingOf(s) /\ lg = log[s]
  OBVIOUS
<1>2. RingInv(r, lg, stored[s], unstored[s]) /\ lg \in Seq(Traffic)
  BY <1>1 DEF CallsInv, RingsHold, EngineType
<1>3. log' = [log EXCEPT ![s] = lg]
  BY <1>1 DEF IngestNoScratch, CallsInv, EngineType
<1>4. RingOf(s).lost <= r.lost
  BY <1>1, <1>2, LostIs
<1>5. /\ Register(s, r) /\ answer'.code \in Codes /\ answer'.call # "append"
      /\ UNCHANGED <<configVars, closed, lastSeen, drops, storeVars, told, dropped>>
  BY <1>1 DEF IngestNoScratch, Answer, Codes
<1> QED
  BY <1>2, <1>3, <1>4, <1>5, RegisterKeeps

\* A pass over the rings: EvictOnce of Flush, MaintainSlidingWindow and the
\* background thread.
LEMMA PassKeeps ==
  ASSUME CallsInv, NEW all \in BOOLEAN, NEW taken \in Takes(all), NEW fails \in SUBSET DOMAIN rings,
         EvictOnce(taken, fails), answer'.code \in Codes, answer'.call # "append"
  PROVE  CallsInv'
<1> DEFINE from == {s \in DOMAIN rings : taken[s] > 0}
<1>1. EngineType
  BY DEF CallsInv
<1>2. fails \subseteq from /\ from \subseteq Sensors
  BY <1>1 DEF EvictOnce, EngineType
<1>3. UNCHANGED <<int8, cosine, limit, sink, producer, closed, slots, lastSeen, drops, log, told, dropped>>
  BY DEF EvictOnce, configVars
<1>4. DOMAIN rings' = DOMAIN rings
  BY DEF EvictOnce
<1>5. failures' \in 0 .. MaxFailures
  <2>1. IsFiniteSet(Sensors) /\ fails \in SUBSET Sensors
    BY <1>2, SlotsAssumption
  <2>2. Cardinality(fails) \in Nat
    BY <2>1, FS_Subset, FS_CardinalityType
  <2> QED
    BY <1>1, <2>2, CallBoundsAssumption DEF EvictOnce, EngineType
<1>6. ASSUME NEW s \in Sensors
      PROVE  /\ RingInv(RingOf(s)', log[s], stored'[s], unstored'[s])
             /\ stored'[s] \in Seq(TakenRows) /\ unstored'[s] \in Seq(TakenRows)
             /\ RingOf(s)'.lost = RingOf(s).lost
  <2>1. PICK r : r = RingOf(s) /\ RingInv(r, log[s], stored[s], unstored[s]) /\ IsRing(r)
    BY DEF CallsInv, RingsHold, RingInv
  <2>2. /\ stored'[s] = IF s \in from \ fails THEN stored[s] \o Rows(s, taken) ELSE stored[s]
        /\ unstored'[s] = IF s \in fails THEN unstored[s] \o Rows(s, taken) ELSE unstored[s]
    BY DEF EvictOnce
  <2>3. ASSUME s \in DOMAIN rings
        PROVE  /\ r = rings[s]
               /\ RingOf(s)' = [r EXCEPT !.tail = IF s \in from THEN Begin(r) + taken[s] ELSE @]
               /\ Rows(s, taken) = Copied(r, taken[s])
    BY <2>1, <2>3, <1>4 DEF EvictOnce, RingOf, HasRing, Rows, Copied
  <2>4. CASE s \in from
    <3>1. s \in DOMAIN rings
      BY <2>4
    <3>2. taken[s] \in 0 .. r.head - Begin(r)
      <4>1. Cardinality(Window(r)) = r.head - Begin(r) /\ r.head - Begin(r) \in Nat
        BY <2>1, BeginIs, SlotsAssumption
      <4>2. taken[s] \in 0 .. Capacity
        BY <3>1 DEF Takes
      <4>3. taken[s] \in {0, Cardinality(Window(r))} \/ taken[s] <= Cardinality(Window(r))
        BY <2>3, <3>1 DEF Takes
      <4> QED
        BY <4>1, <4>2, <4>3, SlotsAssumption
    <3>3. RingOf(s)' = Advanced(r, taken[s])
      BY <2>3, <2>4, <3>1 DEF Advanced
    <3>4. RingOf(s)'.lost = r.lost
      BY <2>1, <3>3 DEF Advanced, IsRing
    <3>5. CASE s \in fails
      <4>1. stored'[s] = stored[s] /\ unstored'[s] = unstored[s] \o Copied(r, taken[s])
        BY <2>2, <2>3, <3>1, <3>5
      <4>2. RingInv(RingOf(s)', log[s], stored'[s], unstored'[s])
        BY <2>1, <3>2, <3>3, <4>1, AdvanceKeeps
      <4> QED
        BY <2>1, <3>4, <4>2 DEF RingInv, RowsHold
    <3>6. CASE s \notin fails
      <4>1. stored'[s] = stored[s] \o Copied(r, taken[s]) /\ unstored'[s] = unstored[s]
        BY <2>2, <2>3, <2>4, <3>1, <3>6
      <4>2. RingInv(RingOf(s)', log[s], stored'[s], unstored'[s])
        BY <2>1, <3>2, <3>3, <4>1, AdvanceKeeps
      <4> QED
        BY <2>1, <3>4, <4>2 DEF RingInv, RowsHold
    <3> QED
      BY <3>5, <3>6
  <2>5. CASE s \notin from
    <3>1. RingOf(s)' = r
      <4>1. CASE s \in DOMAIN rings
        <5>1. RingOf(s)' = [r EXCEPT !.tail = r.tail]
          BY <2>3, <2>5, <4>1
        <5> QED
          BY <2>1, <5>1 DEF IsRing
      <4>2. CASE s \notin DOMAIN rings
        BY <1>4, <2>1, <4>2 DEF RingOf, HasRing
      <4> QED
        BY <4>1, <4>2
    <3>2. stored'[s] = stored[s] /\ unstored'[s] = unstored[s]
      BY <1>2, <2>2, <2>5
    <3> QED
      BY <1>1, <2>1, <3>1, <3>2 DEF EngineType
  <2> QED
    BY <2>4, <2>5
<1>7. stored' \in [Sensors -> Seq(TakenRows)] /\ unstored' \in [Sensors -> Seq(TakenRows)]
  BY <1>6 DEF EvictOnce
<1>8. EngineType'
  BY <1>1, <1>3, <1>4, <1>5, <1>7 DEF EngineType
<1>9. RingsHold'
  BY <1>3, <1>6 DEF RingsHold
<1>10. SinkInv'
  <2>1. \A s : Undisturbed(s)' <=> Undisturbed(s)
    BY <1>3 DEF Undisturbed
  <2> QED
    BY <1>3, <1>6, <2>1 DEF SinkInv, CallsInv
<1>11. AppendTold'
  BY DEF AppendTold
<1> QED
  BY <1>8, <1>9, <1>10, <1>11 DEF CallsInv

\* Engine::DropSensor.
LEMMA DropKeeps ==
  ASSUME CallsInv, NEW s \in Sensors, DropSensor(s)
  PROVE  CallsInv'
<1>1. EngineType
  BY DEF CallsInv
<1>2. UNCHANGED <<int8, cosine, limit, sink, producer, closed, lastSeen, failures>>
  BY DEF DropSensor, configVars
<1>3. /\ DOMAIN rings' = DOMAIN rings \ {s}
      /\ \A q \in DOMAIN rings \ {s} : rings'[q] = rings[q]
  BY DEF DropSensor, RestrictDomain, Restrict
<1>4. \A q : RingOf(q)' = IF q = s THEN NewRing ELSE RingOf(q)
  BY <1>3 DEF RingOf, HasRing
<1>5. /\ log' = [log EXCEPT ![s] = <<>>] /\ stored' = [stored EXCEPT ![s] = <<>>]
      /\ unstored' = [unstored EXCEPT ![s] = <<>>] /\ told' = [told EXCEPT ![s] = 0]
      /\ slots' = slots \ {s} /\ dropped' = dropped \cup {s}
  BY DEF DropSensor
<1>6. drops' \in 0 .. MaxDrops
  BY <1>1, CallBoundsAssumption DEF DropSensor, EngineType
<1>7. answer'.code \in Codes /\ answer'.call # "append"
  BY DEF DropSensor, Answer, Codes
<1>8. EngineType'
  <2>1. slots' \subseteq Sensors /\ DOMAIN rings' \subseteq slots' /\ dropped' \subseteq Sensors
    BY <1>1, <1>3, <1>5 DEF EngineType
  <2>2. told' \in [Sensors -> Nat] /\ log' \in [Sensors -> Seq(Traffic)]
    BY <1>1, <1>5 DEF EngineType
  <2>3. stored' \in [Sensors -> Seq(TakenRows)] /\ unstored' \in [Sensors -> Seq(TakenRows)]
    BY <1>1, <1>5 DEF EngineType
  <2> QED
    BY <1>1, <1>2, <1>6, <1>7, <2>1, <2>2, <2>3 DEF EngineType
<1>9. RingsHold'
  <2> SUFFICES ASSUME NEW q \in Sensors
               PROVE  RingInv(RingOf(q)', log'[q], stored'[q], unstored'[q])
    BY DEF RingsHold
  <2>1. CASE q = s
    <3>1. log'[q] = <<>> /\ stored'[q] = <<>> /\ unstored'[q] = <<>>
      BY <1>1, <1>5, <2>1 DEF EngineType
    <3> QED
      BY <1>4, <2>1, <3>1, NewRingHolds
  <2>2. CASE q # s
    <3>1. log'[q] = log[q] /\ stored'[q] = stored[q] /\ unstored'[q] = unstored[q]
      BY <1>1, <1>5, <2>2 DEF EngineType
    <3> QED
      BY <1>4, <2>2, <3>1 DEF CallsInv, RingsHold
  <2> QED
    BY <2>1, <2>2
<1>10. SinkInv'
  <2> SUFFICES ASSUME NEW q \in Sensors
               PROVE  /\ told'[q] <= RingOf(q)'.lost
                      /\ told'[q] <= lastSeen[producer[q]]
                      /\ Undisturbed(q)' => told'[q] = lastSeen[producer[q]]
    BY <1>2 DEF SinkInv
  <2>1. CASE q = s
    <3>1. told'[q] = 0 /\ NewRing.lost = 0 /\ lastSeen[producer[q]] \in Nat
      BY <1>1, <1>5, <2>1 DEF EngineType, NewRing
    <3>2. ~Undisturbed(q)'
      BY <1>5, <2>1 DEF Undisturbed
    <3> QED
      BY <1>4, <2>1, <3>1, <3>2
  <2>2. CASE q # s
    <3>1. told'[q] = told[q] /\ RingOf(q)' = RingOf(q)
      BY <1>1, <1>4, <1>5, <2>2 DEF EngineType
    <3>2. Undisturbed(q)' => Undisturbed(q)
      BY <1>2, <1>5 DEF Undisturbed
    <3> QED
      BY <3>1, <3>2 DEF CallsInv, SinkInv
  <2> QED
    BY <2>1, <2>2
<1>11. AppendTold'
  BY <1>7 DEF AppendTold
<1> QED
  BY <1>8, <1>9, <1>10, <1>11 DEF CallsInv

\* Every step keeps the invariant.
LEMMA CallsStep == CallsInv /\ [Next]_vars => CallsInv'
<1> SUFFICES ASSUME CallsInv, [Next]_vars PROVE CallsInv'
  OBVIOUS
<1>1. closed \in BOOLEAN /\ answer.code \in Codes
  BY DEF CallsInv, EngineType
<1>2. ASSUME NEW e \in Traffic, AppendOne(e) PROVE CallsInv'
  BY <1>2, AppendOneKeeps
<1>3. ASSUME NEW e \in Traffic, NEW f \in Traffic, AppendBatch(e, f) PROVE CallsInv'
  BY <1>3, AppendBatchKeeps
<1>4. ASSUME NEW s \in Sensors, PreallocateSensor(s) PROVE CallsInv'
  BY <1>4, PreallocateKeeps
<1>5. ASSUME NEW s \in Sensors, DropSensor(s) PROVE CallsInv'
  BY <1>5, DropKeeps
<1>6. ASSUME NEW s \in Sensors, NEW q \in Targets, NEW n \in Counts, QueryNearestN(s, q, n)
      PROVE  CallsInv'
  <2>1. answer'.code \in Codes /\ answer'.call # "append" /\ UNCHANGED queryOnly
    BY <1>6 DEF QueryNearestN, Codes
  <2> QED
    BY <1>1, <2>1, QuietKeeps DEF queryOnly
<1>7. ASSUME NEW s \in Sensors, NEW range \in Ranges, NEW max \in Counts, QueryRange(s, range, max)
      PROVE  CallsInv'
  <2>1. answer'.code \in Codes /\ answer'.call # "append" /\ UNCHANGED queryOnly
    BY <1>7 DEF QueryRange, Codes
  <2> QED
    BY <1>1, <2>1, QuietKeeps DEF queryOnly
<1>8. ASSUME NEW s \in Sensors, NEW v \in Targets, NEW threshold \in Thresholds,
             DetectAnomaly(s, v, threshold)
      PROVE  CallsInv'
  <2>1. answer'.code \in Codes /\ answer'.call # "append" /\ UNCHANGED queryOnly
    BY <1>8 DEF DetectAnomaly, Codes
  <2> QED
    BY <1>1, <2>1, QuietKeeps DEF queryOnly
<1>9. ASSUME NEW s \in Sensors, NEW call \in Calls, NEW faults \in Faults, Refused(call, s, faults)
      PROVE  CallsInv'
  <2>1. ~Passes(call, s, faults)
    BY <1>9 DEF Refused
  <2>2. CodeOf[Checks(call)[Failing(call, s, faults)]] \in Codes
    BY <2>1, RefusedCode
  <2>3. answer'.code \in Codes /\ answer'.call # "append"
        /\ UNCHANGED <<configVars, closed, slots, rings, lastSeen, drops, log, storeVars, told, dropped>>
    BY <1>9, <2>2 DEF Refused, Answer
  <2> QED
    BY <1>1, <2>3, QuietKeeps
<1>10. CASE Flush
  <2>1. PICK taken \in Takes(TRUE), fails \in SUBSET DOMAIN rings : EvictOnce(taken, fails)
    BY <1>10 DEF Flush
  <2>2. answer'.code \in Codes /\ answer'.call # "append"
    BY <1>10 DEF Flush, Answer, Codes
  <2> QED
    BY <2>1, <2>2, PassKeeps
<1>11. CASE MaintainSlidingWindow
  <2>1. PICK taken \in Takes(FALSE), fails \in SUBSET DOMAIN rings : EvictOnce(taken, fails)
    BY <1>11 DEF MaintainSlidingWindow
  <2>2. answer'.code \in Codes /\ answer'.call # "append"
    BY <1>11 DEF MaintainSlidingWindow, Answer, Codes
  <2> QED
    BY <2>1, <2>2, PassKeeps
<1>12. ASSUME NEW max \in Counts, ListSensors(max) PROVE CallsInv'
  <2>1. answer'.code \in Codes /\ answer'.call # "append" /\ UNCHANGED queryOnly
    BY <1>12 DEF ListSensors, Answer, Codes
  <2> QED
    BY <1>1, <2>1, QuietKeeps DEF queryOnly
<1>13. CASE Close
  BY <1>13, QuietKeeps DEF Close, Answer, Codes
<1>14. CASE Return
  <2>1. answer'.code \in Codes /\ answer'.call # "append" /\ UNCHANGED queryOnly
    BY <1>14 DEF Return, NoAnswer, Answer, Codes
  <2> QED
    BY <1>1, <2>1, QuietKeeps DEF queryOnly
<1>15. ASSUME NEW s \in Sensors, NEW call \in {"append", "append_batch"}, IngestNoScratch(call, s)
       PROVE  CallsInv'
  BY <1>15, NoScratchKeeps
<1>16. ASSUME NEW s \in Sensors, NEW call \in {"query_nearest_n", "detect_anomaly"},
              QueryNoScratch(call, s)
       PROVE  CallsInv'
  <2>1. answer'.code \in Codes /\ answer'.call # "append" /\ UNCHANGED queryOnly
    BY <1>16 DEF QueryNoScratch, Answer, Codes
  <2> QED
    BY <1>1, <2>1, QuietKeeps DEF queryOnly
<1>17. CASE UNCHANGED vars
  <2>1. UNCHANGED <<int8, cosine, limit, sink, producer, closed, slots, rings, lastSeen, drops, log,
                    stored, unstored, failures, told, dropped, answer>>
    BY <1>17 DEF vars, configVars, storeVars
  <2>2. \A s : RingOf(s)' = RingOf(s)
    BY <2>1 DEF RingOf, HasRing
  <2>3. EngineType' /\ RingsHold' /\ SinkInv' /\ AppendTold'
    BY <2>1, <2>2 DEF CallsInv, EngineType, RingsHold, SinkInv, AppendTold, Undisturbed
  <2> QED
    BY <2>3 DEF CallsInv
<1> QED
  BY <1>2, <1>3, <1>4, <1>5, <1>6, <1>7, <1>8, <1>9, <1>10, <1>11, <1>12, <1>13, <1>14, <1>15,
     <1>16, <1>17 DEF Next, Call

\* It holds in every reachable state.
LEMMA Invariance == Spec => []CallsInv
BY CallsInit, CallsStep, PTL DEF Spec

-----------------------------------------------------------------------------
(* The theorems *)

\* As many numbers as rows, if no two rows have the same.
LEMMA DistinctCount ==
  ASSUME NEW n \in Nat, NEW f \in [1 .. n -> Nat],
         \A j, k \in 1 .. n : f[j] = f[k] => j = k
  PROVE  Cardinality({f[k] : k \in 1 .. n}) = n
<1> DEFINE T == {f[k] : k \in 1 .. n}
<1>1. f \in Bijection(1 .. n, T)
  BY DEF Bijection, Injection, Surjection, IsInjective
<1>2. ExistsBijection(1 .. n, T)
  BY <1>1 DEF ExistsBijection
<1> QED
  BY <1>2, FS_CountingElements

\* Every call keeps the types of the engine's and the sink's state, and answers
\* with one of the error codes.
THEOREM TypeCorrect == Spec => []TypeOK
<1>1. ASSUME CallsInv PROVE TypeOK
  <2>1. EngineType
    BY <1>1 DEF CallsInv
  <2>2. ASSUME NEW s \in DOMAIN rings
        PROVE  /\ rings[s].head \in Nat /\ rings[s].lost \in Nat
               /\ rings[s].tail \in 0 .. rings[s].head
               /\ \A i \in 0 .. Capacity - 1 : rings[s].slots[i].payload \in Payloads
    <3>1. s \in Sensors /\ RingOf(s) = rings[s]
      BY <2>1 DEF EngineType, RingOf, HasRing
    <3>2. IsRing(rings[s])
      BY <1>1, <3>1 DEF CallsInv, RingsHold, RingInv
    <3> QED
      BY <3>2 DEF IsRing
  <2> QED
    BY <2>1, <2>2 DEF TypeOK, EngineType
<1> QED
  BY <1>1, Invariance, PTL

\* on_overwrite never reports more than was lost, and all of it when there is a
\* sink and the thread feeds one sensor only (engine.cpp:581-588).
THEOREM SinkIsTold == Spec => []SinkKnowsTheLosses
<1>1. ASSUME CallsInv PROVE SinkKnowsTheLosses
  <2>1. ASSUME NEW s \in DOMAIN rings PROVE told[s] <= rings[s].lost
    <3>1. s \in Sensors /\ RingOf(s) = rings[s]
      BY <1>1 DEF CallsInv, EngineType, RingOf, HasRing
    <3> QED
      BY <1>1, <3>1 DEF CallsInv, SinkInv
  <2> QED
    BY <1>1, <2>1 DEF CallsInv, AppendTold, Undisturbed, SinkKnowsTheLosses
<1> QED
  BY <1>1, Invariance, PTL

\* Every entry is in the ring, in a block, in a block that could not be written,
\* or counted, and in one of them only (engine.cpp:1125-1193,
\* ring_buffer.h:168-176).
THEOREM EntriesAreAccountedFor == Spec => []EveryEntryIsAccountedFor
<1>1. ASSUME CallsInv PROVE EveryEntryIsAccountedFor
  <2> SUFFICES ASSUME NEW s \in DOMAIN rings
      PROVE  LET moved == stored[s] \o unstored[s]
                 ns == {moved[k].n : k \in DOMAIN moved}
             IN /\ Len(log[s]) = Cardinality(Window(rings[s])) + Cardinality(ns) + rings[s].lost
                /\ ns \cap Window(rings[s]) = {} /\ Cardinality(ns) = Len(moved)
                /\ \A k \in 2 .. Len(stored[s]) : stored[s][k - 1].n < stored[s][k].n
                /\ \A k \in DOMAIN moved : moved[k].ts = log[s][moved[k].n + 1].ts
    BY DEF EveryEntryIsAccountedFor
  <2>1. PICK r, lg, st, un : r = rings[s] /\ lg = log[s] /\ st = stored[s] /\ un = unstored[s]
    OBVIOUS
  <2>2. RingInv(r, lg, st, un)
    <3>1. s \in Sensors /\ RingOf(s) = r
      BY <1>1, <2>1 DEF CallsInv, EngineType, RingOf, HasRing
    <3> QED
      BY <1>1, <2>1, <3>1 DEF CallsInv, RingsHold
  <2>3. /\ IsRing(r) /\ Len(lg) = r.head /\ Apart(st, un)
        /\ RowsHold(st, r.tail, lg) /\ RowsHold(un, r.tail, lg)
        /\ Len(st) + Len(un) + r.lost = Begin(r)
    BY <2>2 DEF RingInv
  <2>4. PICK a \in Nat, b \in Nat : a = Len(st) /\ b = Len(un)
    BY <2>3 DEF RowsHold
  <2>5. st \in Seq(TakenRows) /\ un \in Seq(TakenRows)
    BY <2>3 DEF RowsHold
  <2>6. PICK t \in Nat : t = r.tail
    BY <2>3 DEF IsRing
  <2>7. /\ \A k \in 1 .. a : /\ st[k].n \in Nat /\ st[k].n < t
                             /\ st[k].ts = lg[st[k].n + 1].ts
        /\ \A k \in 1 .. b : /\ un[k].n \in Nat /\ un[k].n < t
                             /\ un[k].ts = lg[un[k].n + 1].ts
        /\ \A j, k \in 1 .. a : j < k => st[j].n < st[k].n
        /\ \A j, k \in 1 .. b : j < k => un[j].n < un[k].n
        /\ \A j \in 1 .. a, k \in 1 .. b : st[j].n # un[k].n
    BY <2>3, <2>4, <2>5, <2>6, RowNumbers DEF RowsHold, Apart
  <2>8. PICK moved \in Seq(TakenRows) :
          /\ moved = st \o un /\ Len(moved) = a + b
          /\ \A k \in 1 .. a + b : moved[k] = IF k <= a THEN st[k] ELSE un[k - a]
    <3>1. /\ st \o un \in Seq(TakenRows) /\ Len(st \o un) = Len(st) + Len(un)
          /\ \A k \in 1 .. Len(st) + Len(un) :
               (st \o un)[k] = IF k <= Len(st) THEN st[k] ELSE un[k - Len(st)]
      BY <2>5, ConcatProperties
    <3> QED
      BY <2>4, <3>1
  <2>9. ASSUME NEW k \in 1 .. a + b
        PROVE  \/ k \in 1 .. a /\ moved[k] = st[k]
               \/ k - a \in 1 .. b /\ moved[k] = un[k - a]
    BY <2>8
  <2>10. \A k \in 1 .. a + b : /\ moved[k].n \in Nat /\ moved[k].n < t
                               /\ moved[k].ts = lg[moved[k].n + 1].ts
    BY <2>7, <2>9
  <2>11. ASSUME NEW j \in 1 .. a + b, NEW k \in 1 .. a + b, moved[j].n = moved[k].n
         PROVE  j = k
    <3>1. CASE j \in 1 .. a /\ moved[j] = st[j] /\ k \in 1 .. a /\ moved[k] = st[k]
      <4>1. ~(st[j].n < st[k].n) /\ ~(st[k].n < st[j].n)
        BY <2>7, <2>11, <3>1
      <4>2. ~(j < k) /\ ~(k < j)
        BY <2>7, <3>1, <4>1
      <4> QED
        BY <4>2
    <3>2. CASE j \in 1 .. a /\ moved[j] = st[j] /\ k - a \in 1 .. b /\ moved[k] = un[k - a]
      BY <2>7, <2>11, <3>2
    <3>3. CASE j - a \in 1 .. b /\ moved[j] = un[j - a] /\ k \in 1 .. a /\ moved[k] = st[k]
      BY <2>7, <2>11, <3>3
    <3>4. CASE j - a \in 1 .. b /\ moved[j] = un[j - a] /\ k - a \in 1 .. b /\ moved[k] = un[k - a]
      <4>1. ~(un[j - a].n < un[k - a].n) /\ ~(un[k - a].n < un[j - a].n)
        BY <2>7, <2>11, <3>4
      <4>2. ~(j - a < k - a) /\ ~(k - a < j - a)
        BY <2>7, <3>4, <4>1
      <4> QED
        BY <4>2
    <3> QED
      BY <2>9, <3>1, <3>2, <3>3, <3>4
  <2>12. PICK f \in [1 .. a + b -> Nat] : \A k \in 1 .. a + b : f[k] = moved[k].n
    <3> DEFINE g == [k \in 1 .. a + b |-> moved[k].n]
    <3>1. g \in [1 .. a + b -> Nat] /\ \A k \in 1 .. a + b : g[k] = moved[k].n
      BY <2>10
    <3> QED
      BY <3>1
  <2>13. Cardinality({f[k] : k \in 1 .. a + b}) = a + b
    <3>1. \A j, k \in 1 .. a + b : f[j] = f[k] => j = k
      BY <2>11, <2>12
    <3> QED
      BY <3>1, DistinctCount, SMTT(30)
  <2>14. PICK ns : ns = {moved[k].n : k \in DOMAIN moved}
    OBVIOUS
  <2>15. DOMAIN moved = 1 .. a + b
    BY <2>8
  <2>16. ns = {f[k] : k \in 1 .. a + b}
    BY <2>12, <2>14, <2>15
  <2>17. Cardinality(ns) = a + b
    BY <2>13, <2>16
  <2>18. PICK h \in Nat, from \in Nat :
           h = r.head /\ from = Begin(r) /\ t <= from /\ Window(r) = from .. h - 1
           /\ Cardinality(Window(r)) = h - from
    BY <2>3, <2>6, BeginIs, SMTT(30) DEF IsRing
  <2>19. Len(lg) = Cardinality(Window(r)) + Cardinality(ns) + r.lost
    <3>1. a + b + r.lost = from /\ r.lost \in Nat /\ Len(lg) = h
      BY <2>3, <2>4, <2>18 DEF IsRing
    <3> QED
      BY <2>17, <2>18, <3>1, SMTT(30)
  <2>20. ns \cap Window(r) = {}
    <3>1. \A n \in ns : n \in Nat /\ n < t
      BY <2>10, <2>14, <2>15
    <3> QED
      BY <2>18, <3>1
  <2>21. \A k \in 2 .. Len(st) : st[k - 1].n < st[k].n
    BY <2>4, <2>7
  <2> QED
    BY <2>1, <2>8, <2>10, <2>14, <2>15, <2>17, <2>19, <2>20, <2>21
<1> QED
  BY <1>1, Invariance, PTL

\* A stored payload is the entry's own, or what its slot held before it
\* (ring_buffer.h:208-210).
THEOREM PayloadsAreOwnOrStale == Spec => []PayloadIsOwnOrStale
<1>1. ASSUME CallsInv PROVE PayloadIsOwnOrStale
  <2> SUFFICES ASSUME NEW s \in DOMAIN rings, NEW row \in ToSet(stored[s])
               PROVE  row.payload = Stale(log[s], row.n)
    BY DEF PayloadIsOwnOrStale, Stale, Given
  <2>1. s \in Sensors
    BY <1>1 DEF CallsInv, EngineType
  <2>2. RowsHold(stored[s], RingOf(s).tail, log[s])
    BY <1>1, <2>1 DEF CallsInv, RingsHold, RingInv
  <2>3. PICK k \in 1 .. Len(stored[s]) : row = stored[s][k]
    BY <2>2 DEF RowsHold, ToSet
  <2> QED
    BY <2>2, <2>3 DEF RowsHold
<1> QED
  BY <1>1, Invariance, PTL

-----------------------------------------------------------------------------
(* The rows of query_range *)

\* Timestamps that ascend from one entry to the next ascend altogether.
LEMMA Ascends ==
  ASSUME NEW h \in Nat, NEW f \in [0 .. h - 1 -> Int],
         \A i \in 1 .. h - 1 : f[i - 1] < f[i]
  PROVE  \A i, j \in 0 .. h - 1 : i < j => f[i] < f[j]
<1> DEFINE Bad == {j \in 0 .. h - 1 : \E i \in 0 .. j - 1 : ~(f[i] < f[j])}
<1>1. ASSUME Bad # {} PROVE FALSE
  <2>1. PICK j \in Bad : \A k \in Bad : j <= k
    <3>1. Bad \subseteq Nat
      OBVIOUS
    <3> HIDE DEF Bad
    <3> QED
      BY <1>1, <3>1, LeastNat
  <2>2. j \in 0 .. h - 1
    BY <2>1
  <2>3. PICK i \in 0 .. j - 1 : ~(f[i] < f[j])
    BY <2>1
  <2>4. j \in 1 .. h - 1 /\ j - 1 \in 0 .. h - 1 /\ i \in 0 .. h - 1
    BY <2>2, <2>3
  <2>5. f[j - 1] < f[j] /\ f[i] \in Int /\ f[j - 1] \in Int /\ f[j] \in Int
    BY <2>4
  <2>6. i # j - 1
    BY <2>3, <2>5
  <2>7. i \in 0 .. (j - 1) - 1
    BY <2>2, <2>3, <2>6
  <2>8. j - 1 \notin Bad
    BY <2>1, <2>2
  <2>9. f[i] < f[j - 1]
    BY <2>4, <2>7, <2>8
  <2> QED
    BY <2>3, <2>5, <2>9
<1>2. \A j \in 0 .. h - 1 : \A i \in 0 .. j - 1 : f[i] < f[j]
  <2>1. \A j : j \notin Bad
    BY <1>1
  <2> QED
    BY <2>1
<1> QED
  BY <1>2

\* How many of H are before n.
Rank(H, n) == Cardinality({m \in H : m < n})

\* It tells the elements of H apart.
LEMMA RankIs ==
  ASSUME NEW H, H \subseteq Nat, IsFiniteSet(H), NEW n \in H
  PROVE  /\ Rank(H, n) \in 0 .. Cardinality(H) - 1
         /\ \A i \in H : Rank(H, i) = Rank(H, n) => i = n
         /\ (CHOOSE i \in H : Rank(H, i) = Rank(H, n)) = n
<1> DEFINE Before(i) == {m \in H : m < i}
<1>1. ASSUME NEW i \in H, NEW U, IsFiniteSet(U), U \subseteq H, Before(i) \subseteq U, i \in U
      PROVE  Rank(H, i) \in Nat /\ Cardinality(U) \in Nat /\ Rank(H, i) < Cardinality(U)
  <2>1. Before(i) \in SUBSET U /\ Before(i) # U
    BY <1>1
  <2>2. IsFiniteSet(Before(i)) /\ Cardinality(Before(i)) <= Cardinality(U)
        /\ Cardinality(Before(i)) # Cardinality(U)
    <3> HIDE DEF Before
    <3> QED
      BY <1>1, <2>1, FS_Subset
  <2>3. Cardinality(Before(i)) \in Nat /\ Cardinality(U) \in Nat
    BY <1>1, <2>2, FS_CardinalityType
  <2>4. Rank(H, i) = Cardinality(Before(i))
    BY DEF Rank
  <2> QED
    BY <2>2, <2>3, <2>4
<1>2. Rank(H, n) \in 0 .. Cardinality(H) - 1
  <2>1. Before(n) \subseteq H
    OBVIOUS
  <2>2. Rank(H, n) \in Nat /\ Cardinality(H) \in Nat /\ Rank(H, n) < Cardinality(H)
    BY <1>1, <2>1
  <2> QED
    BY <2>2
<1>3. ASSUME NEW i \in H, NEW j \in H, i < j PROVE Rank(H, i) # Rank(H, j)
  <2>1. IsFiniteSet(Before(j))
    BY FS_Subset
  <2>2. Before(j) \subseteq H /\ Before(i) \subseteq Before(j) /\ i \in Before(j)
    <3>1. i \in Nat /\ j \in Nat
      OBVIOUS
    <3>2. ASSUME NEW m \in H, m < i PROVE m < j
      <4>1. m \in Nat
        OBVIOUS
      <4> QED
        BY <1>3, <3>1, <3>2, <4>1
    <3> QED
      BY <1>3, <3>2
  <2>3. Rank(H, i) \in Nat /\ Cardinality(Before(j)) \in Nat /\ Rank(H, i) < Cardinality(Before(j))
    BY <1>1, <2>1, <2>2
  <2> QED
    BY <2>3 DEF Rank
<1>4. ASSUME NEW i \in H, Rank(H, i) = Rank(H, n) PROVE i = n
  <2>1. ~(i < n) /\ ~(n < i)
    BY <1>3, <1>4
  <2> QED
    BY <2>1
<1> QED
  BY <1>2, <1>4

\* A scan that stops at `max` rows and has put out fewer was over everything.
LEMMA ScanIsWhole ==
  ASSUME NEW b \in Nat, NEW h \in Nat, NEW In, NEW max \in Nat,
         NEW scanned, scanned = {i \in b .. h - 1 : Cardinality({j \in b .. i - 1 : j \in In}) < max},
         Cardinality(scanned \cap In) < max
  PROVE  scanned = b .. h - 1
<1> DEFINE left == (b .. h - 1) \ scanned
<1> SUFFICES ASSUME left # {} PROVE FALSE
  OBVIOUS
<1>1. PICK i \in left : \A k \in left : i <= k
  <2>1. left \subseteq Nat
    OBVIOUS
  <2> HIDE DEF left
  <2> QED
    BY <2>1, LeastNat
<1>2. i \in b .. h - 1 /\ ~(Cardinality({j \in b .. i - 1 : j \in In}) < max)
  BY <1>1
<1>3. \A j \in b .. i - 1 : j \in scanned
  BY <1>1, <1>2
<1> DEFINE some == {j \in b .. i - 1 : j \in In}
<1>4. some \in SUBSET (scanned \cap In)
  BY <1>3
<1>5. IsFiniteSet(scanned \cap In)
  <2>1. IsFiniteSet(b .. h - 1)
    BY FS_Interval
  <2> QED
    BY <2>1, FS_Subset
<1>6. Cardinality(some) <= Cardinality(scanned \cap In) /\ IsFiniteSet(some)
  <2> HIDE DEF some
  <2> QED
    BY <1>4, <1>5, FS_Subset
<1>7. Cardinality(some) \in Nat /\ Cardinality(scanned \cap In) \in Nat
  BY <1>5, <1>6, FS_CardinalityType
<1> QED
  BY <1>2, <1>6, <1>7

\* A slot has a vector, quantized if i8, and what the kernels need of it.
HoldsVec(i8, slot, v) ==
  /\ slot.vec = IF i8 THEN Quantized(v).q ELSE v
  /\ i8 => slot.max = MaxAbs(v)
  /\ slot.norm = Norm(v)

\* The slots have the vectors of the last entries.
SlotVecs(i8, r, lg) ==
  \A i \in 0 .. r.head - 1 : i >= r.head - Capacity => HoldsVec(i8, At(r, i), lg[i + 1].vec)

\* What a query that is not truncated and not cut off puts out is every entry
\* ever appended with a timestamp in the range.
LEMMA HitsAreWhole ==
  ASSUME NEW r, NEW lg \in Seq(Traffic), IsRing(r), Len(lg) = r.head, SlotsHold(r, lg),
         SlotVecs(int8, r, lg), Begin(r) < r.head,
         \A i \in 2 .. Len(lg) : lg[i - 1].ts < lg[i].ts,
         NEW range \in Int \X Int, NEW max \in Nat, ~Truncated(r, range, max),
         NEW hits, hits = {i \in Scanned(r, range, max) : At(r, i).ts \in range[1] .. range[2]},
         Cardinality(hits) < max
  PROVE  /\ hits = {n \in 0 .. Len(lg) - 1 : lg[n + 1].ts \in range[1] .. range[2]}
         /\ IsFiniteSet(hits) /\ hits \subseteq Nat
         /\ \A n \in hits :
              RangeRow(At(r, n)) = [ts |-> lg[n + 1].ts, vec |-> IF int8 THEN Garbage ELSE lg[n + 1].vec]
<1>1. PICK b \in Nat, h \in Nat :
        b = Begin(r) /\ h = r.head /\ b < h /\ h - b <= Capacity /\ Window(r) = b .. h - 1
  <2>1. r.head \in Nat /\ r.tail \in 0 .. r.head /\ Capacity \in Nat
    BY SlotsAssumption DEF IsRing
  <2>2. /\ Begin(r) \in r.tail .. r.head /\ r.head - Begin(r) \in 0 .. Capacity
        /\ Window(r) = Begin(r) .. r.head - 1
    BY BeginIs
  <2> QED
    BY <2>1, <2>2
<1>2. Capacity \in Nat
  BY SlotsAssumption
<1>3. PICK lo \in Int, hi \in Int : lo = range[1] /\ hi = range[2]
  OBVIOUS
<1>4. PICK f \in [0 .. h - 1 -> Int] : \A i \in 0 .. h - 1 : f[i] = lg[i + 1].ts
  <2> DEFINE g == [i \in 0 .. h - 1 |-> lg[i + 1].ts]
  <2>1. \A i \in 0 .. h - 1 : lg[i + 1] \in Traffic
    BY <1>1
  <2>2. g \in [0 .. h - 1 -> Int] /\ \A i \in 0 .. h - 1 : g[i] = lg[i + 1].ts
    BY <2>1, TrafficFields
  <2> QED
    BY <2>2
<1>5. \A i, j \in 0 .. h - 1 : i < j => f[i] < f[j]
  <2>1. ASSUME NEW i \in 1 .. h - 1 PROVE f[i - 1] < f[i]
    <3>1. i - 1 \in 0 .. h - 1 /\ i \in 0 .. h - 1 /\ (i - 1) + 1 = i
      OBVIOUS
    <3>2. lg[i].ts < lg[i + 1].ts
      <4>1. Len(lg) = h
        BY <1>1
      <4>2. PICK k \in 2 .. h : k = i + 1
        OBVIOUS
      <4>3. lg[k - 1].ts < lg[k].ts /\ k - 1 = i
        BY <4>1, <4>2
      <4> QED
        BY <4>2, <4>3
    <3> QED
      BY <1>4, <3>1, <3>2
  <2> QED
    BY <2>1, Ascends
<1>6. ASSUME NEW i \in b .. h - 1
      PROVE  i \in 0 .. h - 1 /\ At(r, i).ts = f[i] /\ (~int8 => At(r, i).vec = lg[i + 1].vec)
  <2>1. i \in 0 .. r.head - 1 /\ i >= r.head - Capacity
    BY <1>1, <1>2
  <2>2. i \in 0 .. h - 1 /\ At(r, i).ts = f[i]
    BY <1>1, <1>4, <2>1 DEF SlotsHold
  <2>3. HoldsVec(int8, At(r, i), lg[i + 1].vec)
    BY <2>1 DEF SlotVecs
  <2> QED
    BY <2>2, <2>3 DEF HoldsVec
<1>7. PICK In : In = {i \in b .. h - 1 : f[i] \in lo .. hi}
  OBVIOUS
<1>8. PICK scanned : scanned = Scanned(r, range, max)
  OBVIOUS
<1>9. scanned = {i \in b .. h - 1 : Cardinality({j \in b .. i - 1 : j \in In}) < max}
  <2>1. ASSUME NEW i \in b .. h - 1
        PROVE  {j \in Begin(r) .. i - 1 : At(r, j).ts \in range[1] .. range[2]}
                 = {j \in b .. i - 1 : j \in In}
    <3>1. \A j \in b .. i - 1 : j \in b .. h - 1
      BY <1>1
    <3> QED
      BY <1>1, <1>3, <1>6, <1>7, <3>1
  <2> QED
    BY <1>1, <1>8, <2>1 DEF Scanned
<1>10. hits = scanned \cap In
  <2>1. scanned \subseteq b .. h - 1
    BY <1>9
  <2> QED
    BY <1>3, <1>6, <1>7, <1>8, <2>1
<1>11. scanned = b .. h - 1
  <2>1. Cardinality(scanned \cap In) < max
    BY <1>10
  <2> QED
    BY <1>9, <2>1, ScanIsWhole, Zenon
<1>12. f[b] <= lo
  <2> DEFINE T == {At(r, i).ts : i \in scanned}
  <2>1. T = {f[i] : i \in b .. h - 1}
    <3>1. \A i \in b .. h - 1 : At(r, i).ts = f[i]
      BY <1>6
    <3>2. T = {At(r, i).ts : i \in b .. h - 1}
      BY <1>11
    <3> HIDE DEF T
    <3> QED
      BY <3>1, <3>2, Zenon
  <2>2. b \in b .. h - 1
    BY <1>1
  <2>3. \A i \in b .. h - 1 : f[i] \in Int /\ f[b] <= f[i]
    <3> SUFFICES ASSUME NEW i \in b .. h - 1 PROVE f[i] \in Int /\ f[b] <= f[i]
      OBVIOUS
    <3>1. b \in 0 .. h - 1 /\ i \in 0 .. h - 1 /\ (b = i \/ b < i)
      BY <1>1
    <3>2. f[b] \in Int /\ f[i] \in Int
      BY <3>1
    <3> QED
      BY <1>5, <3>1, <3>2
  <2>4. f[b] \in T /\ T \subseteq Int /\ \A y \in T : f[b] <= y
    BY <2>1, <2>2, <2>3
  <2>5. Min(T) = f[b]
    <3> HIDE DEF T
    <3> QED
      BY <2>4 DEF Min
  <2>6. Window(r) # {}
    BY <1>1, <2>2
  <2>7. ~(range[1] < Min(T))
    BY <1>8, <2>6 DEF Truncated
  <2>8. f[b] \in Int
    BY <2>2, <2>3
  <2> QED
    BY <1>3, <2>5, <2>7, <2>8
<1>13. hits = {n \in 0 .. Len(lg) - 1 : lg[n + 1].ts \in range[1] .. range[2]}
  <2>1. ASSUME NEW n \in 0 .. h - 1, f[n] \in lo .. hi PROVE n \in b .. h - 1
    <3>1. CASE n < b
      <4>1. b \in 0 .. h - 1
        BY <1>1
      <4>2. f[n] < f[b] /\ f[n] \in Int /\ f[b] \in Int
        BY <1>5, <3>1, <4>1
      <4> QED
        BY <1>12, <2>1, <4>2
    <3>2. CASE ~(n < b)
      BY <3>2
    <3> QED
      BY <3>1, <3>2
  <2>2. hits = {i \in b .. h - 1 : f[i] \in lo .. hi}
    BY <1>7, <1>10, <1>11
  <2>3. \A n \in b .. h - 1 : n \in 0 .. h - 1
    OBVIOUS
  <2>4. hits = {n \in 0 .. h - 1 : f[n] \in lo .. hi}
    BY <2>1, <2>2, <2>3
  <2> QED
    BY <1>1, <1>3, <1>4, <2>4
<1>14. IsFiniteSet(hits) /\ hits \subseteq Nat
  <2>1. IsFiniteSet(b .. h - 1)
    BY FS_Interval
  <2>2. hits \in SUBSET (b .. h - 1) /\ b .. h - 1 \subseteq Nat
    BY <1>10, <1>11
  <2> QED
    BY <2>1, <2>2, FS_Subset
<1>15. ASSUME NEW n \in hits
       PROVE  RangeRow(At(r, n)) = [ts |-> lg[n + 1].ts, vec |-> IF int8 THEN Garbage ELSE lg[n + 1].vec]
  <2>1. n \in b .. h - 1
    BY <1>10, <1>11
  <2> QED
    BY <1>4, <1>6, <2>1 DEF RangeRow
<1> QED
  BY <1>13, <1>14, <1>15

\* While the ring is not empty.
LEMMA HeldIsWindow ==
  ASSUME NEW s \in Sensors, NEW r, r = RingOf(s), IsRing(r), Held(s) # <<>>
  PROVE  Begin(r) < r.head
<1>1. PICK b \in Nat, h \in Nat : b = Begin(r) /\ h = r.head /\ b <= h
  BY BeginIs DEF IsRing
<1>2. ASSUME b = h PROVE FALSE
  <2>1. SubSeq(log[s], b + 1, h) = <<>>
    <3>1. b + 1 \in Int /\ h \in Int /\ h < b + 1
      BY <1>2
    <3> QED
      BY <3>1, SubSeqEmpty
  <2> QED
    BY <1>1, <2>1 DEF Held
<1> QED
  BY <1>1, <1>2

\* An append puts the entry's vector into its slot, and none into another.
LEMMA AppendedVecs ==
  ASSUME NEW r, IsRing(r), NEW lg \in Seq(Traffic), Len(lg) = r.head, NEW e \in Traffic,
         SlotVecs(int8, r, lg)
  PROVE  SlotVecs(int8, Appended(r, e), Append(lg, e))
<1>1. PICK new : new = Appended(r, e)
  OBVIOUS
<1>2. PICK h \in Nat : h = r.head /\ h = Len(lg)
  BY DEF IsRing
<1>3. new.head = h + 1 /\ \A i \in 0 .. Capacity - 1 : i # h % Capacity => new.slots[i] = r.slots[i]
  <2>1. /\ IsRing(new)
        /\ new.head = r.head + 1 /\ new.tail = r.tail
        /\ new.lost = IF r.head - r.tail >= Capacity THEN r.lost + 1 ELSE r.lost
        /\ new.slots[r.head % Capacity].ts = e.ts
        /\ new.slots[r.head % Capacity].payload
             = IF e.payload THEN [of |-> r.head] ELSE r.slots[r.head % Capacity].payload
        /\ \A i \in 0 .. Capacity - 1 : i # r.head % Capacity => new.slots[i] = r.slots[i]
    BY <1>1, AppendedIs
  <2> QED
    BY <1>2, <2>1
<1>4. HoldsVec(int8, new.slots[h % Capacity], e.vec)
  <2>1. h % Capacity \in 0 .. Capacity - 1
    BY SlotIn
  <2>2. new.slots[h % Capacity] = SlotWith(r.slots[h % Capacity], e, h)
    BY <1>1, <1>2, <2>1 DEF Appended, IsRing
  <2> QED
    BY <2>2 DEF SlotWith, HoldsVec
<1>5. PICK all \in Seq(Traffic) : /\ all = Append(lg, e) /\ all[h + 1] = e
                                  /\ \A j \in 1 .. h : all[j] = lg[j]
  <2>1. /\ Append(lg, e) \in Seq(Traffic) /\ Append(lg, e)[Len(lg) + 1] = e
        /\ \A j \in 1 .. Len(lg) : Append(lg, e)[j] = lg[j]
    BY AppendProperties
  <2> QED
    BY <1>2, <2>1
<1>6. ASSUME NEW i \in 0 .. h, i >= h + 1 - Capacity
      PROVE  HoldsVec(int8, At(new, i), all[i + 1].vec)
  <2>1. CASE i = h
    BY <1>4, <1>5, <2>1 DEF At
  <2>2. CASE i # h
    <3>1. i \in 0 .. h - 1 /\ i < h /\ h < i + Capacity /\ i >= h - Capacity /\ i + 1 \in 1 .. h
      BY <1>6, <2>2, SlotsAssumption
    <3>2. i % Capacity # h % Capacity /\ i % Capacity \in 0 .. Capacity - 1
      BY <3>1, SlotDistinct, SlotIn
    <3>3. At(new, i) = At(r, i)
      BY <1>3, <3>2 DEF At
    <3> QED
      BY <1>2, <1>5, <3>1, <3>3 DEF SlotVecs
  <2> QED
    BY <2>1, <2>2
<1>7. SlotVecs(int8, new, all)
  <2> SUFFICES ASSUME NEW i \in 0 .. new.head - 1, i >= new.head - Capacity
               PROVE  HoldsVec(int8, At(new, i), all[i + 1].vec)
    BY DEF SlotVecs
  <2>1. new.head - 1 = h /\ new.head - Capacity = h + 1 - Capacity
    BY <1>3, SlotsAssumption
  <2> QED
    BY <1>6, <2>1
<1> QED
  BY <1>1, <1>5, <1>7

VecsHold == \A s \in Sensors : SlotVecs(int8, RingOf(s), log[s])

\* There are none at first.
LEMMA VecsInit == Init => VecsHold
<1>1. Init => \A s : RingOf(s) = NewRing
  BY DEF Init, RingOf, HasRing
<1>2. \A lg : SlotVecs(int8, NewRing, lg)
  BY DEF SlotVecs, NewRing
<1> QED
  BY <1>1, <1>2 DEF VecsHold

\* A call that gives a sensor a ring, or its ring an entry.
LEMMA RegisterVecs ==
  ASSUME CallsInv, VecsHold, NEW s \in Sensors, NEW r, NEW lg, Register(s, r),
         SlotVecs(int8, r, lg), log' = [log EXCEPT ![s] = lg], UNCHANGED configVars
  PROVE  VecsHold'
<1>1. int8' = int8
  BY DEF configVars
<1>2. EngineType
  BY DEF CallsInv
<1>3. \A q \in Sensors : RingOf(q)' = IF q = s THEN r ELSE RingOf(q)
  BY <1>2, RegisterGives DEF EngineType
<1>4. \A q \in Sensors : log'[q] = IF q = s THEN lg ELSE log[q]
  BY <1>2 DEF EngineType
<1> QED
  BY <1>1, <1>3, <1>4 DEF VecsHold

\* Every step keeps the vectors.
LEMMA VecsStep == CallsInv /\ VecsHold /\ [Next]_vars => VecsHold'
<1> SUFFICES ASSUME CallsInv, VecsHold, [Next]_vars PROVE VecsHold'
  OBVIOUS
<1>1. \A s \in Sensors : /\ RingInv(RingOf(s), log[s], stored[s], unstored[s])
                         /\ IsRing(RingOf(s)) /\ log[s] \in Seq(Traffic)
                         /\ Len(log[s]) = RingOf(s).head
  BY DEF CallsInv, RingsHold, RingInv
<1>2. ASSUME NEW e \in Traffic, AppendOne(e) PROVE VecsHold'
  <2>1. PICK s \in Sensors : s = e.s
    BY TrafficFields
  <2>2. SlotVecs(int8, Appended(RingOf(s), e), Append(log[s], e))
    BY <1>1, AppendedVecs DEF VecsHold
  <2>3. /\ Register(s, Appended(RingOf(s), e)) /\ UNCHANGED configVars
        /\ log' = [log EXCEPT ![s] = Append(log[s], e)]
    BY <1>2, <2>1 DEF AppendOne
  <2> QED
    BY <2>2, <2>3, RegisterVecs
<1>3. ASSUME NEW e \in Traffic, NEW f \in Traffic, AppendBatch(e, f) PROVE VecsHold'
  <2>1. PICK s \in Sensors : s = e.s
    BY TrafficFields
  <2>2. PICK mid, lg : mid = Appended(RingOf(s), e) /\ lg = Append(log[s], e)
    OBVIOUS
  <2>3. RingInv(mid, lg, stored[s], unstored[s])
    BY <1>1, <2>2, AppendKeeps
  <2>4. IsRing(mid) /\ lg \in Seq(Traffic) /\ Len(lg) = mid.head
    BY <2>3 DEF RingInv
  <2>5. SlotVecs(int8, mid, lg)
    BY <1>1, <2>2, AppendedVecs DEF VecsHold
  <2>6. SlotVecs(int8, Appended(mid, f), Append(lg, f))
    BY <2>4, <2>5, AppendedVecs
  <2>7. /\ Register(s, Appended(mid, f)) /\ UNCHANGED configVars
        /\ log' = [log EXCEPT ![s] = Append(lg, f)]
    BY <1>3, <2>1, <2>2 DEF AppendBatch
  <2> QED
    BY <2>6, <2>7, RegisterVecs
<1>4. ASSUME NEW s \in Sensors, PreallocateSensor(s) PROVE VecsHold'
  <2>1. SlotVecs(int8, RingOf(s), log[s])
    BY DEF VecsHold
  <2>2. Register(s, RingOf(s)) /\ UNCHANGED configVars /\ log' = [log EXCEPT ![s] = log[s]]
    BY <1>4 DEF PreallocateSensor, CallsInv, EngineType
  <2> QED
    BY <2>1, <2>2, RegisterVecs
<1>5. ASSUME NEW s \in Sensors, DropSensor(s) PROVE VecsHold'
  <2>1. int8' = int8 /\ log' = [log EXCEPT ![s] = <<>>]
    BY <1>5 DEF DropSensor, configVars
  <2>2. \A q : RingOf(q)' = IF q = s THEN NewRing ELSE RingOf(q)
    BY <1>5 DEF DropSensor, RestrictDomain, Restrict, RingOf, HasRing
  <2>3. \A q \in Sensors : log'[q] = IF q = s THEN <<>> ELSE log[q]
    BY <2>1 DEF CallsInv, EngineType
  <2>4. SlotVecs(int8, NewRing, <<>>)
    BY DEF SlotVecs, NewRing
  <2> QED
    BY <2>1, <2>2, <2>3, <2>4 DEF VecsHold
<1>6. ASSUME NEW all, NEW taken \in Takes(all), NEW fails, EvictOnce(taken, fails) PROVE VecsHold'
  <2>1. int8' = int8 /\ log' = log
    BY <1>6 DEF EvictOnce, configVars
  <2>2. ASSUME NEW s \in Sensors
        PROVE  RingOf(s)'.head = RingOf(s).head /\ RingOf(s)'.slots = RingOf(s).slots
    <3>1. CASE s \notin DOMAIN rings
      BY <1>6, <3>1 DEF EvictOnce, RingOf, HasRing
    <3>2. CASE s \in DOMAIN rings
      <4>1. PICK r : r = RingOf(s) /\ r = rings[s] /\ IsRing(r)
        BY <1>1, <3>2 DEF RingOf, HasRing
      <4>2. \E tail : RingOf(s)' = [r EXCEPT !.tail = tail]
        BY <1>6, <3>2, <4>1 DEF EvictOnce, RingOf, HasRing
      <4> QED
        BY <4>1, <4>2 DEF IsRing
    <3> QED
      BY <3>1, <3>2
  <2>3. \A s \in Sensors : SlotVecs(int8, RingOf(s), log[s]) => SlotVecs(int8, RingOf(s)', log[s])
    BY <2>2 DEF SlotVecs, At
  <2> QED
    BY <2>1, <2>3 DEF VecsHold
<1>7. ASSUME UNCHANGED <<int8, rings, log>> PROVE VecsHold'
  BY <1>7 DEF VecsHold, RingOf, HasRing
<1>8. ASSUME UNCHANGED queryOnly PROVE VecsHold'
  BY <1>7, <1>8 DEF queryOnly, configVars
<1>9. ASSUME NEW s \in Sensors, NEW q \in Targets, NEW n \in Counts, QueryNearestN(s, q, n)
      PROVE  VecsHold'
  BY <1>8, <1>9 DEF QueryNearestN
<1>10. ASSUME NEW s \in Sensors, NEW range \in Ranges, NEW max \in Counts, QueryRange(s, range, max)
       PROVE  VecsHold'
  BY <1>8, <1>10 DEF QueryRange
<1>11. ASSUME NEW s \in Sensors, NEW v \in Targets, NEW threshold \in Thresholds,
              DetectAnomaly(s, v, threshold)
       PROVE  VecsHold'
  BY <1>8, <1>11 DEF DetectAnomaly
<1>12. ASSUME NEW s \in Sensors, NEW call \in Calls, NEW faults \in Faults, Refused(call, s, faults)
       PROVE  VecsHold'
  BY <1>7, <1>12 DEF Refused, configVars
<1>13. CASE Flush
  BY <1>6, <1>13 DEF Flush
<1>14. CASE MaintainSlidingWindow
  BY <1>6, <1>14 DEF MaintainSlidingWindow
<1>15. ASSUME NEW max \in Counts, ListSensors(max) PROVE VecsHold'
  BY <1>8, <1>15 DEF ListSensors
<1>16. CASE Close
  BY <1>7, <1>16 DEF Close, configVars
<1>17. CASE Return
  BY <1>8, <1>17 DEF Return
<1>18. ASSUME NEW s \in Sensors, NEW call, IngestNoScratch(call, s) PROVE VecsHold'
  <2>1. SlotVecs(int8, RingOf(s), log[s])
    BY DEF VecsHold
  <2>2. Register(s, RingOf(s)) /\ UNCHANGED configVars /\ log' = [log EXCEPT ![s] = log[s]]
    BY <1>18 DEF IngestNoScratch, CallsInv, EngineType
  <2> QED
    BY <2>1, <2>2, RegisterVecs
<1>19. ASSUME NEW s \in Sensors, NEW call, QueryNoScratch(call, s) PROVE VecsHold'
  BY <1>8, <1>19 DEF QueryNoScratch
<1>20. CASE UNCHANGED vars
  BY <1>7, <1>20 DEF vars, configVars
<1> QED
  BY <1>2, <1>3, <1>4, <1>5, <1>9, <1>10, <1>11, <1>12, <1>13, <1>14, <1>15, <1>16, <1>17, <1>18,
     <1>19, <1>20 DEF Next, Call

\* What RangeOkIsComplete says of the rows of an answer.
IsWholeRange(all, held, range, rows, i8) ==
  LET inRange == {n \in 0 .. Len(all) - 1 : all[n + 1].ts \in range[1] .. range[2]}
  IN held # <<>> /\ (\A i \in 2 .. Len(all) : all[i - 1].ts < all[i].ts) =>
       /\ Len(rows) = Cardinality(inRange)
       /\ \A n \in inRange :
            rows[Cardinality({m \in inRange : m < n}) + 1] =
                [ts |-> all[n + 1].ts, vec |-> IF i8 THEN Garbage ELSE all[n + 1].vec]

\* RangeOkIsComplete by IsWholeRange, after a step.
LEMMA RangeDef ==
  RangeOkIsComplete' <=>
    (answer'.call = "query_range" /\ answer'.code = "OK" /\ Len(answer'.rows) < answer'.max =>
       IsWholeRange(log'[answer'.s], Held(answer.s)', answer'.range, answer'.rows, int8'))
BY Zenon DEF RangeOkIsComplete, IsWholeRange

\* Engine::QueryRange.
LEMMA QueryRangeIsWhole ==
  ASSUME CallsInv, VecsHold, NEW s \in Sensors, NEW range \in Ranges, NEW max \in Counts,
         QueryRange(s, range, max)
  PROVE  RangeOkIsComplete'
<1>1. PICK r, lg : r = RingOf(s) /\ lg = log[s]
  OBVIOUS
<1>2. /\ IsRing(r) /\ lg \in Seq(Traffic) /\ Len(lg) = r.head /\ SlotsHold(r, lg)
      /\ SlotVecs(int8, r, lg)
  BY <1>1 DEF CallsInv, RingsHold, RingInv, VecsHold
<1>3. PICK hits : hits = {i \in Scanned(r, range, max) : At(r, i).ts \in range[1] .. range[2]}
  OBVIOUS
<1>4. PICK rows : rows = [k \in 1 .. Cardinality(hits) |->
                            RangeRow(At(r, CHOOSE i \in hits : Rank(hits, i) = k - 1))]
  OBVIOUS
<1>5. answer' = [call |-> "query_range",
                 code |-> IF Truncated(r, range, max) THEN "RANGE_TRUNCATED" ELSE "OK",
                 s |-> s, range |-> range, max |-> max, rows |-> rows]
  BY <1>1, <1>3, <1>4 DEF QueryRange, Rank
<1>6. UNCHANGED <<int8, rings, log>>
  BY DEF QueryRange, queryOnly, configVars
<1>7. Held(s)' = Held(s)
  BY <1>6 DEF Held, RingOf, HasRing
<1>8. range \in Int \X Int /\ max \in Nat
  <2>1. Ranges \subseteq Int \X Int /\ Counts \subseteq Nat
    BY QueriesAssumption
  <2> QED
    BY <2>1, Zenon
<1>9. Cardinality(hits) \in Nat /\ Len(rows) = Cardinality(hits)
  <2>1. PICK b \in Nat, h \in Nat : Window(r) = b .. h - 1
    <3>1. Begin(r) \in Nat /\ r.head \in Nat /\ Window(r) = Begin(r) .. r.head - 1
      <4>1. r.head \in Nat /\ r.tail \in 0 .. r.head
        BY <1>2 DEF IsRing
      <4>2. Begin(r) \in r.tail .. r.head /\ Window(r) = Begin(r) .. r.head - 1
        BY <1>2, BeginIs
      <4> QED
        BY <4>1, <4>2
    <3> QED
      BY <3>1
  <2>2. IsFiniteSet(b .. h - 1) /\ hits \in SUBSET (b .. h - 1)
    <3>1. IsFiniteSet(b .. h - 1)
      BY FS_Interval
    <3> QED
      BY <1>3, <2>1, <3>1 DEF Scanned
  <2>3. Cardinality(hits) \in Nat
    BY <2>2, FS_Subset, FS_CardinalityType
  <2> QED
    BY <1>4, <2>3
<1> SUFFICES ASSUME answer'.code = "OK", Len(rows) < max, Held(s) # <<>>,
                    \A i \in 2 .. Len(lg) : lg[i - 1].ts < lg[i].ts
             PROVE  LET inRange == {n \in 0 .. Len(lg) - 1 : lg[n + 1].ts \in range[1] .. range[2]}
                    IN /\ Len(rows) = Cardinality(inRange)
                       /\ \A n \in inRange :
                            rows[Cardinality({m \in inRange : m < n}) + 1] =
                                [ts |-> lg[n + 1].ts,
                                 vec |-> IF int8 THEN Garbage ELSE lg[n + 1].vec]
  <2>1. /\ answer'.s = s /\ answer'.range = range /\ answer'.max = max /\ answer'.rows = rows
        /\ log'[answer'.s] = lg /\ int8' = int8
    BY <1>1, <1>5, <1>6
  <2>2. Held(answer.s)' = Held(s)
    <3>1. Held(answer.s)' = Held(s)'
      BY <2>1 DEF Held, RingOf, HasRing
    <3> QED
      BY <1>7, <3>1
  <2>3. SUFFICES ASSUME answer'.code = "OK", Len(rows) < max
                 PROVE  IsWholeRange(lg, Held(s), range, rows, int8)
    BY <2>1, <2>2, RangeDef, Zenon
  <2> QED
    BY <2>3, Zenon DEF IsWholeRange
<1>10. ~Truncated(r, range, max)
  BY <1>5
<1>11. Begin(r) < r.head
  BY <1>1, <1>2, HeldIsWindow
<1>12. Cardinality(hits) < max
  BY <1>9
<1>13. /\ hits = {n \in 0 .. Len(lg) - 1 : lg[n + 1].ts \in range[1] .. range[2]}
       /\ IsFiniteSet(hits) /\ hits \subseteq Nat
       /\ \A n \in hits :
            RangeRow(At(r, n)) = [ts |-> lg[n + 1].ts, vec |-> IF int8 THEN Garbage ELSE lg[n + 1].vec]
  BY <1>2, <1>3, <1>8, <1>10, <1>11, <1>12, HitsAreWhole, SMTT(30)
<1>14. ASSUME NEW n \in hits
       PROVE  rows[Cardinality({m \in hits : m < n}) + 1] =
                [ts |-> lg[n + 1].ts, vec |-> IF int8 THEN Garbage ELSE lg[n + 1].vec]
  <2>1. Rank(hits, n) \in 0 .. Cardinality(hits) - 1
        /\ (CHOOSE i \in hits : Rank(hits, i) = Rank(hits, n)) = n
    BY <1>13, RankIs
  <2>2. PICK k \in 1 .. Cardinality(hits) : k = Rank(hits, n) + 1 /\ k - 1 = Rank(hits, n)
    BY <1>9, <2>1
  <2>3. rows[k] = RangeRow(At(r, CHOOSE i \in hits : Rank(hits, i) = k - 1))
    BY <1>4
  <2>4. rows[k] = RangeRow(At(r, n))
    BY <2>1, <2>2, <2>3
  <2> QED
    BY <1>13, <2>2, <2>4 DEF Rank
<1> QED
  BY <1>9, <1>13, <1>14

\* Only query_range answers with such rows.
LEMMA RangeStep == CallsInv /\ VecsHold /\ RangeOkIsComplete /\ [Next]_vars => RangeOkIsComplete'
<1> SUFFICES ASSUME CallsInv, VecsHold, RangeOkIsComplete, [Next]_vars PROVE RangeOkIsComplete'
  OBVIOUS
<1>1. ASSUME answer'.call # "query_range" PROVE RangeOkIsComplete'
  BY <1>1 DEF RangeOkIsComplete
<1>2. ASSUME NEW s \in Sensors, NEW range \in Ranges, NEW max \in Counts, QueryRange(s, range, max)
      PROVE  RangeOkIsComplete'
  BY <1>2, QueryRangeIsWhole
<1>3. ASSUME NEW call \in {"refused", "append_batch", "preallocate", "flush", "maintain",
                           "drop_sensor", "list_sensors", "close", "none", "no_scratch"},
             NEW code, answer' = Answer(call, code)
      PROVE  RangeOkIsComplete'
  BY <1>1, <1>3 DEF Answer
<1>4. ASSUME NEW e \in Traffic, AppendOne(e) PROVE RangeOkIsComplete'
  <2>1. answer'.call = "append"
    BY <1>4 DEF AppendOne
  <2> QED
    BY <1>1, <2>1
<1>5. ASSUME NEW e \in Traffic, NEW f \in Traffic, AppendBatch(e, f) PROVE RangeOkIsComplete'
  BY <1>3, <1>5 DEF AppendBatch
<1>6. ASSUME NEW s \in Sensors, PreallocateSensor(s) PROVE RangeOkIsComplete'
  BY <1>3, <1>6 DEF PreallocateSensor
<1>7. ASSUME NEW s \in Sensors, DropSensor(s) PROVE RangeOkIsComplete'
  BY <1>3, <1>7 DEF DropSensor
<1>8. ASSUME NEW s \in Sensors, NEW q \in Targets, NEW n \in Counts, QueryNearestN(s, q, n)
      PROVE  RangeOkIsComplete'
  <2>1. answer'.call = "query_nearest_n"
    BY <1>8 DEF QueryNearestN
  <2> QED
    BY <1>1, <2>1
<1>9. ASSUME NEW s \in Sensors, NEW v \in Targets, NEW threshold \in Thresholds,
             DetectAnomaly(s, v, threshold)
      PROVE  RangeOkIsComplete'
  <2>1. answer'.call = "detect_anomaly"
    BY <1>9 DEF DetectAnomaly
  <2> QED
    BY <1>1, <2>1
<1>10. ASSUME NEW s \in Sensors, NEW call \in Calls, NEW faults \in Faults, Refused(call, s, faults)
       PROVE  RangeOkIsComplete'
  BY <1>3, <1>10 DEF Refused
<1>11. CASE Flush
  BY <1>3, <1>11 DEF Flush
<1>12. CASE MaintainSlidingWindow
  BY <1>3, <1>12 DEF MaintainSlidingWindow
<1>13. ASSUME NEW max \in Counts, ListSensors(max) PROVE RangeOkIsComplete'
  <2>1. answer'.call = "list_sensors"
    BY <1>13 DEF ListSensors, Answer
  <2> QED
    BY <1>1, <2>1
<1>14. CASE Close
  BY <1>3, <1>14 DEF Close
<1>15. CASE Return
  BY <1>3, <1>15 DEF Return, NoAnswer
<1>16. ASSUME NEW s \in Sensors, NEW call, IngestNoScratch(call, s) \/ QueryNoScratch(call, s)
       PROVE  RangeOkIsComplete'
  BY <1>3, <1>16 DEF IngestNoScratch, QueryNoScratch
<1>17. CASE UNCHANGED vars
  <2>1. UNCHANGED <<int8, rings, log, answer>>
    BY <1>17 DEF vars, configVars
  <2>2. Held(answer.s)' = Held(answer.s)
    BY <2>1 DEF Held, RingOf, HasRing
  <2> QED
    BY <2>1, <2>2 DEF RangeOkIsComplete
<1> QED
  BY <1>2, <1>4, <1>5, <1>6, <1>7, <1>8, <1>9, <1>10, <1>11, <1>12, <1>13, <1>14, <1>15, <1>16,
     <1>17 DEF Next, Call

\* A query_range that answers OK with fewer rows than asked for has left nothing
\* out, evicted and overwritten entries included (engine.cpp:734-789,
\* chronos_vector.h:278-280).
THEOREM OkRangeIsWhole == Spec => []RangeOkIsComplete
<1>1. Init => VecsHold /\ RangeOkIsComplete
  <2> SUFFICES ASSUME Init PROVE VecsHold /\ RangeOkIsComplete
    OBVIOUS
  <2>1. VecsHold
    BY VecsInit
  <2>2. answer.call # "query_range"
    BY DEF Init, NoAnswer, Answer
  <2> QED
    BY <2>1, <2>2 DEF RangeOkIsComplete
<1> QED
  BY <1>1, Invariance, VecsStep, RangeStep, PTL DEF Spec

-----------------------------------------------------------------------------
(* The kernels *)

\* The terms of a dot product.
Products(v, w) == [i \in DOMAIN v |-> v[i] * w[i]]

\* The dot product is the sum of the products.
LEMMA DotIs == \A v, w : Dot(v, w) = SumOver(Products(v, w), DOMAIN v)
<1> SUFFICES ASSUME NEW v, NEW w PROVE Dot(v, w) = SumOver(Products(v, w), DOMAIN v)
  OBVIOUS
<1> DEFINE S == DOMAIN v
           P(g) == g = [s \in SUBSET S |->
                          IF s = {} THEN 0 ELSE v[AnyOf(s)] * w[AnyOf(s)] + g[s \ {AnyOf(s)}]]
<1>1. Dot(v, w) = (CHOOSE g : P(g))[S]
  BY DEF Dot, MapThenSumSet, MapThenFoldSet, AnyOf
<1>2. \A s \in SUBSET S : s # {} => Products(v, w)[AnyOf(s)] = v[AnyOf(s)] * w[AnyOf(s)]
  BY AnyOfIn DEF Products
<1>3. \A g : P(g) <=> IsSum(g, Products(v, w), S)
  BY <1>2 DEF IsSum
<1>4. (CHOOSE g : P(g)) = SumFcn(Products(v, w), S)
  BY <1>3 DEF SumFcn
<1> QED
  BY <1>1, <1>4, SumOverIsSum

\* It is an integer for vectors of one dimension.
LEMMA DotInt ==
  ASSUME NEW d \in Nat, NEW v \in [1 .. d -> Int], NEW w \in [1 .. d -> Int]
  PROVE  /\ Dot(v, w) \in Int /\ Dot(v, w) = SumOver(Products(v, w), 1 .. d)
         /\ \A i \in 1 .. d : Products(v, w)[i] = v[i] * w[i] /\ Products(v, w)[i] \in Int
<1>1. \A i \in 1 .. d : Products(v, w)[i] = v[i] * w[i] /\ Products(v, w)[i] \in Int
  BY DEF Products
<1>2. IsFiniteSet(1 .. d)
  BY FS_Interval
<1>3. SumOver(Products(v, w), 1 .. d) \in Int
  BY <1>1, <1>2, SumOverInt
<1> QED
  BY <1>1, <1>3, DotIs

\* The terms of a squared distance.
Differences(v, q) == [i \in DOMAIN v |-> (v[i] - q[i]) * (v[i] - q[i])]

\* The squared distance is the sum of the squares of the differences.
LEMMA DirectIs == \A v, q : EuclideanSqDirect(v, q) = One * SumOver(Differences(v, q), DOMAIN v)
<1> SUFFICES ASSUME NEW v, NEW q
             PROVE  EuclideanSqDirect(v, q) = One * SumOver(Differences(v, q), DOMAIN v)
  OBVIOUS
<1> DEFINE S == DOMAIN v
           P(g) == g = [s \in SUBSET S |->
                          IF s = {} THEN 0
                          ELSE (v[AnyOf(s)] - q[AnyOf(s)]) * (v[AnyOf(s)] - q[AnyOf(s)])
                                 + g[s \ {AnyOf(s)}]]
<1>1. EuclideanSqDirect(v, q) = One * (CHOOSE g : P(g))[S]
  BY DEF EuclideanSqDirect, MapThenSumSet, MapThenFoldSet, AnyOf
<1>2. \A s \in SUBSET S : s # {} =>
        Differences(v, q)[AnyOf(s)] = (v[AnyOf(s)] - q[AnyOf(s)]) * (v[AnyOf(s)] - q[AnyOf(s)])
  BY AnyOfIn DEF Differences
<1>3. \A g : P(g) <=> IsSum(g, Differences(v, q), S)
  BY <1>2 DEF IsSum
<1>4. (CHOOSE g : P(g)) = SumFcn(Differences(v, q), S)
  BY <1>3 DEF SumFcn
<1> QED
  BY <1>1, <1>4, SumOverIsSum

\* A square is not negative.
LEMMA SquareNat == \A x \in Int : x * x \in Nat
<1> SUFFICES ASSUME NEW x \in Int PROVE x * x >= 0
  OBVIOUS
<1>1. CASE x >= 0
  BY <1>1
<1>2. CASE x < 0
  <2>1. PICK y \in Nat : y = -x
    BY <1>2
  <2>2. y * y >= 0 /\ y * y = x * x
    BY <2>1
  <2> QED
    BY <2>2
<1> QED
  BY <1>1, <1>2

\* The squared distance by the norms, as the kernel computes it.
LEMMA ByNorms ==
  ASSUME NEW d \in Nat, NEW v \in [1 .. d -> Int], NEW q \in [1 .. d -> Int]
  PROVE  /\ Dot(v, v) + Dot(q, q) - 2 * Dot(v, q) \in Nat
         /\ EuclideanSqDirect(v, q) = One * (Dot(v, v) + Dot(q, q) - 2 * Dot(v, q))
<1> DEFINE S == 1 .. d
           a == Products(v, v)
           b == Products(q, q)
           c == Products(v, q)
           h == Differences(v, q)
           e == [i \in S |-> (-2) * c[i]]
           f == [i \in S |-> a[i] + b[i]]
<1>1. IsFiniteSet(S) /\ DOMAIN v = S /\ DOMAIN q = S
  BY FS_Interval
<1>2. /\ Dot(v, v) \in Int /\ Dot(v, v) = SumOver(a, S)
      /\ \A i \in S : a[i] = v[i] * v[i] /\ a[i] \in Int
  BY DotInt
<1>3. /\ Dot(q, q) \in Int /\ Dot(q, q) = SumOver(b, S)
      /\ \A i \in S : b[i] = q[i] * q[i] /\ b[i] \in Int
  BY DotInt
<1>4. /\ Dot(v, q) \in Int /\ Dot(v, q) = SumOver(c, S)
      /\ \A i \in S : c[i] = v[i] * q[i] /\ c[i] \in Int
  BY DotInt
<1>5. \A i \in S : h[i] = (v[i] - q[i]) * (v[i] - q[i]) /\ h[i] \in Nat
  <2> SUFFICES ASSUME NEW i \in S
               PROVE  h[i] = (v[i] - q[i]) * (v[i] - q[i]) /\ h[i] \in Nat
    OBVIOUS
  <2>1. PICK x \in Int : x = v[i] - q[i]
    OBVIOUS
  <2>2. h[i] = x * x
    BY <1>1, <2>1 DEF Differences
  <2> QED
    BY <2>1, <2>2, SquareNat
<1>6. \A i \in S : a[i] \in Int /\ b[i] \in Int /\ f[i] = a[i] + b[i] /\ f[i] \in Int
  BY <1>2, <1>3
<1>7. SumOver(f, S) = SumOver(a, S) + SumOver(b, S)
  <2> HIDE DEF f, a, b, S
  <2> QED
    BY <1>1, <1>6, SumOverPlus
<1>8. SumOver(e, S) = (-2) * SumOver(c, S)
  <2>1. PICK m \in Int : m = -2
    OBVIOUS
  <2>2. \A i \in S : c[i] \in Int /\ e[i] = m * c[i]
    BY <1>4, <2>1
  <2>3. SumOver(e, S) = m * SumOver(c, S)
    <3> HIDE DEF c, e, S
    <3> QED
      BY <1>1, <2>2, SumOverTimes
  <2> QED
    BY <2>1, <2>3
<1>9. \A i \in S : f[i] \in Int /\ e[i] \in Int /\ h[i] = f[i] + e[i]
  <2> SUFFICES ASSUME NEW i \in S
               PROVE  f[i] \in Int /\ e[i] \in Int /\ h[i] = f[i] + e[i]
    OBVIOUS
  <2>1. PICK x \in Int, y \in Int : x = v[i] /\ y = q[i]
    OBVIOUS
  <2>2. f[i] = x * x + y * y /\ e[i] = (-2) * (x * y) /\ h[i] = (x - y) * (x - y)
    BY <2>1, <1>2, <1>3, <1>4, <1>5
  <2>3. (x - y) * (x - y) = x * x + y * y - 2 * (x * y)
    OBVIOUS
  <2> HIDE DEF f, e, h
  <2> QED
    BY <2>2, <2>3
<1>10. SumOver(h, S) = SumOver(f, S) + SumOver(e, S)
  <2> HIDE DEF f, e, h, S
  <2> QED
    BY <1>1, <1>9, SumOverPlus
<1>11. SumOver(h, S) \in Nat
  <2> HIDE DEF h, S
  <2> QED
    BY <1>1, <1>5, SumOverNat
<1>12. SumOver(h, S) = Dot(v, v) + Dot(q, q) - 2 * Dot(v, q)
  <2> HIDE DEF a, b, c, e, f, h, S
  <2> QED
    BY <1>2, <1>3, <1>4, <1>7, <1>8, <1>10
<1>13. EuclideanSqDirect(v, q) = One * SumOver(h, S)
  BY <1>1, DirectIs
<1> QED
  BY <1>11, <1>12, <1>13

\* The vectors of one dimension.
LEMMA IsTuple ==
  ASSUME NEW v, HasNorm(v)
  PROVE  /\ Len(v) \in Nat \ {0} /\ v \in [1 .. Len(v) -> Int] /\ DOMAIN v = 1 .. Len(v)
         /\ Norm(v) \in Nat /\ Norm(v) * Norm(v) = Dot(v, v)
<1>1. v \in Seq(Int) /\ v # <<>>
  BY DEF HasNorm
<1>2. Len(v) \in Nat /\ v \in [1 .. Len(v) -> Int] /\ DOMAIN v = 1 .. Len(v)
  BY <1>1
<1>3. Len(v) # 0
  BY <1>1, EmptySeq
<1>4. PICK n \in 0 .. Len(v) * MaxAbs(v) : n * n = Dot(v, v)
  BY DEF HasNorm
<1>5. Norm(v) \in 0 .. Len(v) * MaxAbs(v) /\ Norm(v) * Norm(v) = Dot(v, v)
  BY <1>4 DEF Norm
<1> QED
  BY <1>2, <1>3, <1>5

\* The largest component.
LEMMA MaxAbsIs ==
  ASSUME NEW d \in Nat \ {0}, NEW v \in [1 .. d -> Int]
  PROVE  /\ MaxAbs(v) \in Nat
         /\ \A i \in 1 .. d : -MaxAbs(v) <= v[i] /\ v[i] <= MaxAbs(v)
<1> DEFINE T == {Abs(v[i]) : i \in DOMAIN v}
<1>1. \A i \in 1 .. d : Abs(v[i]) \in Nat /\ v[i] \in Int
  BY DEF Abs
<1>2. T \subseteq Nat /\ \A i \in 1 .. d : Abs(v[i]) \in T
  BY <1>1
<1>3. IsFiniteSet(T)
  <2>1. IsFiniteSet(1 .. d)
    BY FS_Interval
  <2> DEFINE f == [i \in 1 .. d |-> Abs(v[i])]
  <2>2. f \in Surjection(1 .. d, T)
    BY DEF Surjection
  <2> QED
    BY <2>1, <2>2, FS_Surjection
<1>4. T # {}
  <2>1. 1 \in 1 .. d
    OBVIOUS
  <2> QED
    BY <1>2, <2>1
<1>5. Max(T) \in T /\ \A n \in T : n <= Max(T)
  <2>1. T \subseteq Int
    BY <1>2
  <2> HIDE DEF T
  <2> QED
    BY <1>3, <1>4, <2>1, MaxFinite
<1>6. PICK m \in Nat : m = Max(T)
  BY <1>2, <1>5
<1>7. \A i \in 1 .. d : Abs(v[i]) <= m
  BY <1>2, <1>5, <1>6
<1>8. MaxAbs(v) = m
  BY <1>6 DEF MaxAbs
<1>9. ASSUME NEW i \in 1 .. d PROVE -m <= v[i] /\ v[i] <= m
  <2>1. PICK x \in Int : x = v[i] /\ Abs(x) <= m
    BY <1>1, <1>7
  <2>2. -m <= x /\ x <= m
    BY <2>1 DEF Abs
  <2> QED
    BY <2>1, <2>2
<1> QED
  BY <1>6, <1>8, <1>9

\* Rounding is off by a half at most.
LEMMA RoundedIs ==
  ASSUME NEW n \in Int, NEW d \in Nat \ {0}
  PROVE  /\ Rounded(n, d) \in Int
         /\ 2 * (d * Rounded(n, d) - n) <= d
         /\ 2 * (n - d * Rounded(n, d)) <= d
<1>1. ASSUME NEW m \in Nat, NEW z, z = (2 * m + d) \div (2 * d)
      PROVE  z \in Nat /\ 2 * (d * z - m) <= d /\ 2 * (m - d * z) <= d
  <2>1. PICK b \in Nat : b = 2 * d /\ b > 0
    OBVIOUS
  <2>2. PICK a \in Nat : a = 2 * m + d
    OBVIOUS
  <2>3. z = a \div b
    BY <1>1, <2>1, <2>2
  <2>4. PICK r \in Nat : r = a % b /\ r < b
    BY <2>1, <2>2
  <2>5. z \in Nat /\ a = b * z + r
    BY <2>1, <2>2, <2>3, <2>4
  <2>6. b * z = 2 * (d * z) /\ d * z \in Nat
    BY <2>1, <2>5
  <2> QED
    BY <2>1, <2>2, <2>4, <2>5, <2>6
<1>2. CASE n >= 0
  <2>1. PICK z : z = (2 * n + d) \div (2 * d)
    OBVIOUS
  <2>2. Rounded(n, d) = z /\ n \in Nat
    BY <1>2, <2>1 DEF Rounded
  <2>3. z \in Nat /\ 2 * (d * z - n) <= d /\ 2 * (n - d * z) <= d
    BY <1>1, <2>1, <2>2
  <2> QED
    BY <2>2, <2>3
<1>3. CASE n < 0
  <2>1. PICK m \in Nat : m = -n
    BY <1>3
  <2>2. PICK z : z = (2 * m + d) \div (2 * d)
    OBVIOUS
  <2>3. z \in Nat /\ 2 * (d * z - m) <= d /\ 2 * (m - d * z) <= d
    BY <2>2, <1>1
  <2>4. d - 2 * n = 2 * m + d
    BY <2>1
  <2>5. Rounded(n, d) = -z
    BY <1>3, <2>2, <2>4 DEF Rounded
  <2>6. d * (-z) = -(d * z) /\ d * z \in Nat
    BY <2>3
  <2> QED
    BY <2>1, <2>3, <2>5, <2>6
<1> QED
  BY <1>2, <1>3

\* A rounded quotient is within the bound of the quotient.
LEMMA QuotientBound ==
  ASSUME NEW m \in Nat, m # 0, NEW k \in Nat, NEW z \in Int, NEW n \in Int,
         2 * (m * z - n) <= m, n <= m * k
  PROVE  z <= k
<1> SUFFICES ASSUME z >= k + 1 PROVE FALSE
  OBVIOUS
<1>1. PICK g \in Nat : z = k + 1 + g
  <2>1. z - k - 1 \in Nat
    OBVIOUS
  <2> QED
    BY <2>1
<1>2. m * (k + 1 + g) = m * k + m + m * g
  OBVIOUS
<1>3. m * g \in Nat /\ m * k \in Nat
  OBVIOUS
<1>4. m * z = m * k + m + m * g
  BY <1>1, <1>2
<1> HIDE <1>1
<1> QED
  BY <1>3, <1>4

\* The same for the least.
LEMMA QuotientBoundBelow ==
  ASSUME NEW m \in Nat, m # 0, NEW k \in Nat, NEW z \in Int, NEW n \in Int,
         2 * (n - m * z) <= m, -(m * k) <= n
  PROVE  -k <= z
<1>1. PICK y \in Int, l \in Int : y = -z /\ l = -n
  OBVIOUS
<1>2. m * z \in Int /\ m * k \in Int /\ m * (-z) = -(m * z)
  OBVIOUS
<1>3. m * y = -(m * z)
  BY <1>1, <1>2
<1>4. 2 * (m * y - l) <= m /\ l <= m * k
  BY <1>1, <1>2, <1>3
<1>5. y <= k
  BY <1>4, QuotientBound
<1> QED
  BY <1>1, <1>5

\* What a quantized component is: within the range, and off by half a scale.
LEMMA QuantizedIs ==
  ASSUME NEW d \in Nat \ {0}, NEW v \in [1 .. d -> Int], NEW i \in 1 .. d,
         NEW m, m = MaxAbs(v), NEW z, z = Quantized(v).q[i]
  PROVE  /\ z \in Int /\ -Int8Max <= z /\ z <= Int8Max
         /\ 2 * (m * z - v[i] * Int8Max) <= m
         /\ 2 * (v[i] * Int8Max - m * z) <= m
<1>1. m \in Nat /\ -m <= v[i] /\ v[i] <= m /\ v[i] \in Int
  BY MaxAbsIs
<1>2. Int8Max \in Nat /\ Int8Max > 0
  BY ResolutionAssumption
<1>3. z = IF m = 0 THEN 0 ELSE Rounded(v[i] * Int8Max, m)
  BY DEF Quantized
<1>4. PICK x \in Int : x = v[i]
  BY <1>1
<1>5. CASE m = 0
  <2>1. x = 0 /\ z = 0
    BY <1>1, <1>3, <1>4, <1>5
  <2>2. x * Int8Max = 0 /\ m * z = 0
    BY <1>2, <1>5, <2>1
  <2> QED
    BY <1>2, <1>4, <1>5, <2>1, <2>2
<1>6. CASE m # 0
  <2>1. PICK n \in Int : n = x * Int8Max
    BY <1>2
  <2>2. z = Rounded(n, m) /\ m \in Nat \ {0}
    BY <1>1, <1>3, <1>4, <1>6, <2>1
  <2>3. z \in Int /\ 2 * (m * z - n) <= m /\ 2 * (n - m * z) <= m
    BY <2>2, RoundedIs
  <2>4. n <= m * Int8Max /\ -(m * Int8Max) <= n
    <3>1. (m - x) * Int8Max >= 0 /\ (m + x) * Int8Max >= 0
      <4>1. m - x \in Nat /\ m + x \in Nat
        BY <1>1, <1>4
      <4> QED
        BY <1>2, <4>1
    <3>2. (m - x) * Int8Max = m * Int8Max - n /\ (m + x) * Int8Max = m * Int8Max + n
      BY <1>1, <1>2, <2>1
    <3>3. m * Int8Max \in Int
      BY <1>1, <1>2
    <3> QED
      BY <3>1, <3>2, <3>3, <2>1
  <2>5. z <= Int8Max
    BY <1>1, <1>2, <1>6, <2>1, <2>3, <2>4, QuotientBound
  <2>6. -Int8Max <= z
    BY <1>1, <1>2, <1>6, <2>1, <2>3, <2>4, QuotientBoundBelow
  <2>7. v[i] * Int8Max = n
    BY <1>4, <2>1
  <2> QED
    BY <2>3, <2>5, <2>6, <2>7
<1> QED
  BY <1>5, <1>6

\* A product of bounded numbers.
LEMMA BoundedProduct ==
  ASSUME NEW a \in Int, NEW b \in Int, NEW m \in Nat, NEW n \in Nat,
         -m <= a, a <= m, -n <= b, b <= n
  PROVE  a * b <= m * n /\ -(m * n) <= a * b
<1>1. PICK r \in Nat, s \in Nat, t \in Nat, u \in Nat :
        r = m - a /\ s = m + a /\ t = n - b /\ u = n + b
  OBVIOUS
<1>2. r * u >= 0 /\ s * t >= 0 /\ r * t >= 0 /\ s * u >= 0
  OBVIOUS
<1>3. r * u = (m - a) * (n + b) /\ s * t = (m + a) * (n - b)
  BY <1>1
<1>4. r * t = (m - a) * (n - b) /\ s * u = (m + a) * (n + b)
  BY <1>1
<1>5. /\ (m - a) * (n + b) = m * n + m * b - a * n - a * b
      /\ (m + a) * (n - b) = m * n - m * b + a * n - a * b
      /\ (m - a) * (n - b) = m * n - m * b - a * n + a * b
      /\ (m + a) * (n + b) = m * n + m * b + a * n + a * b
  OBVIOUS
<1>6. m * n \in Int /\ m * b \in Int /\ a * n \in Int /\ a * b \in Int
  OBVIOUS
<1> QED
  BY <1>2, <1>3, <1>4, <1>5, <1>6

\* The product of two numbers quantized with scales of m and w to at most k.
LEMMA QuantizedProduct ==
  ASSUME NEW k \in Nat, NEW m \in Nat, NEW w \in Nat,
         NEW x \in Int, NEW p \in Int, NEW z \in Int, NEW y \in Int,
         -m <= x, x <= m, -k <= y, y <= k,
         2 * (m * z - x * k) <= m, 2 * (x * k - m * z) <= m,
         2 * (w * y - p * k) <= w, 2 * (p * k - w * y) <= w
  PROVE  /\ (m * w) * (z * y) - (k * k) * (x * p) <= k * m * w
         /\ (k * k) * (x * p) - (m * w) * (z * y) <= k * m * w
<1>1. PICK e \in Int, f \in Int : e = m * z - x * k /\ f = w * y - p * k
  OBVIOUS
<1>2. PICK g \in Int, h \in Int : g = 2 * e /\ h = 2 * f
  OBVIOUS
<1>3. -m <= g /\ g <= m /\ -w <= h /\ h <= w
  <2>1. m * z \in Int /\ x * k \in Int /\ w * y \in Int /\ p * k \in Int
    OBVIOUS
  <2> QED
    BY <2>1, <1>1, <1>2
<1>4. x * h <= m * w /\ -(m * w) <= x * h
  BY <1>3, BoundedProduct
<1>5. g * y <= m * k /\ -(m * k) <= g * y
  BY <1>3, BoundedProduct
<1>6. PICK a \in Int, b \in Int : a = x * h /\ b = g * y
  OBVIOUS
<1>7. PICK s \in Nat, t \in Nat : s = m * w /\ t = m * k
  OBVIOUS
<1>8. k * a <= k * s /\ -(k * s) <= k * a
  <2>1. -s <= a /\ a <= s /\ -k <= k /\ k <= k /\ -s <= s
    BY <1>4, <1>6, <1>7
  <2>2. k * a <= k * s /\ -(k * s) <= k * a
    BY <2>1, BoundedProduct
  <2> QED
    BY <2>2
<1>9. w * b <= w * t /\ -(w * t) <= w * b
  <2>1. -t <= b /\ b <= t /\ -w <= w /\ w <= w
    BY <1>5, <1>6, <1>7
  <2>2. w * b <= w * t /\ -(w * t) <= w * b
    BY <2>1, BoundedProduct
  <2> QED
    BY <2>2
<1>10. PICK c \in Nat : c = k * m * w
  OBVIOUS
<1>11. k * s = c /\ w * t = c
  BY <1>7, <1>10
<1>12. 2 * ((m * w) * (z * y) - (k * k) * (x * p)) = k * a + w * b
  <2>1. k * a = k * (x * (2 * (w * y - p * k)))
    BY <1>1, <1>2, <1>6
  <2>2. w * b = w * ((2 * (m * z - x * k)) * y)
    BY <1>1, <1>2, <1>6
  <2>3. 2 * ((m * w) * (z * y) - (k * k) * (x * p))
          = k * (x * (2 * (w * y - p * k))) + w * ((2 * (m * z - x * k)) * y)
    OBVIOUS
  <2> QED
    BY <2>1, <2>2, <2>3
<1>13. PICK u \in Int, l \in Int : u = (m * w) * (z * y) /\ l = (k * k) * (x * p)
  OBVIOUS
<1>14. k * a \in Int /\ w * b \in Int
  OBVIOUS
<1>15. 2 * (u - l) <= 2 * c /\ -(2 * c) <= 2 * (u - l)
  BY <1>8, <1>9, <1>11, <1>12, <1>13, <1>14
<1> QED
  BY <1>10, <1>13, <1>15

\* The quantized components.
LEMMA QuantizedTuple ==
  ASSUME NEW d \in Nat \ {0}, NEW v \in [1 .. d -> Int]
  PROVE  Quantized(v).q \in [1 .. d -> Int] /\ Quantized(v).max = MaxAbs(v)
<1>1. \A i \in 1 .. d : Quantized(v).q[i] \in Int
  BY QuantizedIs
<1>2. DOMAIN v = 1 .. d
  OBVIOUS
<1>3. Quantized(v).q = [i \in 1 .. d |-> Quantized(v).q[i]]
  BY <1>2 DEF Quantized
<1>4. Quantized(v).max = MaxAbs(v)
  BY DEF Quantized
<1> QED
  BY <1>1, <1>3, <1>4

\* A sum of terms of at most c.
LEMMA SumOverBounded ==
  ASSUME NEW f, NEW S, IsFiniteSet(S), NEW c \in Nat,
         \A x \in S : f[x] \in Int /\ f[x] <= c /\ -c <= f[x]
  PROVE  SumOver(f, S) <= c * Cardinality(S) /\ -(c * Cardinality(S)) <= SumOver(f, S)
<1> DEFINE g == [x \in S |-> c]
           l == [x \in S |-> -c]
<1>1. PICK n \in Nat : n = Cardinality(S)
  BY FS_CardinalityType
<1>2. SumOver(g, S) = c * n
  <2>1. \A x \in S : g[x] = c
    OBVIOUS
  <2> HIDE DEF g
  <2> QED
    BY <1>1, <2>1, SumOverConst
<1>3. SumOver(l, S) = -(c * n)
  <2>1. PICK b \in Int : b = -c
    OBVIOUS
  <2>2. \A x \in S : l[x] = b
    BY <2>1
  <2>3. SumOver(l, S) = b * n
    <3> HIDE DEF l
    <3> QED
      BY <1>1, <2>2, SumOverConst
  <2>4. (-c) * n = -(c * n)
    OBVIOUS
  <2> QED
    BY <2>1, <2>3, <2>4
<1>4. SumOver(f, S) <= SumOver(g, S)
  <2>1. \A x \in S : f[x] \in Int /\ g[x] \in Int /\ f[x] <= g[x]
    OBVIOUS
  <2> HIDE DEF g
  <2> QED
    BY <2>1, SumOverMonotonic
<1>5. SumOver(l, S) <= SumOver(f, S)
  <2>1. \A x \in S : l[x] \in Int /\ f[x] \in Int /\ l[x] <= f[x]
    OBVIOUS
  <2> HIDE DEF l
  <2> QED
    BY <2>1, SumOverMonotonic
<1> QED
  BY <1>1, <1>2, <1>3, <1>4, <1>5

\* The dot product of two quantized vectors.
LEMMA QuantizedDot ==
  ASSUME NEW d \in Nat \ {0}, NEW v \in [1 .. d -> Int], NEW q \in [1 .. d -> Int]
  PROVE  LET m == MaxAbs(v)
             w == MaxAbs(q)
             k == Int8Max
             dot == Dot(Quantized(v).q, Quantized(q).q)
         IN /\ dot \in Int /\ Dot(v, q) \in Int
            /\ (m * w) * dot - (k * k) * Dot(v, q) <= (k * m * w) * d
            /\ -((k * m * w) * d) <= (m * w) * dot - (k * k) * Dot(v, q)
<1>1. PICK m \in Nat, w \in Nat, k \in Nat : m = MaxAbs(v) /\ w = MaxAbs(q) /\ k = Int8Max
  BY MaxAbsIs, ResolutionAssumption
<1>2. PICK z \in [1 .. d -> Int], y \in [1 .. d -> Int] : z = Quantized(v).q /\ y = Quantized(q).q
  BY QuantizedTuple
<1> DEFINE S == 1 .. d
           a == Products(z, y)
           b == Products(v, q)
           f == [i \in S |-> (m * w) * a[i]]
           g == [i \in S |-> (-(k * k)) * b[i]]
           h == [i \in S |-> f[i] + g[i]]
<1>3. IsFiniteSet(S) /\ Cardinality(S) = d /\ d \in Nat
  BY FS_Interval
<1>4. /\ Dot(z, y) \in Int /\ Dot(z, y) = SumOver(a, S)
      /\ \A i \in S : a[i] = z[i] * y[i] /\ a[i] \in Int
  BY <1>3, DotInt
<1>5. /\ Dot(v, q) \in Int /\ Dot(v, q) = SumOver(b, S)
      /\ \A i \in S : b[i] = v[i] * q[i] /\ b[i] \in Int
  BY <1>3, DotInt
<1>6. PICK s \in Int, t \in Int, c \in Nat : s = m * w /\ t = -(k * k) /\ c = k * m * w
  OBVIOUS
<1>7. SumOver(f, S) = s * SumOver(a, S)
  <2>1. \A i \in S : a[i] \in Int /\ f[i] = s * a[i]
    BY <1>4, <1>6
  <2> HIDE DEF a, f, S
  <2> QED
    BY <1>3, <2>1, SumOverTimes
<1>8. SumOver(g, S) = t * SumOver(b, S)
  <2>1. \A i \in S : b[i] \in Int /\ g[i] = t * b[i]
    BY <1>5, <1>6
  <2>2. IsFiniteSet(S) /\ t \in Int
    BY <1>3
  <2> HIDE DEF b, g, S
  <2> QED
    BY <2>1, <2>2, SumOverTimes, Zenon
<1>9. \A i \in S : f[i] \in Int /\ g[i] \in Int /\ h[i] = f[i] + g[i]
  <2> SUFFICES ASSUME NEW i \in S PROVE f[i] \in Int /\ g[i] \in Int
    OBVIOUS
  <2>1. PICK A \in Int, B \in Int : A = a[i] /\ B = b[i]
    BY <1>4, <1>5
  <2>2. f[i] = s * A /\ g[i] = t * B
    BY <1>6, <2>1
  <2>3. s * A \in Int /\ t * B \in Int
    OBVIOUS
  <2> HIDE DEF f, g
  <2> QED
    BY <2>2, <2>3
<1>10. SumOver(h, S) = SumOver(f, S) + SumOver(g, S)
  <2> HIDE DEF f, g, h, S
  <2> QED
    BY <1>3, <1>9, SumOverPlus
<1>11. \A i \in S : h[i] \in Int /\ h[i] <= c /\ -c <= h[i]
  <2> SUFFICES ASSUME NEW i \in S PROVE h[i] \in Int /\ h[i] <= c /\ -c <= h[i]
    OBVIOUS
  <2>1. PICK xi \in Int, pi \in Int, zi \in Int, yi \in Int :
          xi = v[i] /\ pi = q[i] /\ zi = z[i] /\ yi = y[i]
    OBVIOUS
  <2>2. -m <= xi /\ xi <= m
    BY <1>1, <2>1, MaxAbsIs
  <2>3. 2 * (m * zi - xi * k) <= m /\ 2 * (xi * k - m * zi) <= m
    BY <1>1, <1>2, <2>1, QuantizedIs
  <2>4. /\ -k <= yi /\ yi <= k
        /\ 2 * (w * yi - pi * k) <= w /\ 2 * (pi * k - w * yi) <= w
    BY <1>1, <1>2, <2>1, QuantizedIs
  <2>5. /\ (m * w) * (zi * yi) - (k * k) * (xi * pi) <= k * m * w
        /\ (k * k) * (xi * pi) - (m * w) * (zi * yi) <= k * m * w
    BY <2>2, <2>3, <2>4, QuantizedProduct
  <2>6. f[i] = (m * w) * (zi * yi) /\ g[i] = (-(k * k)) * (xi * pi) /\ h[i] = f[i] + g[i]
    BY <1>4, <1>5, <2>1
  <2>7. (-(k * k)) * (xi * pi) = -((k * k) * (xi * pi))
    OBVIOUS
  <2>8. PICK u \in Int, l \in Int : u = (m * w) * (zi * yi) /\ l = (k * k) * (xi * pi)
    OBVIOUS
  <2>9. h[i] = u - l /\ u - l <= c /\ l - u <= c
    <3> HIDE DEF f, g, h
    <3> QED
      BY <1>6, <2>5, <2>6, <2>7, <2>8
  <2>10. u - l \in Int
    OBVIOUS
  <2> HIDE DEF h
  <2> QED
    BY <2>9, <2>10
<1>12. SumOver(h, S) <= c * d /\ -(c * d) <= SumOver(h, S)
  <2> HIDE DEF h, S
  <2> QED
    BY <1>3, <1>11, SumOverBounded
<1>13. SumOver(h, S) = (m * w) * Dot(z, y) - (k * k) * Dot(v, q)
  <2>1. PICK A \in Int, B \in Int : A = Dot(z, y) /\ B = Dot(v, q)
    BY <1>4, <1>5
  <2>2. (-(k * k)) * B = -((k * k) * B)
    OBVIOUS
  <2>3. SumOver(h, S) = s * A + t * B
    <3> HIDE DEF a, b, f, g, h, S
    <3> QED
      BY <1>4, <1>5, <1>7, <1>8, <1>10, <2>1
  <2> QED
    BY <1>6, <2>1, <2>2, <2>3
<1>14. /\ Dot(z, y) \in Int /\ Dot(v, q) \in Int
       /\ (m * w) * Dot(z, y) - (k * k) * Dot(v, q) <= (k * m * w) * d
       /\ -((k * m * w) * d) <= (m * w) * Dot(z, y) - (k * k) * Dot(v, q)
  <2> HIDE DEF h, S
  <2> QED
    BY <1>4, <1>5, <1>6, <1>12, <1>13
<1> QED
  BY <1>1, <1>2, <1>14

\* A vector with a norm has a component.
LEMMA NormHasMax ==
  ASSUME NEW v, HasNorm(v), Norm(v) # 0
  PROVE  MaxAbs(v) # 0
<1> SUFFICES ASSUME MaxAbs(v) = 0 PROVE FALSE
  OBVIOUS
<1>1. PICK d \in Nat \ {0} : d = Len(v) /\ v \in [1 .. d -> Int]
  BY IsTuple
<1>2. PICK n \in Nat : n = Norm(v) /\ n * n = Dot(v, v)
  BY IsTuple
<1>3. \A i \in 1 .. d : v[i] = 0
  <2>1. \A i \in 1 .. d : -MaxAbs(v) <= v[i] /\ v[i] <= MaxAbs(v)
    BY <1>1, MaxAbsIs
  <2> QED
    BY <1>1, <2>1
<1>4. \A i \in 1 .. d : Products(v, v)[i] = 0
  <2>1. \A i \in 1 .. d : Products(v, v)[i] = v[i] * v[i]
    BY <1>1, DotInt
  <2> QED
    BY <1>3, <2>1
<1>5. SumOver(Products(v, v), 1 .. d) = 0
  <2>1. IsFiniteSet(1 .. d) /\ Cardinality(1 .. d) = d
    BY IndicesAre
  <2>2. SumOver(Products(v, v), 1 .. d) = 0 * d
    BY <1>4, <2>1, SumOverConst
  <2> QED
    BY <2>2
<1>6. n * n = 0
  <2>1. Dot(v, v) = SumOver(Products(v, v), 1 .. d)
    BY <1>1, DotInt
  <2> QED
    BY <1>2, <1>5, <2>1
<1>7. n # 0
  BY <1>2
<1> QED
  BY <1>6, <1>7

\* Close numbers have close quotients.
LEMMA CloseQuotient ==
  ASSUME NEW a \in Int, NEW b \in Int, NEW e \in Nat, NEW n \in Nat \ {0}, a - b <= e
  PROVE  a \div n - b \div n <= (e \div n) + 1
<1>1. PICK p \in Int, r \in Nat : p = a \div n /\ a = n * p + r /\ r < n
  <2>1. a = n * (a \div n) + (a % n) /\ a \div n \in Int /\ a % n \in 0 .. n - 1
    OBVIOUS
  <2> QED
    BY <2>1
<1>2. PICK q \in Int, s \in Nat : q = b \div n /\ b = n * q + s /\ s < n
  <2>1. b = n * (b \div n) + (b % n) /\ b \div n \in Int /\ b % n \in 0 .. n - 1
    OBVIOUS
  <2> QED
    BY <2>1
<1>3. PICK t \in Int, u \in Nat : t = e \div n /\ e = n * t + u /\ u < n
  <2>1. e = n * (e \div n) + (e % n) /\ e \div n \in Int /\ e % n \in 0 .. n - 1
    OBVIOUS
  <2> QED
    BY <2>1
<1> SUFFICES ASSUME p - q - t >= 2 PROVE FALSE
  BY <1>1, <1>2, <1>3
<1>4. PICK g \in Nat : g = p - q - t - 2
  OBVIOUS
<1>5. n * g = n * p - n * q - n * t - 2 * n
  BY <1>4
<1>6. n * g \in Nat /\ n * p \in Int /\ n * q \in Int /\ n * t \in Int
  OBVIOUS
<1> HIDE <1>4
<1> QED
  BY <1>1, <1>2, <1>3, <1>5, <1>6

\* The clamp.
LEMMA MaxZero == \A x \in Int : Max({0, x}) = IF x >= 0 THEN x ELSE 0
<1> SUFFICES ASSUME NEW x \in Int PROVE Max({0, x}) = IF x >= 0 THEN x ELSE 0
  OBVIOUS
<1> DEFINE T == {0, x}
<1>1. IF x >= 0 THEN x \in T /\ \A y \in T : x >= y ELSE 0 \in T /\ \A y \in T : 0 >= y
  OBVIOUS
<1>2. T \subseteq Int
  OBVIOUS
<1> HIDE DEF T
<1>3. \A y \in T : y \in Int
  BY <1>2
<1>4. Max(T) = IF x >= 0 THEN x ELSE 0
  BY <1>1, <1>3 DEF Max
<1> QED
  BY <1>4 DEF T

\* What a quantized dot product loses.
LEMMA DotI8IsClose ==
  ASSUME NEW d \in Nat \ {0}, NEW v \in [1 .. d -> Int], NEW q \in [1 .. d -> Int], Len(v) = d,
         NEW row, row.vec = Quantized(v).q, row.max = MaxAbs(v),
         NEW dot, dot = DotI8(row, Quantized(q)), NEW exact, exact = One * Dot(v, q),
         NEW off, off = QuantizationError(v, q)
  PROVE  /\ dot \in Int /\ exact \in Int /\ off \in Nat
         /\ dot - exact <= off /\ exact - dot <= off
<1>1. PICK m \in Nat, w \in Nat : m = MaxAbs(v) /\ w = MaxAbs(q)
  BY MaxAbsIs
<1>2. PICK k \in Nat, R \in Nat : k = Int8Max /\ R = Resolution
  BY ResolutionAssumption
<1>3. PICK z \in [1 .. d -> Int], y \in [1 .. d -> Int] : z = Quantized(v).q /\ y = Quantized(q).q
  BY QuantizedTuple
<1>4. /\ Dot(z, y) \in Int /\ Dot(v, q) \in Int
      /\ (m * w) * Dot(z, y) - (k * k) * Dot(v, q) <= (k * m * w) * d
      /\ -((k * m * w) * d) <= (m * w) * Dot(z, y) - (k * k) * Dot(v, q)
  <2>1. /\ Dot(Quantized(v).q, Quantized(q).q) \in Int /\ Dot(v, q) \in Int
        /\ (MaxAbs(v) * MaxAbs(q)) * Dot(Quantized(v).q, Quantized(q).q)
             - (Int8Max * Int8Max) * Dot(v, q) <= (Int8Max * MaxAbs(v) * MaxAbs(q)) * d
        /\ -((Int8Max * MaxAbs(v) * MaxAbs(q)) * d)
             <= (MaxAbs(v) * MaxAbs(q)) * Dot(Quantized(v).q, Quantized(q).q)
                  - (Int8Max * Int8Max) * Dot(v, q)
    BY QuantizedDot, Zenon
  <2> QED
    BY <1>1, <1>2, <1>3, <2>1
<1>5. PICK a \in Int, b \in Int : a = Dot(z, y) /\ b = Dot(v, q)
  BY <1>4
<1>6. dot = R * m * w * a
  <2>1. Quantized(q).max = w /\ Quantized(q).q = y
    BY <1>1, <1>3, QuantizedTuple
  <2> QED
    BY <1>1, <1>2, <1>3, <1>5, <2>1 DEF DotI8
<1>7. exact = (k * k * R) * b
  BY <1>2, <1>5 DEF One
<1>8. off = R * d * m * w * (k + 1)
  BY <1>1, <1>2 DEF QuantizationError
<1>9. PICK x \in Int, p \in Int, e \in Nat : x = (m * w) * a /\ p = (k * k) * b /\ e = (k * m * w) * d
  OBVIOUS
<1>10. x - p <= e /\ -e <= x - p
  BY <1>4, <1>5, <1>9
<1>11. R * (x - p) <= R * e /\ -(R * e) <= R * (x - p)
  <2>1. PICK g \in Int : g = x - p
    OBVIOUS
  <2>2. -e <= g /\ g <= e /\ -R <= R /\ R <= R
    BY <1>10, <2>1
  <2>3. R * g <= R * e /\ -(R * e) <= R * g
    BY <2>2, BoundedProduct
  <2> QED
    BY <2>1, <2>3
<1>12. dot = R * x
  <2>1. R * m * w * a = R * ((m * w) * a)
    OBVIOUS
  <2> QED
    BY <1>6, <1>9, <2>1
<1>13. exact = R * p
  <2>1. (k * k * R) * b = R * ((k * k) * b)
    OBVIOUS
  <2> QED
    BY <1>7, <1>9, <2>1
<1>14. off = R * e + R * (d * m * w)
  <2>1. R * d * m * w * (k + 1) = R * ((k * m * w) * d) + R * (d * m * w)
    OBVIOUS
  <2> QED
    BY <1>8, <1>9, <2>1
<1>15. R * (d * m * w) \in Nat /\ R * e \in Nat /\ R * x \in Int /\ R * p \in Int
  <2>1. d * m * w \in Nat
    OBVIOUS
  <2> QED
    BY <2>1
<1>16. R * (x - p) = R * x - R * p
  OBVIOUS
<1>17. PICK A \in Int, B \in Int, E \in Nat, G \in Nat :
         A = R * x /\ B = R * p /\ E = R * e /\ G = R * (d * m * w)
  BY <1>15
<1>18. A - B <= E /\ -E <= A - B
  BY <1>11, <1>16, <1>17
<1>19. dot = A /\ exact = B /\ off = E + G
  BY <1>12, <1>13, <1>14, <1>17
<1>20. A \in Int /\ B \in Int /\ E + G \in Nat /\ A - B <= E + G /\ B - A <= E + G
  BY <1>18, SMTT(30)
<1> QED
  BY <1>19, <1>20

\* The score of a row is within what Reference allows.
LEMMA KernelIsClose ==
  ASSUME NEW v, NEW q, HasNorm(v), HasNorm(q), Len(v) = Len(q),
         NEW i8 \in BOOLEAN, NEW cos \in BOOLEAN, NEW row,
         row.vec = (IF i8 THEN Quantized(v).q ELSE v), i8 => row.max = MaxAbs(v),
         row.norm = Norm(v)
  PROVE  LET score == Score(i8, cos, row, q, Norm(q))
             ref == Reference(i8, cos, v, q)
         IN /\ score \in Int /\ ref.score \in Int /\ ref.off \in Nat
            /\ score - ref.score <= ref.off /\ ref.score - score <= ref.off
<1>1. PICK d \in Nat \ {0} : d = Len(v) /\ v \in [1 .. d -> Int] /\ q \in [1 .. d -> Int]
  BY IsTuple
<1>2. PICK n \in Nat, m \in Nat : /\ n = Norm(v) /\ n * n = Dot(v, v)
                                  /\ m = Norm(q) /\ m * m = Dot(q, q)
  BY IsTuple
<1>3. PICK x \in Int : x = Dot(v, q)
  BY <1>1, DotInt
<1>4. PICK u \in Nat \ {0} : u = One
  <2>1. Int8Max * Int8Max * Resolution \in Nat \ {0}
    BY ResolutionAssumption
  <2> QED
    BY <2>1 DEF One
<1>5. PICK norms \in Nat : norms = n * m
  OBVIOUS
<1>6. n > 0 /\ m > 0 <=> norms # 0
  BY <1>5
<1>7. EuclideanSqDirect(v, q) = u * (n * n + m * m - 2 * x) /\ n * n + m * m - 2 * x \in Nat
  <2>1. /\ Dot(v, v) + Dot(q, q) - 2 * Dot(v, q) \in Nat
        /\ EuclideanSqDirect(v, q) = One * (Dot(v, v) + Dot(q, q) - 2 * Dot(v, q))
    BY <1>1, ByNorms
  <2> QED
    BY <1>2, <1>3, <1>4, <2>1
<1>8. PICK y \in Nat : y = n * n + m * m - 2 * x
  BY <1>7
<1> DEFINE score == Score(i8, cos, row, q, Norm(q))
           ref == Reference(i8, cos, v, q)
           IsWithin == /\ score \in Int /\ ref.score \in Int /\ ref.off \in Nat
                       /\ score - ref.score <= ref.off /\ ref.score - score <= ref.off
<1> SUFFICES IsWithin
  OBVIOUS
<1>9. CASE ~i8 /\ cos
  <2>1. score = IF norms # 0 THEN (u * x) \div norms ELSE 0
    BY <1>2, <1>3, <1>4, <1>5, <1>6, <1>9 DEF Score, CosineF32
  <2>2. ref = IF norms = 0 THEN [score |-> 0, off |-> 0]
                           ELSE [score |-> (u * x) \div norms, off |-> (0 \div norms) + 1]
    BY <1>2, <1>3, <1>4, <1>5, <1>9 DEF Reference
  <2>3. norms # 0 => (u * x) \div norms \in Int /\ (0 \div norms) + 1 \in Nat
    OBVIOUS
  <2> HIDE DEF score, ref
  <2>4. score = ref.score /\ score \in Int /\ ref.off \in Nat
    BY <2>1, <2>2, <2>3
  <2> QED
    BY <2>4
<1>10. CASE ~i8 /\ ~cos
  <2>1. score = u * Max({0, y})
    BY <1>2, <1>3, <1>4, <1>8, <1>10 DEF Score, EuclideanSqF32
  <2>2. Max({0, y}) = y
    BY MaxZero
  <2>3. ref.score = u * y /\ ref.off = 0
    BY <1>7, <1>8, <1>10 DEF Reference
  <2>4. u * y \in Nat
    OBVIOUS
  <2> HIDE DEF score, ref
  <2> QED
    BY <2>1, <2>2, <2>3, <2>4
<1>11. CASE i8
  <2>1. PICK dot \in Int, exact \in Int, off \in Nat :
           /\ dot = DotI8(row, Quantized(q)) /\ exact = u * x /\ off = QuantizationError(v, q)
           /\ dot - exact <= off /\ exact - dot <= off
    <3>1. row.vec = Quantized(v).q /\ row.max = MaxAbs(v)
      BY <1>11
    <3>2. LET dot == DotI8(row, Quantized(q))
              exact == One * Dot(v, q)
              off == QuantizationError(v, q)
          IN /\ dot \in Int /\ exact \in Int /\ off \in Nat
             /\ dot - exact <= off /\ exact - dot <= off
      BY <1>1, <3>1, DotI8IsClose, Zenon
    <3> QED
      BY <1>3, <1>4, <3>2
  <2>2. CASE cos
    <3>1. n > 0 => row.max > 0
      BY <1>1, <1>2, <1>11, NormHasMax, MaxAbsIs
    <3>2. m > 0 => Quantized(q).max > 0
      <4>1. Quantized(q).max = MaxAbs(q)
        BY DEF Quantized
      <4>2. MaxAbs(q) \in Nat
        BY <1>1, MaxAbsIs
      <4> QED
        BY <1>2, <4>1, <4>2, NormHasMax
    <3>3. score = IF norms # 0 THEN dot \div norms ELSE 0
      BY <1>2, <1>5, <1>6, <1>11, <2>1, <2>2, <3>1, <3>2 DEF Score, CosineI8
    <3>4. ref = IF norms = 0 THEN [score |-> 0, off |-> 0]
                             ELSE [score |-> exact \div norms, off |-> (off \div norms) + 1]
      BY <1>2, <1>3, <1>4, <1>5, <1>11, <2>1, <2>2 DEF Reference
    <3>5. CASE norms # 0
      <4>1. /\ dot \div norms - exact \div norms <= (off \div norms) + 1
            /\ exact \div norms - dot \div norms <= (off \div norms) + 1
        BY <2>1, <3>5, CloseQuotient
      <4>2. dot \div norms \in Int /\ exact \div norms \in Int /\ off \div norms \in Nat
        BY <3>5
      <4> HIDE DEF score, ref
      <4> QED
        BY <3>3, <3>4, <3>5, <4>1, <4>2
    <3>6. CASE norms = 0
      <4> HIDE DEF score, ref
      <4> QED
        BY <3>3, <3>4, <3>6
    <3> QED
      BY <3>5, <3>6
  <2>3. CASE ~cos
    <3>1. PICK e \in Int : e = u * (n * n + m * m)
      OBVIOUS
    <3>2. score = Max({0, e - 2 * dot})
      BY <1>2, <1>4, <1>11, <2>1, <2>3, <3>1 DEF Score, EuclideanSqI8
    <3>3. u * y = e - 2 * exact
      <4>1. u * (n * n + m * m - 2 * x) = u * (n * n + m * m) - 2 * (u * x)
        OBVIOUS
      <4> QED
        BY <1>8, <2>1, <3>1, <4>1
    <3>4. ref.score = e - 2 * exact /\ ref.off = 2 * off
      BY <1>7, <1>8, <1>11, <2>1, <2>3, <3>3 DEF Reference
    <3>5. e - 2 * exact \in Nat
      <4>1. u * y \in Nat
        OBVIOUS
      <4> QED
        BY <3>3, <4>1
    <3>6. score = IF e - 2 * dot >= 0 THEN e - 2 * dot ELSE 0
      <4>1. PICK z \in Int : z = e - 2 * dot
        OBVIOUS
      <4>2. Max({0, z}) = IF z >= 0 THEN z ELSE 0
        BY <4>1, MaxZero
      <4> HIDE DEF score
      <4> QED
        BY <3>2, <4>1, <4>2
    <3>7. PICK a \in Int, b \in Nat : a = e - 2 * dot /\ b = e - 2 * exact
      BY <3>5
    <3>8. /\ score = IF a >= 0 THEN a ELSE 0
          /\ ref.score = b /\ ref.off = 2 * off
      BY <3>4, <3>6, <3>7
    <3>9. dot - exact <= off /\ exact - dot <= off
      BY <2>1
    <3>10. a - b <= 2 * off /\ b - a <= 2 * off /\ 2 * off \in Nat
      BY <3>7, <3>9
    <3> HIDE DEF score, ref
    <3> QED
      BY <3>8, <3>10
  <2> QED
    BY <2>2, <2>3
<1> QED
  BY <1>9, <1>10, <1>11

-----------------------------------------------------------------------------
(* The best scores *)

\* Better orders scores, up to equal ones.
LEMMA BetterOrders ==
  ASSUME NEW a \in Int, NEW b \in Int, NEW c \in Int
  PROVE  /\ ~Better(a, a)
         /\ Better(a, b) => ~Better(b, a)
         /\ ~Better(a, b) /\ ~Better(b, c) => ~Better(a, c)
<1>1. CASE cosine
  BY <1>1 DEF Better
<1>2. CASE ~cosine
  BY <1>2 DEF Better
<1> QED
  BY <1>1, <1>2

\* The heap has a worst score.
LEMMA HasWorst ==
  ASSUME NEW T, IsFiniteSet(T), T # {}, NEW f, \A x \in T : f[x] \in Int
  PROVE  \E w \in T : \A j \in T : ~Better(f[w], f[j])
<1> DEFINE Good(A) == \E w \in A : \A j \in A : ~Better(f[w], f[j])
           Bad == {A \in SUBSET T : A # {} /\ ~Good(A)}
<1> SUFFICES ASSUME ~Good(T) PROVE FALSE
  OBVIOUS
<1>1. T \in Bad
  OBVIOUS
<1>2. PICK A \in Bad : \A B \in Bad : ~(B \subseteq A /\ B # A)
  <2>1. Bad \subseteq SUBSET T /\ Bad # {}
    BY <1>1
  <2> HIDE DEF Bad
  <2> QED
    BY <2>1, MinimalSubset
<1>3. A \in SUBSET T /\ A # {} /\ ~Good(A)
  BY <1>2
<1>4. PICK x \in A : TRUE
  BY <1>3
<1> DEFINE B == A \ {x}
<1>5. f[x] \in Int /\ \A j \in A : f[j] \in Int
  BY <1>3
<1>6. B # {}
  <2> SUFFICES ASSUME B = {} PROVE FALSE
    OBVIOUS
  <2>1. \A j \in A : j = x
    OBVIOUS
  <2>2. ~Better(f[x], f[x])
    BY <1>5, BetterOrders
  <2> QED
    BY <1>3, <2>1, <2>2
<1>7. B \notin Bad /\ B \in SUBSET T
  BY <1>2, <1>3, <1>4
<1>8. PICK w \in B : \A j \in B : ~Better(f[w], f[j])
  BY <1>6, <1>7
<1>9. Better(f[w], f[x])
  BY <1>3, <1>8
<1>10. \A j \in A : ~Better(f[x], f[j])
  <2> SUFFICES ASSUME NEW j \in A PROVE ~Better(f[x], f[j])
    OBVIOUS
  <2>1. ~Better(f[x], f[x]) /\ ~Better(f[x], f[w])
    BY <1>5, <1>8, <1>9, BetterOrders
  <2>2. CASE j = x
    BY <2>1, <2>2
  <2>3. CASE j # x
    <3>1. ~Better(f[w], f[j])
      BY <1>8, <2>3
    <3> QED
      BY <1>5, <1>8, <2>1, <3>1, BetterOrders
  <2> QED
    BY <2>2, <2>3
<1> QED
  BY <1>3, <1>4, <1>10

\* The first k of the scores leave these in the heap.
HeapHolds(scores, take, k, kept) ==
  /\ kept \subseteq 1 .. k
  /\ Cardinality(kept) = IF k < take THEN k ELSE take
  /\ \A i \in (1 .. k) \ kept, j \in kept : ~Better(scores[i], scores[j])

\* And one more.
LEMMA KeptWithIs ==
  ASSUME NEW n \in Nat, NEW scores \in [1 .. n -> Int], NEW take \in Nat \ {0}, NEW k \in 1 .. n,
         NEW kept, HeapHolds(scores, take, k - 1, kept),
         NEW new, new = KeptWith(scores, take, kept, k)
  PROVE  HeapHolds(scores, take, k, new)
<1>1. PICK l \in Nat : l = k - 1 /\ k = l + 1 /\ l < n
  OBVIOUS
<1>2. kept \subseteq 1 .. l /\ Cardinality(kept) = IF l < take THEN l ELSE take
  BY <1>1 DEF HeapHolds
<1>3. \A i \in (1 .. l) \ kept, j \in kept : ~Better(scores[i], scores[j])
  BY <1>1 DEF HeapHolds
<1>4. IsFiniteSet(1 .. l) /\ Cardinality(1 .. l) = l
  BY IndicesAre
<1>5. IsFiniteSet(kept)
  BY <1>2, <1>4, FS_Subset
<1>6. k \notin kept /\ scores[k] \in Int /\ \A i \in 1 .. l : scores[i] \in Int /\ i \in 1 .. k
  BY <1>1, <1>2
<1>7. 1 .. k = (1 .. l) \cup {k}
  BY <1>1
<1>8. CASE l < take
  <2>1. kept = 1 .. l
    <3>1. kept \in SUBSET (1 .. l) /\ Cardinality(1 .. l) = Cardinality(kept)
      BY <1>2, <1>4, <1>8
    <3> QED
      BY <1>4, <3>1, FS_Subset
  <2>2. new = 1 .. k
    <3>1. new = kept \cup {k}
      BY <1>2, <1>8 DEF KeptWith
    <3> QED
      BY <1>7, <2>1, <3>1
  <2>3. Cardinality(new) = IF k < take THEN k ELSE take
    <3>1. Cardinality(1 .. k) = k
      BY IndicesAre
    <3> QED
      BY <1>1, <1>8, <2>2, <3>1
  <2> QED
    BY <2>2, <2>3 DEF HeapHolds
<1>9. CASE ~(l < take)
  <2>1. Cardinality(kept) = take /\ kept # {}
    <3>1. Cardinality(kept) = take /\ take # 0
      BY <1>2, <1>9
    <3> QED
      BY <3>1, FS_EmptySet
  <2>2. PICK worst : worst = CHOOSE w \in kept : \A j \in kept : ~Better(scores[w], scores[j])
    OBVIOUS
  <2>3. worst \in kept /\ \A j \in kept : ~Better(scores[worst], scores[j])
    <3>1. \E w \in kept : \A j \in kept : ~Better(scores[w], scores[j])
      BY <1>2, <1>5, <1>6, <2>1, HasWorst
    <3> QED
      BY <2>2, <3>1
  <2>4. new = IF Better(scores[k], scores[worst]) THEN (kept \ {worst}) \cup {k} ELSE kept
    BY <1>2, <1>9, <2>2 DEF KeptWith
  <2>5. scores[worst] \in Int /\ worst \in 1 .. l /\ worst # k
    BY <1>2, <1>6, <2>3
  <2>6. ~(k < take)
    BY <1>1, <1>9
  <2>7. CASE Better(scores[k], scores[worst])
    <3>1. new = (kept \ {worst}) \cup {k} /\ new \subseteq 1 .. k
      <4>1. new = (kept \ {worst}) \cup {k}
        BY <2>4, <2>7, Zenon
      <4>2. kept \subseteq 1 .. l
        BY <1>2
      <4> QED
        BY <1>7, <4>1, <4>2, Zenon
    <3>2. Cardinality(new) = take
      <4>1. IsFiniteSet(kept \ {worst}) /\ Cardinality(kept \ {worst}) = take - 1
        BY <1>5, <2>1, <2>3, FS_RemoveElement
      <4>2. k \notin kept \ {worst}
        BY <1>6
      <4>3. Cardinality((kept \ {worst}) \cup {k}) = take - 1 + 1
        BY <4>1, <4>2, FS_AddElement
      <4> QED
        BY <3>1, <4>3
    <3>3. ~Better(scores[worst], scores[k])
      BY <1>6, <2>5, <2>7, BetterOrders
    <3>4. ASSUME NEW i \in (1 .. k) \ new, NEW j \in new PROVE ~Better(scores[i], scores[j])
      <4>1. i \in 1 .. l /\ (i = worst \/ i \notin kept)
        BY <1>1, <3>1
      <4>2. ~Better(scores[i], scores[worst]) /\ scores[i] \in Int
        BY <1>3, <1>6, <2>3, <4>1
      <4>3. CASE j = k
        BY <1>6, <2>5, <3>3, <4>2, <4>3, BetterOrders
      <4>4. CASE j # k
        <5>1. j \in kept
          BY <3>1, <4>4
        <5> QED
          BY <1>3, <2>3, <4>1, <5>1
      <4> QED
        BY <4>3, <4>4
    <3> QED
      BY <2>6, <3>1, <3>2, <3>4 DEF HeapHolds
  <2>8. CASE ~Better(scores[k], scores[worst])
    <3>1. new = kept /\ new \subseteq 1 .. k
      <4>1. new = kept
        BY <2>4, <2>8, Zenon
      <4>2. kept \subseteq 1 .. l
        BY <1>2
      <4> QED
        BY <1>7, <4>1, <4>2, Zenon
    <3>2. ASSUME NEW i \in (1 .. k) \ new, NEW j \in new PROVE ~Better(scores[i], scores[j])
      <4>1. CASE i = k
        <5>1. scores[j] \in Int /\ ~Better(scores[worst], scores[j])
          BY <1>2, <1>6, <2>3, <3>1
        <5> QED
          BY <1>6, <2>5, <2>8, <4>1, <5>1, BetterOrders
      <4>2. CASE i # k
        <5>1. i \in (1 .. l) \ kept
          BY <1>1, <3>1, <4>2
        <5> QED
          BY <1>3, <3>1, <5>1
      <4> QED
        BY <4>1, <4>2
    <3> QED
      BY <2>1, <2>6, <3>1, <3>2 DEF HeapHolds
  <2> QED
    BY <2>7, <2>8
<1> QED
  BY <1>8, <1>9

\* The heap after each of the scores.
IsKept(g, scores, take) ==
  g = [k \in 0 .. Len(scores) |-> IF k = 0 THEN {} ELSE KeptWith(scores, take, g[k - 1], k)]

\* The heap after the last score.
LEMMA KeptDef ==
  \A scores, take : Kept(scores, take) = (CHOOSE g : IsKept(g, scores, take))[Len(scores)]
BY DEF Kept, IsKept

\* What is left in the heap is the best of all scores.
LEMMA KeptIs ==
  ASSUME NEW n \in Nat, NEW scores \in [1 .. n -> Int], Len(scores) = n,
         NEW take \in Nat, n > 0 => take > 0
  PROVE  HeapHolds(scores, take, n, Kept(scores, take))
<1> DEFINE V == SUBSET (1 .. n)
           G == [p \in (1 .. n) \X V |-> KeptWith(scores, take, p[2], p[1])]
<1>1. ASSUME NEW k \in 1 .. n, NEW kept \in V PROVE KeptWith(scores, take, kept, k) \in V
  <2> DEFINE worst == CHOOSE w \in kept : \A j \in kept : ~Better(scores[w], scores[j])
  <2>1. \/ KeptWith(scores, take, kept, k) = kept \cup {k}
        \/ KeptWith(scores, take, kept, k) = (kept \ {worst}) \cup {k}
        \/ KeptWith(scores, take, kept, k) = kept
    BY Zenon DEF KeptWith
  <2> HIDE DEF worst
  <2> QED
    BY <2>1
<1>2. {} \in V /\ G \in [(1 .. n) \X V -> V]
  <2>1. \A p \in (1 .. n) \X V : KeptWith(scores, take, p[2], p[1]) \in V
    <3>1. \A p \in (1 .. n) \X V : p[1] \in 1 .. n /\ p[2] \in V
      OBVIOUS
    <3> HIDE DEF V
    <3> QED
      BY <1>1, <3>1
  <2> QED
    BY <2>1, Zenon
<1>3. PICK h \in [0 .. n -> V] : IsIteration(h, n, {}, G)
  <2> HIDE DEF G, V
  <2> QED
    BY <1>2, Iterates, Zenon
<1>4. h[0] = {} /\ \A k \in 1 .. n : h[k] = KeptWith(scores, take, h[k - 1], k)
  <2> SUFFICES ASSUME NEW k \in 1 .. n PROVE h[k] = KeptWith(scores, take, h[k - 1], k)
    BY <1>3 DEF IsIteration
  <2>1. h[k] = G[<<k, h[k - 1]>>]
    BY <1>3 DEF IsIteration
  <2>2. h[k - 1] \in V
    <3>1. k - 1 \in 0 .. n
      OBVIOUS
    <3> HIDE DEF V
    <3> QED
      BY <3>1
  <2>3. PICK p : p = <<k, h[k - 1]>> /\ p \in (1 .. n) \X V /\ p[1] = k /\ p[2] = h[k - 1]
    <3>1. PICK v \in V : v = h[k - 1]
      BY <2>2
    <3>2. <<k, v>> \in (1 .. n) \X V /\ <<k, v>>[1] = k /\ <<k, v>>[2] = v
      <4> HIDE DEF V
      <4> QED
        OBVIOUS
    <3> QED
      BY <3>1, <3>2
  <2>4. G[p] = KeptWith(scores, take, p[2], p[1])
    BY <2>3, Zenon
  <2> QED
    BY <2>1, <2>3, <2>4, Zenon
<1> HIDE DEF G, V
<1>5. IsKept(h, scores, take)
  <2> DEFINE R(k) == IF k = 0 THEN {} ELSE KeptWith(scores, take, h[k - 1], k)
  <2>1. \A k \in 0 .. n : h[k] = R(k)
    <3> SUFFICES ASSUME NEW k \in 0 .. n PROVE h[k] = R(k)
      OBVIOUS
    <3>1. k = 0 \/ k \in 1 .. n
      OBVIOUS
    <3>2. k \in 1 .. n => k # 0
      OBVIOUS
    <3> QED
      BY <1>4, <3>1, <3>2, Zenon
  <2>2. h = [k \in 0 .. n |-> h[k]]
    BY <1>3, Zenon
  <2>3. h = [k \in 0 .. n |-> R(k)]
    BY <2>1, <2>2, Zenon
  <2> QED
    BY <2>3 DEF IsKept
<1>6. PICK g : g = (CHOOSE f : IsKept(f, scores, take)) /\ IsKept(g, scores, take)
  BY <1>5
<1>7. /\ g[0] = {}
      /\ \A k \in 1 .. n : g[k] = KeptWith(scores, take, g[k - 1], k)
  <2>1. g = [k \in 0 .. n |-> IF k = 0 THEN {} ELSE KeptWith(scores, take, g[k - 1], k)]
    BY <1>6 DEF IsKept
  <2>2. 0 \in 0 .. n /\ \A k \in 1 .. n : k \in 0 .. n /\ k # 0
    OBVIOUS
  <2> QED
    BY <2>1, <2>2, Zenon
<1> DEFINE Bad == {k \in 0 .. n : ~HeapHolds(scores, take, k, g[k])}
<1>8. ASSUME Bad # {} PROVE FALSE
  <2>1. PICK k \in Bad : \A j \in Bad : k <= j
    <3>1. Bad \subseteq Nat
      OBVIOUS
    <3> HIDE DEF Bad
    <3> QED
      BY <1>8, <3>1, LeastNat
  <2>2. k \in 0 .. n /\ ~HeapHolds(scores, take, k, g[k])
    BY <2>1
  <2>3. k # 0
    <3>1. HeapHolds(scores, take, 0, {})
      BY FS_EmptySet DEF HeapHolds
    <3> QED
      BY <1>7, <2>2, <3>1
  <2>4. k \in 1 .. n /\ k - 1 \in 0 .. n /\ ~(k <= k - 1) /\ take \in Nat \ {0}
    BY <2>2, <2>3
  <2>5. HeapHolds(scores, take, k - 1, g[k - 1])
    BY <2>1, <2>4
  <2>6. HeapHolds(scores, take, k, KeptWith(scores, take, g[k - 1], k))
    BY <2>4, <2>5, KeptWithIs
  <2> QED
    BY <1>7, <2>2, <2>4, <2>6
<1>9. Kept(scores, take) = g[n]
  BY <1>6, KeptDef
<1>10. n \in 0 .. n
  OBVIOUS
<1> QED
  BY <1>8, <1>9, <1>10

\* `take` indices, each once, and each after all those of better scores.
IsBest(order, scores, n, take) ==
  /\ order \in [1 .. take -> 1 .. n] /\ IsInjective(order)
  /\ \A j \in 1 .. n, k \in 1 .. take :
       Better(scores[j], scores[order[k]]) => \E m \in 1 .. k - 1 : order[m] = j

\* The heap in order is the best of the scores.
LEMMA OrderIs ==
  ASSUME NEW n \in Nat, NEW scores \in [1 .. n -> Int], NEW take \in 0 .. n,
         NEW kept, HeapHolds(scores, take, n, kept), NEW order \in BestFirst(scores, kept)
  PROVE  IsBest(order, scores, n, take)
<1>1. /\ kept \subseteq 1 .. n /\ Cardinality(kept) = take
      /\ \A i \in (1 .. n) \ kept, j \in kept : ~Better(scores[i], scores[j])
  BY DEF HeapHolds
<1>2. PICK D : D = 1 .. take
  OBVIOUS
<1>3. /\ order \in [D -> kept] /\ \A i, j \in D : i # j => order[i] # order[j]
      /\ \A j, k \in DOMAIN order : j < k => ~Better(scores[order[k]], scores[order[j]])
  BY <1>1, <1>2 DEF BestFirst, SetToSeqs
<1>4. IsFiniteSet(kept) /\ Cardinality(D) = Cardinality(kept)
  <2>1. IsFiniteSet(1 .. n) /\ Cardinality(1 .. take) = take
    BY IndicesAre
  <2> QED
    BY <1>1, <1>2, <2>1, FS_Subset
<1>5. order \in Injection(D, kept)
  BY <1>3 DEF Injection, IsInjective
<1>6. order \in Surjection(D, kept)
  BY <1>4, <1>5, FS_Injection
<1>7. \A j \in kept : \E m \in D : order[m] = j
  BY <1>6 DEF Surjection
<1>8. ASSUME NEW j \in 1 .. n, NEW k \in 1 .. take, Better(scores[j], scores[order[k]])
      PROVE  \E m \in 1 .. k - 1 : order[m] = j
  <2>1. order[k] \in kept /\ order[k] \in 1 .. n
    BY <1>1, <1>2, <1>3
  <2>2. j \in kept
    BY <1>1, <1>8, <2>1
  <2>3. PICK m \in 1 .. take : order[m] = j
    BY <1>2, <1>7, <2>2
  <2>4. m # k
    <3>1. ~Better(scores[j], scores[j])
      BY BetterOrders
    <3> QED
      BY <1>8, <2>3, <3>1
  <2>5. ~(k < m)
    BY <1>2, <1>3, <1>8, <2>3
  <2>6. m \in 1 .. k - 1
    BY <2>4, <2>5
  <2> QED
    BY <2>3, <2>6
<1>9. order \in [1 .. take -> 1 .. n] /\ IsInjective(order)
  BY <1>1, <1>2, <1>3 DEF IsInjective
<1> QED
  BY <1>8, <1>9 DEF IsBest

-----------------------------------------------------------------------------
(* The two runs of slots *)

\* The lesser of two.
LEMMA MinOfTwo == \A a, b \in Int : Min({a, b}) = IF a <= b THEN a ELSE b
<1> SUFFICES ASSUME NEW a \in Int, NEW b \in Int
             PROVE  Min({a, b}) = IF a <= b THEN a ELSE b
  OBVIOUS
<1> DEFINE T == {a, b}
<1>1. IF a <= b THEN a \in T /\ \A y \in T : a <= y ELSE b \in T /\ \A y \in T : b <= y
  OBVIOUS
<1>2. \A y \in T : y \in Int
  OBVIOUS
<1> HIDE DEF T
<1>3. Min(T) = IF a <= b THEN a ELSE b
  BY <1>1, <1>2 DEF Min
<1> QED
  BY <1>3 DEF T

\* The slot of an entry less than a round later.
LEMMA SlotLater ==
  ASSUME NEW b \in Nat, NEW x \in Nat, x < Capacity
  PROVE  (b + x) % Capacity = IF (b % Capacity) + x < Capacity THEN (b % Capacity) + x
                                                               ELSE (b % Capacity) + x - Capacity
<1>1. Capacity \in Nat /\ Capacity > 0
  BY SlotsAssumption
<1> DEFINE q == b \div Capacity
           m == b % Capacity
<1>2. q \in Nat /\ m \in 0 .. Capacity - 1 /\ b = q * Capacity + m
  BY <1>1
<1> HIDE DEF q, m
<1>3. CASE m + x < Capacity
  <2>1. PICK y \in 0 .. Capacity - 1 : y = m + x
    BY <1>1, <1>2, <1>3
  <2>2. (q * Capacity + y) % Capacity = y
    BY <1>1, <1>2, <2>1
  <2>3. b + x = q * Capacity + y
    BY <1>1, <1>2, <2>1
  <2> QED
    BY <1>3, <2>1, <2>2, <2>3 DEF m
<1>4. CASE ~(m + x < Capacity)
  <2>1. PICK y \in 0 .. Capacity - 1 : y = m + x - Capacity
    BY <1>1, <1>2, <1>4
  <2>2. ((q + 1) * Capacity + y) % Capacity = y
    BY <1>1, <1>2, <2>1
  <2>3. (q + 1) * Capacity = q * Capacity + Capacity
    BY <1>1, <1>2
  <2>4. b + x = (q + 1) * Capacity + y
    BY <1>1, <1>2, <2>1, <2>3
  <2> QED
    BY <1>4, <2>1, <2>2, <2>4 DEF m
<1> QED
  BY <1>3, <1>4

\* Two runs of slots are the window: up to the end of the ring, and from its start.
LEMMA RunsAreWindow ==
  ASSUME NEW r, IsRing(r), NEW count, count = Cardinality(Window(r)),
         NEW start, start = Begin(r) % Capacity,
         NEW firstLen, firstLen = Min({count, Capacity - start})
  PROVE  /\ start \in 0 .. Capacity - 1 /\ count \in 0 .. Capacity /\ firstLen \in 0 .. count
         /\ \A k \in 1 .. firstLen : (Begin(r) + k - 1) % Capacity = start + k - 1
         /\ \A k \in firstLen + 1 .. count : (Begin(r) + k - 1) % Capacity = k - firstLen - 1
<1>1. PICK b \in Nat : b = Begin(r)
  BY BeginIs DEF IsRing
<1>2. PICK C \in Nat : C = Capacity /\ C > 0
  BY SlotsAssumption
<1>3. PICK n \in Nat : n = count /\ n <= C
  BY <1>2, BeginIs
<1>4. PICK m \in Nat : m = start /\ m < C
  BY <1>1, <1>2, SlotIn
<1>5. PICK f \in Nat : f = firstLen /\ f = IF n <= C - m THEN n ELSE C - m
  <2>1. n \in Int /\ C - m \in Nat
    BY <1>4
  <2> QED
    BY <1>2, <1>3, <1>4, <2>1, MinOfTwo
<1>6. n <= C /\ m < C /\ f = IF n <= C - m THEN n ELSE C - m
  BY <1>3, <1>4, <1>5
<1>7. ASSUME NEW k \in 1 .. n
      PROVE  (b + k - 1) % C = IF m + k - 1 < C THEN m + k - 1 ELSE m + k - 1 - C
  <2>1. PICK x \in Nat : x = k - 1 /\ x < C
    BY <1>3
  <2>2. (b + x) % Capacity = IF (b % Capacity) + x < Capacity THEN (b % Capacity) + x
                                                              ELSE (b % Capacity) + x - Capacity
    BY <1>2, <2>1, SlotLater
  <2>3. b + k - 1 = b + x /\ b % Capacity = m
    BY <1>1, <1>4, <2>1
  <2> QED
    BY <1>2, <2>1, <2>2, <2>3
<1>8. ASSUME NEW k \in 1 .. f PROVE (b + k - 1) % C = m + k - 1
  <2>1. k \in 1 .. n /\ m + k - 1 < C
    BY <1>6
  <2> QED
    BY <1>7, <2>1
<1>9. ASSUME NEW k \in f + 1 .. n PROVE (b + k - 1) % C = k - f - 1
  <2>1. k \in 1 .. n /\ f = C - m /\ ~(m + k - 1 < C)
    BY <1>6
  <2>2. (b + k - 1) % C = m + k - 1 - C
    BY <1>7, <2>1
  <2> QED
    BY <2>1, <2>2
<1>10. f \in 0 .. n /\ n \in 0 .. C /\ m \in 0 .. C - 1
  BY <1>6
<1> QED
  BY <1>1, <1>2, <1>3, <1>4, <1>5, <1>8, <1>9, <1>10

\* The entries a ring holds, and their slots.
LEMMA HeldIs ==
  ASSUME CallsInv, VecsHold, NEW s \in Sensors, NEW r, r = RingOf(s)
  PROVE  /\ Len(Held(s)) = Cardinality(Window(r)) /\ Cardinality(Window(r)) \in Nat
         /\ Held(s) \in Seq(Traffic)
         /\ \A k \in 1 .. Len(Held(s)) :
              /\ At(r, Begin(r) + k - 1).ts = Held(s)[k].ts
              /\ HoldsVec(int8, At(r, Begin(r) + k - 1), Held(s)[k].vec)
<1>1. PICK lg : lg = log[s]
  OBVIOUS
<1>2. /\ IsRing(r) /\ lg \in Seq(Traffic) /\ Len(lg) = r.head /\ SlotsHold(r, lg)
      /\ SlotVecs(int8, r, lg)
  BY <1>1 DEF CallsInv, RingsHold, RingInv, VecsHold
<1>3. PICK b \in Nat, h \in Nat :
        b = Begin(r) /\ h = r.head /\ b <= h /\ h - b <= Capacity /\ Cardinality(Window(r)) = h - b
  BY <1>2, BeginIs, SlotsAssumption DEF IsRing
<1>4. PICK held : held = SubSeq(lg, b + 1, h) /\ held = Held(s)
  BY <1>1, <1>3 DEF Held
<1>5. \A i \in b + 1 .. h : lg[i] \in Traffic
  BY <1>2, <1>3
<1>6. /\ held \in Seq(Traffic)
      /\ Len(held) = IF b + 1 <= h THEN h - (b + 1) + 1 ELSE 0
      /\ \A i \in 1 .. h - (b + 1) + 1 : held[i] = lg[(b + 1) + i - 1]
  <2>1. b + 1 \in Int /\ h \in Int
    OBVIOUS
  <2> QED
    BY <1>4, <1>5, <2>1, SubSeqProperties
<1>7. Len(held) = h - b
  BY <1>3, <1>6
<1>8. ASSUME NEW k \in 1 .. h - b
      PROVE  At(r, b + k - 1).ts = held[k].ts /\ HoldsVec(int8, At(r, b + k - 1), held[k].vec)
  <2>1. PICK i \in 0 .. h - 1 : i = b + k - 1 /\ i >= h - Capacity /\ i + 1 = (b + 1) + k - 1
    BY <1>3, SlotsAssumption
  <2>2. k \in 1 .. h - (b + 1) + 1
    OBVIOUS
  <2>3. held[k] = lg[i + 1]
    BY <1>6, <2>1, <2>2
  <2>4. At(r, i).ts = lg[i + 1].ts /\ HoldsVec(int8, At(r, i), lg[i + 1].vec)
    BY <1>2, <1>3, <2>1 DEF SlotsHold, SlotVecs
  <2> QED
    BY <2>1, <2>3, <2>4
<1>9. Cardinality(Window(r)) = Len(held) /\ Len(held) \in Nat
  BY <1>3, <1>7
<1> QED
  BY <1>3, <1>4, <1>6, <1>7, <1>8, <1>9

\* Entries and targets have norms, and the same length.
LEMMA VectorsAre ==
  ASSUME NEW e \in Traffic, NEW q \in Targets
  PROVE  HasNorm(e.vec) /\ HasNorm(q) /\ Len(e.vec) = Len(q)
<1> DEFINE vectors == {entry.vec : entry \in Traffic} \cup Targets
<1>1. e.vec \in vectors /\ q \in vectors
  OBVIOUS
<1>2. \A v \in vectors : HasNorm(v) /\ \A w \in vectors : Len(w) = Len(v)
  BY VectorsAssumption
<1> HIDE DEF vectors
<1> QED
  BY <1>1, <1>2

\* A score and what it is allowed to be.
IsCloseTo(score, ref) ==
  /\ score \in Int /\ ref.score \in Int /\ ref.off \in Nat
  /\ score - ref.score <= ref.off /\ ref.score - score <= ref.off

\* The score of an entry's slot.
LEMMA SlotScore ==
  ASSUME int8 \in BOOLEAN, cosine \in BOOLEAN, NEW e \in Traffic, NEW q \in Targets,
         NEW slot, HoldsVec(int8, slot, e.vec)
  PROVE  IsCloseTo(Score(int8, cosine, slot, q, Norm(q)), Reference(int8, cosine, e.vec, q))
<1>1. PICK v : v = e.vec
  OBVIOUS
<1>2. PICK i8 \in BOOLEAN, cos \in BOOLEAN : i8 = int8 /\ cos = cosine
  OBVIOUS
<1>3. HasNorm(v) /\ HasNorm(q) /\ Len(v) = Len(q)
  BY <1>1, VectorsAre
<1>4. /\ slot.vec = (IF i8 THEN Quantized(v).q ELSE v) /\ (i8 => slot.max = MaxAbs(v))
      /\ slot.norm = Norm(v)
  BY <1>1, <1>2 DEF HoldsVec
<1>5. LET score == Score(i8, cos, slot, q, Norm(q))
          ref == Reference(i8, cos, v, q)
      IN /\ score \in Int /\ ref.score \in Int /\ ref.off \in Nat
         /\ score - ref.score <= ref.off /\ ref.score - score <= ref.off
  BY <1>3, <1>4, KernelIsClose, Zenon
<1> QED
  BY <1>1, <1>2, <1>5 DEF IsCloseTo

\* Engine::FillScoresForRange: a score for each entry, in order.
LEMMA FillScoresIs ==
  ASSUME CallsInv, VecsHold, NEW s \in Sensors, NEW r, r = RingOf(s), NEW q \in Targets,
         NEW n, n = Len(Held(s)), NEW scores, scores = FillScores(r, q)
  PROVE  /\ scores \in [1 .. n -> Int] /\ Len(scores) = n /\ n \in Nat
         /\ n = Cardinality(Window(r))
         /\ \A k \in 1 .. n : IsCloseTo(scores[k], Reference(int8, cosine, Held(s)[k].vec, q))
<1>1. IsRing(r) /\ int8 \in BOOLEAN /\ cosine \in BOOLEAN
  BY DEF CallsInv, RingsHold, RingInv, EngineType
<1>2. PICK b \in Nat : b = Begin(r)
  BY <1>1, BeginIs DEF IsRing
<1>3. PICK count : count = Cardinality(Window(r))
  OBVIOUS
<1>4. PICK held \in Seq(Traffic) :
        /\ held = Held(s) /\ Len(held) = count /\ count \in Nat
        /\ \A k \in 1 .. count : HoldsVec(int8, At(r, b + k - 1), held[k].vec)
  BY <1>2, <1>3, HeldIs
<1> DEFINE sc(slot) == Score(int8, cosine, slot, q, Norm(q))
<1>5. ASSUME NEW k \in 1 .. count
      PROVE  IsCloseTo(sc(At(r, b + k - 1)), Reference(int8, cosine, held[k].vec, q))
  <2>1. held[k] \in Traffic /\ HoldsVec(int8, At(r, b + k - 1), held[k].vec)
    BY <1>4
  <2> QED
    BY <1>1, <2>1, SlotScore
<1>6. PICK start, firstLen : start = b % Capacity /\ firstLen = Min({count, Capacity - start})
  OBVIOUS
<1>7. /\ start \in 0 .. Capacity - 1 /\ firstLen \in 0 .. count
      /\ \A k \in 1 .. firstLen : (b + k - 1) % Capacity = start + k - 1
      /\ \A k \in firstLen + 1 .. count : (b + k - 1) % Capacity = k - firstLen - 1
  BY <1>1, <1>2, <1>3, <1>6, RunsAreWindow
<1>8. PICK len \in Nat, more \in Nat : len = firstLen /\ more = count - firstLen /\ count = len + more
  BY <1>4, <1>7
<1>9. PICK f, g : f = ScoresFrom(r, start, firstLen, q) /\ g = ScoresFrom(r, 0, count - firstLen, q)
  OBVIOUS
<1>10. /\ f = [k \in 1 .. len |-> sc(r.slots[start + k - 1])]
       /\ g = [k \in 1 .. more |-> sc(r.slots[0 + k - 1])]
  BY <1>8, <1>9, Zenon DEF ScoresFrom
<1>11. ASSUME NEW k \in 1 .. len PROVE f[k] = sc(At(r, b + k - 1)) /\ f[k] \in Int
  <2>1. (b + k - 1) % Capacity = start + k - 1 /\ k \in 1 .. count
    BY <1>7, <1>8
  <2>2. f[k] = sc(At(r, b + k - 1))
    BY <1>10, <2>1, Zenon DEF At
  <2> HIDE DEF sc
  <2> QED
    BY <1>5, <2>1, <2>2 DEF IsCloseTo
<1>12. ASSUME NEW k \in 1 .. more PROVE g[k] = sc(At(r, b + (k + len) - 1)) /\ g[k] \in Int
  <2>1. k + len \in firstLen + 1 .. count /\ k + len \in 1 .. count
    BY <1>8
  <2>2. (b + (k + len) - 1) % Capacity = (k + len) - firstLen - 1
    BY <1>7, <2>1
  <2>3. (k + len) - firstLen - 1 = 0 + k - 1
    BY <1>8
  <2>4. g[k] = sc(At(r, b + (k + len) - 1))
    BY <1>10, <2>2, <2>3, Zenon DEF At
  <2> HIDE DEF sc
  <2> QED
    BY <1>5, <2>1, <2>4 DEF IsCloseTo
<1> HIDE DEF sc
<1>13. f \in Seq(Int) /\ Len(f) = len /\ g \in Seq(Int) /\ Len(g) = more
  <2>1. /\ DOMAIN f = 1 .. len /\ f = [k \in 1 .. len |-> f[k]]
        /\ DOMAIN g = 1 .. more /\ g = [k \in 1 .. more |-> g[k]]
    BY <1>10
  <2>2. f \in [1 .. len -> Int] /\ g \in [1 .. more -> Int]
    BY <1>11, <1>12, <2>1
  <2> QED
    BY <2>2
<1>14. scores = f \o g
  BY <1>2, <1>3, <1>6, <1>9 DEF FillScores
<1>15. /\ scores \in Seq(Int) /\ Len(scores) = len + more
       /\ \A i \in 1 .. len + more : scores[i] = IF i <= len THEN f[i] ELSE g[i - len]
  <2>1. /\ f \o g \in Seq(Int) /\ Len(f \o g) = len + more
        /\ \A i \in 1 .. Len(f) + Len(g) : (f \o g)[i] = IF i <= Len(f) THEN f[i] ELSE g[i - Len(f)]
    BY <1>13, ConcatProperties
  <2> QED
    BY <1>13, <1>14, <2>1
<1>16. ASSUME NEW k \in 1 .. count PROVE scores[k] = sc(At(r, b + k - 1))
  <2>1. CASE k <= len
    <3>1. k \in 1 .. len /\ scores[k] = f[k]
      BY <1>8, <1>15, <2>1
    <3> QED
      BY <1>11, <3>1
  <2>2. CASE ~(k <= len)
    <3>1. k - len \in 1 .. more /\ scores[k] = g[k - len] /\ (k - len) + len = k
      BY <1>8, <1>15, <2>2
    <3> QED
      BY <1>12, <3>1
  <2> QED
    BY <2>1, <2>2
<1>17. n = count
  BY <1>4
<1>18. scores \in [1 .. count -> Int] /\ Len(scores) = count
  BY <1>8, <1>15
<1>19. \A k \in 1 .. count : IsCloseTo(scores[k], Reference(int8, cosine, held[k].vec, q))
  BY <1>5, <1>16
<1> QED
  BY <1>2, <1>3, <1>4, <1>17, <1>18, <1>19

-----------------------------------------------------------------------------
(* The rows of query_nearest_n *)

\* What an answer of query_nearest_n is to be.
Nearest(cos, held, ref, n, code, rows) ==
  LET fits(k, i) == /\ rows[k].ts = held[i].ts
                    /\ Abs(rows[k].score - ref[i].score) <= ref[i].off
      worse(i, j) == IF cos THEN ref[i].score + ref[i].off < ref[j].score - ref[j].off
                            ELSE ref[i].score - ref[i].off > ref[j].score + ref[j].off
  IN /\ Len(rows) = Min({n, Len(held)})
     /\ code = "PARTIAL_RESULT" <=> Len(rows) < n
     /\ \E match \in [DOMAIN rows -> DOMAIN held] :
          /\ IsInjective(match)
          /\ \A k \in DOMAIN rows :
              /\ fits(k, match[k])
              /\ \A j \in DOMAIN held :
                  worse(match[k], j) => \E m \in 1 .. k - 1 : match[m] = j

\* One score is worse than another by more than both may be off: it is worse.
LEMMA WorseIsWorse ==
  ASSUME cosine \in BOOLEAN, NEW a, NEW ra, IsCloseTo(a, ra), NEW b, NEW rb, IsCloseTo(b, rb),
         IF cosine THEN ra.score + ra.off < rb.score - rb.off
                   ELSE ra.score - ra.off > rb.score + rb.off
  PROVE  Better(b, a)
<1>1. PICK sa \in Int, oa \in Nat, sb \in Int, ob \in Nat :
        sa = ra.score /\ oa = ra.off /\ sb = rb.score /\ ob = rb.off
  BY DEF IsCloseTo
<1>2. /\ a \in Int /\ a - sa <= oa /\ sa - a <= oa
      /\ b \in Int /\ b - sb <= ob /\ sb - b <= ob
  BY <1>1 DEF IsCloseTo
<1>3. CASE cosine
  <2>1. sa + oa < sb - ob
    BY <1>1, <1>3
  <2>2. a < b
    BY <1>2, <2>1
  <2> QED
    BY <1>3, <2>2 DEF Better
<1>4. CASE ~cosine
  <2>1. sa - oa > sb + ob
    BY <1>1, <1>4
  <2>2. b < a
    BY <1>2, <2>1
  <2> QED
    BY <1>4, <2>2 DEF Better
<1> QED
  BY <1>3, <1>4

\* Engine::QueryNearestN.
LEMMA QueryNearestIsBest ==
  ASSUME CallsInv, VecsHold, NEW s \in Sensors, NEW q \in Targets, NEW n \in Counts,
         QueryNearestN(s, q, n)
  PROVE  NearestAreBest'
<1>1. PICK r, held, scores, count : /\ r = RingOf(s) /\ held = Held(s) /\ scores = FillScores(r, q)
                                    /\ count = Len(held)
  OBVIOUS
<1> DEFINE ref == [i \in 1 .. count |-> Reference(int8, cosine, held[i].vec, q)]
<1>2. /\ scores \in [1 .. count -> Int] /\ Len(scores) = count /\ count \in Nat
      /\ count = Cardinality(Window(r))
      /\ \A k \in 1 .. count : IsCloseTo(scores[k], ref[k])
  BY <1>1, FillScoresIs
<1>3. /\ held \in Seq(Traffic) /\ DOMAIN held = 1 .. count
      /\ \A k \in 1 .. count : At(r, Begin(r) + k - 1).ts = held[k].ts
  BY <1>1, HeldIs
<1>4. n \in Nat /\ n > 0 /\ cosine \in BOOLEAN
  BY QueriesAssumption DEF CallsInv, EngineType
<1>5. PICK take \in Nat : take = Min({n, count}) /\ take <= count /\ (count > 0 => take > 0)
  BY <1>2, <1>4, MinOfTwo
<1>6. PICK order \in BestFirst(scores, Kept(scores, take)) :
        answer' = [call |-> "query_nearest_n",
                   code |-> IF take < n THEN "PARTIAL_RESULT" ELSE "OK",
                   s |-> s, target |-> q, n |-> n,
                   rows |-> [k \in 1 .. take |->
                        [ts |-> At(r, Begin(r) + order[k] - 1).ts, score |-> scores[order[k]]]]]
  BY <1>1, <1>2, <1>5, Zenon DEF QueryNearestN
<1>7. HeapHolds(scores, take, count, Kept(scores, take))
  BY <1>2, <1>5, KeptIs
<1>8. /\ order \in [1 .. take -> 1 .. count] /\ IsInjective(order)
      /\ \A j \in 1 .. count, k \in 1 .. take :
           Better(scores[j], scores[order[k]]) => \E m \in 1 .. k - 1 : order[m] = j
  <2>1. scores \in [1 .. count -> Int] /\ count \in Nat /\ take \in 0 .. count
    BY <1>2, <1>5
  <2>2. PICK kept : kept = Kept(scores, take) /\ order \in BestFirst(scores, kept)
    OBVIOUS
  <2>3. HeapHolds(scores, take, count, kept)
    BY <1>7, <2>2
  <2>4. IsBest(order, scores, count, take)
    BY <2>1, <2>2, <2>3, OrderIs
  <2> HIDE DEF ref
  <2> QED
    BY <2>4 DEF IsBest
<1>9. PICK rows, code :
        /\ rows = [k \in 1 .. take |->
                     [ts |-> At(r, Begin(r) + order[k] - 1).ts, score |-> scores[order[k]]]]
        /\ code = IF take < n THEN "PARTIAL_RESULT" ELSE "OK"
  OBVIOUS
<1>10. Len(rows) = take /\ DOMAIN rows = 1 .. take
  BY <1>9
<1>11. ASSUME NEW k \in 1 .. take
       PROVE  /\ rows[k].ts = held[order[k]].ts
              /\ Abs(rows[k].score - ref[order[k]].score) <= ref[order[k]].off
  <2>1. order[k] \in 1 .. count
    BY <1>8
  <2>2. IsCloseTo(scores[order[k]], ref[order[k]])
    BY <1>2, <2>1
  <2>3. rows[k].ts = At(r, Begin(r) + order[k] - 1).ts /\ rows[k].score = scores[order[k]]
    BY <1>9
  <2> HIDE DEF ref
  <2> QED
    BY <1>3, <2>1, <2>2, <2>3 DEF IsCloseTo, Abs
<1>12. ASSUME NEW k \in 1 .. take, NEW j \in 1 .. count,
              IF cosine THEN ref[order[k]].score + ref[order[k]].off < ref[j].score - ref[j].off
                        ELSE ref[order[k]].score - ref[order[k]].off > ref[j].score + ref[j].off
       PROVE  \E m \in 1 .. k - 1 : order[m] = j
  <2>1. order[k] \in 1 .. count
    BY <1>8
  <2>2. IsCloseTo(scores[order[k]], ref[order[k]]) /\ IsCloseTo(scores[j], ref[j])
    BY <1>2, <2>1
  <2>3. Better(scores[j], scores[order[k]])
    <3> HIDE DEF ref
    <3> QED
      BY <1>4, <1>12, <2>2, WorseIsWorse
  <2> QED
    BY <1>8, <2>3
<1>13. Nearest(cosine, held, ref, n, code, rows)
  <2>1. \A k \in DOMAIN rows :
           /\ rows[k].ts = held[order[k]].ts
           /\ Abs(rows[k].score - ref[order[k]].score) <= ref[order[k]].off
           /\ \A j \in DOMAIN held :
                (IF cosine
                   THEN ref[order[k]].score + ref[order[k]].off < ref[j].score - ref[j].off
                   ELSE ref[order[k]].score - ref[order[k]].off > ref[j].score + ref[j].off)
                  => \E m \in 1 .. k - 1 : order[m] = j
    <3> HIDE DEF ref
    <3> QED
      BY <1>3, <1>10, <1>11, <1>12, Zenon
  <2>2. Len(rows) = Min({n, Len(held)})
    BY <1>1, <1>5, <1>10
  <2>3. code = "PARTIAL_RESULT" <=> Len(rows) < n
    BY <1>9, <1>10
  <2>4. order \in [DOMAIN rows -> DOMAIN held]
    BY <1>3, <1>8, <1>10
  <2> HIDE DEF ref
  <2> QED
    BY <1>8, <2>1, <2>2, <2>3, <2>4, Zenon DEF Nearest
<1>14. UNCHANGED <<int8, cosine, rings, log>>
  BY DEF QueryNearestN, queryOnly, configVars
<1>15. Held(s)' = Held(s)
  BY <1>14 DEF Held, RingOf, HasRing
<1>16. /\ answer'.s = s /\ answer'.target = q /\ answer'.n = n /\ answer'.code = code
       /\ answer'.rows = rows
  BY <1>6, <1>9
<1>17. ref = [i \in DOMAIN held |-> Reference(int8, cosine, held[i].vec, q)]
  BY <1>3
<1>18. Nearest(cosine, Held(answer.s),
               [i \in DOMAIN Held(answer.s) |->
                  Reference(int8, cosine, Held(answer.s)[i].vec, answer.target)],
               answer.n, answer.code, answer.rows)'
  <2> HIDE DEF ref
  <2> QED
    BY <1>1, <1>13, <1>14, <1>15, <1>16, <1>17
<1> QED
  BY <1>18, Zenon DEF NearestAreBest, Nearest

-----------------------------------------------------------------------------
(* The mean of the window *)

\* The terms of the sum of a run of slots.
SlotTerms(r, first, count, i) == [k \in first .. first + count - 1 |-> r.slots[k].vec[i]]

\* A run of slots is summed component by component.
LEMMA SumOfIs ==
  \A r, first, count, i :
    SumOf(r, first, count, i) = SumOver(SlotTerms(r, first, count, i), first .. first + count - 1)
<1> SUFFICES ASSUME NEW r, NEW first, NEW count, NEW i
             PROVE  SumOf(r, first, count, i)
                      = SumOver(SlotTerms(r, first, count, i), first .. first + count - 1)
  OBVIOUS
<1> DEFINE S == first .. first + count - 1
           P(g) == g = [s \in SUBSET S |->
                          IF s = {} THEN 0 ELSE r.slots[AnyOf(s)].vec[i] + g[s \ {AnyOf(s)}]]
<1>1. SumOf(r, first, count, i) = (CHOOSE g : P(g))[S]
  BY DEF SumOf, MapThenSumSet, MapThenFoldSet, AnyOf
<1>2. \A s \in SUBSET S : s # {} => SlotTerms(r, first, count, i)[AnyOf(s)] = r.slots[AnyOf(s)].vec[i]
  <2>1. SlotTerms(r, first, count, i) = [k \in S |-> r.slots[k].vec[i]]
    BY DEF SlotTerms
  <2> HIDE DEF S
  <2> QED
    BY <2>1, AnyOfIn
<1>3. \A g : P(g) <=> IsSum(g, SlotTerms(r, first, count, i), S)
  <2> HIDE DEF S
  <2> QED
    BY <1>2 DEF IsSum
<1>4. (CHOOSE g : P(g)) = SumFcn(SlotTerms(r, first, count, i), S)
  BY <1>3 DEF SumFcn
<1> QED
  BY <1>1, <1>4, SumOverIsSum

\* The terms of a mean of entries, and their sum as AnomalyIsOfTheWindow has it.
HeldTerms(held, i) == [k \in DOMAIN held |-> held[k].vec[i]]
HeldSum(held, i) == MapThenSumSet(LAMBDA k : held[k].vec[i], DOMAIN held)

\* The same of the entries.
LEMMA HeldSumIs ==
  \A held, i : HeldSum(held, i) = SumOver(HeldTerms(held, i), DOMAIN held)
<1> SUFFICES ASSUME NEW held, NEW i
             PROVE  HeldSum(held, i) = SumOver(HeldTerms(held, i), DOMAIN held)
  OBVIOUS
<1> DEFINE S == DOMAIN held
           P(g) == g = [s \in SUBSET S |->
                          IF s = {} THEN 0 ELSE held[AnyOf(s)].vec[i] + g[s \ {AnyOf(s)}]]
<1>1. HeldSum(held, i) = (CHOOSE g : P(g))[S]
  BY DEF HeldSum, MapThenSumSet, MapThenFoldSet, AnyOf
<1>2. \A s \in SUBSET S : s # {} => HeldTerms(held, i)[AnyOf(s)] = held[AnyOf(s)].vec[i]
  BY AnyOfIn DEF HeldTerms
<1>3. \A g : P(g) <=> IsSum(g, HeldTerms(held, i), S)
  BY <1>2 DEF IsSum
<1>4. (CHOOSE g : P(g)) = SumFcn(HeldTerms(held, i), S)
  BY <1>3 DEF SumFcn
<1> QED
  BY <1>1, <1>4, SumOverIsSum

\* The first `len` terms are at `start` of one run, the others at the start of the other.
AreRuns(f, len, more, g, start, h) ==
  /\ \A k \in 1 .. len + more : f[k] \in Int
  /\ \A k \in 1 .. len : g[start + k - 1] = f[k]
  /\ \A k \in len + 1 .. len + more : h[k - len - 1] = f[k]

\* The sums of two runs are the whole sum.
LEMMA SumOfRuns ==
  ASSUME NEW len \in Nat, NEW more \in Nat, NEW start \in Nat, NEW f, NEW g, NEW h,
         AreRuns(f, len, more, g, start, h)
  PROVE  SumOver(g, start .. start + len - 1) + SumOver(h, 0 .. more - 1)
           = SumOver(f, 1 .. len + more)
<1> DEFINE S == 1 .. len
           T == len + 1 .. len + more
           p == [k \in S |-> start + k - 1]
           q == [k \in T |-> k - len - 1]
<1>1. IsFiniteSet(S) /\ IsFiniteSet(T)
  BY FS_Interval
<1>2. S \cup T = 1 .. len + more /\ S \cap T = {}
  OBVIOUS
<1>3. {p[k] : k \in S} = start .. start + len - 1
  <2>1. ASSUME NEW y \in start .. start + len - 1 PROVE y \in {p[k] : k \in S}
    <3>1. y - start + 1 \in S /\ p[y - start + 1] = y
      OBVIOUS
    <3> HIDE DEF p, S
    <3> QED
      BY <3>1
  <2>2. \A k \in S : p[k] \in start .. start + len - 1
    OBVIOUS
  <2> HIDE DEF p, S
  <2> QED
    BY <2>1, <2>2
<1>4. {q[k] : k \in T} = 0 .. more - 1
  <2>1. ASSUME NEW y \in 0 .. more - 1 PROVE y \in {q[k] : k \in T}
    <3>1. y + len + 1 \in T /\ q[y + len + 1] = y
      OBVIOUS
    <3> HIDE DEF q, T
    <3> QED
      BY <3>1
  <2>2. \A k \in T : q[k] \in 0 .. more - 1
    OBVIOUS
  <2> HIDE DEF q, T
  <2> QED
    BY <2>1, <2>2
<1>5. SumOver(g, {p[k] : k \in S}) = SumOver(f, S)
  <2>1. \A x, y \in S : p[x] = p[y] => x = y
    OBVIOUS
  <2>2. \A k \in S : f[k] \in Int /\ g[p[k]] = f[k]
    BY DEF AreRuns
  <2> HIDE DEF p, q, S, T
  <2> QED
    BY <1>1, <2>1, <2>2, SumOverRenamed, SMTT(30)
<1>6. SumOver(h, {q[k] : k \in T}) = SumOver(f, T)
  <2>1. \A x, y \in T : q[x] = q[y] => x = y
    OBVIOUS
  <2>2. \A k \in T : f[k] \in Int /\ h[q[k]] = f[k]
    BY DEF AreRuns
  <2> HIDE DEF p, q, S, T
  <2> QED
    BY <1>1, <2>1, <2>2, SumOverRenamed, SMTT(30)
<1>7. SumOver(f, S \cup T) = SumOver(f, S) + SumOver(f, T)
  <2>1. \A k \in S \cup T : f[k] \in Int
    BY DEF AreRuns
  <2> HIDE DEF S, T
  <2> QED
    BY <1>1, <1>2, <2>1, SumOverUnion
<1> HIDE DEF S, T, p, q
<1> QED
  BY <1>2, <1>3, <1>4, <1>5, <1>6, <1>7

\* The two sums of detect_anomaly are the sum of the window.
LEMMA SumsAreWindow ==
  ASSUME CallsInv, VecsHold, ~int8, NEW s \in Sensors, NEW r, r = RingOf(s),
         NEW v \in Targets, NEW i \in DOMAIN v, NEW count, count = Cardinality(Window(r)),
         NEW start, start = Begin(r) % Capacity,
         NEW firstLen, firstLen = Min({count, Capacity - start}),
         NEW held, held = Held(s)
  PROVE  SumOf(r, start, firstLen, i) + SumOf(r, 0, count - firstLen, i) = HeldSum(held, i)
<1>1. IsRing(r)
  BY DEF CallsInv, RingsHold, RingInv
<1>2. PICK b : b = Begin(r)
  OBVIOUS
<1>3. /\ held \in Seq(Traffic) /\ Len(held) = count /\ count \in Nat
      /\ \A k \in 1 .. count : HoldsVec(int8, At(r, b + k - 1), held[k].vec)
  BY <1>2, HeldIs
<1>4. /\ start \in 0 .. Capacity - 1 /\ firstLen \in 0 .. count
      /\ \A k \in 1 .. firstLen : (b + k - 1) % Capacity = start + k - 1
      /\ \A k \in firstLen + 1 .. count : (b + k - 1) % Capacity = k - firstLen - 1
  BY <1>1, <1>2, RunsAreWindow
<1>5. PICK len \in Nat, more \in Nat, first \in Nat :
         len = firstLen /\ more = count - firstLen /\ count = len + more /\ first = start
  BY <1>3, <1>4
<1>6. PICK f, g, h : /\ f = HeldTerms(held, i) /\ g = SlotTerms(r, first, len, i)
                     /\ h = SlotTerms(r, 0, more, i)
  OBVIOUS
<1>7. ASSUME NEW k \in 1 .. count
      PROVE  f[k] \in Int /\ f[k] = At(r, b + k - 1).vec[i]
  <2>1. held[k] \in Traffic /\ k \in DOMAIN held
    BY <1>3
  <2>2. HasNorm(held[k].vec) /\ HasNorm(v) /\ Len(held[k].vec) = Len(v)
    BY <2>1, VectorsAre
  <2>3. i \in 1 .. Len(v) /\ held[k].vec \in [1 .. Len(v) -> Int]
    BY <2>2, IsTuple
  <2>4. f[k] = held[k].vec[i]
    BY <1>6, <2>1 DEF HeldTerms
  <2>5. At(r, b + k - 1).vec = held[k].vec
    BY <1>3 DEF HoldsVec
  <2> QED
    BY <2>3, <2>4, <2>5
<1>8. ASSUME NEW k \in 1 .. len PROVE g[first + k - 1] = f[k]
  <2>1. /\ k \in 1 .. count /\ (b + k - 1) % Capacity = first + k - 1
        /\ first + k - 1 \in first .. first + len - 1
    <3>1. k \in 1 .. firstLen
      BY <1>5
    <3>2. (b + k - 1) % Capacity = first + k - 1
      BY <1>4, <1>5, <3>1
    <3>3. k \in 1 .. len + more /\ first + k - 1 \in first .. first + len - 1
      OBVIOUS
    <3> QED
      BY <1>5, <3>2, <3>3
  <2>2. g[first + k - 1] = r.slots[first + k - 1].vec[i]
    BY <1>6, <2>1 DEF SlotTerms
  <2> QED
    BY <1>7, <2>1, <2>2 DEF At
<1>9. ASSUME NEW k \in len + 1 .. len + more PROVE h[k - len - 1] = f[k]
  <2>1. /\ k \in 1 .. count /\ (b + k - 1) % Capacity = k - len - 1
        /\ k - len - 1 \in 0 .. 0 + more - 1
    <3>1. k \in firstLen + 1 .. count
      BY <1>5
    <3>2. (b + k - 1) % Capacity = k - len - 1
      BY <1>4, <1>5, <3>1
    <3>3. k \in 1 .. len + more /\ k - len - 1 \in 0 .. 0 + more - 1
      OBVIOUS
    <3> QED
      BY <1>5, <3>2, <3>3
  <2>2. h[k - len - 1] = r.slots[k - len - 1].vec[i]
    BY <1>6, <2>1 DEF SlotTerms
  <2> QED
    BY <1>7, <2>1, <2>2 DEF At
<1>10. SumOver(g, first .. first + len - 1) + SumOver(h, 0 .. more - 1) = SumOver(f, 1 .. len + more)
  <2>1. \A k \in 1 .. len + more : f[k] \in Int
    BY <1>5, <1>7
  <2>2. AreRuns(f, len, more, g, first, h)
    BY <1>8, <1>9, <2>1 DEF AreRuns
  <2> QED
    BY <2>2, SumOfRuns
<1>11. SumOf(r, start, firstLen, i) = SumOver(g, first .. first + len - 1)
  BY <1>5, <1>6, SumOfIs
<1>12. SumOf(r, 0, count - firstLen, i) = SumOver(h, 0 .. more - 1)
  <2>1. 0 .. 0 + more - 1 = 0 .. more - 1
    OBVIOUS
  <2> QED
    BY <1>5, <1>6, <2>1, SumOfIs
<1>13. HeldSum(held, i) = SumOver(f, 1 .. len + more)
  <2>1. DOMAIN held = 1 .. len + more
    BY <1>3, <1>5
  <2> QED
    BY <1>6, <2>1, HeldSumIs
<1> QED
  BY <1>10, <1>11, <1>12, <1>13

\* What AnomalyIsOfTheWindow says of an answer, with the sums by HeldSum.
IsOfTheMean(held, v, threshold, anomalous) ==
    anomalous <=> held # <<>> /\ Exceeds([i \in DOMAIN v |-> HeldSum(held, i)], Len(held),
                                         v, threshold)

\* AnomalyIsOfTheWindow by IsOfTheMean, before a step and after it.
LEMMA AnomalyDef ==
  /\ AnomalyIsOfTheWindow <=>
       (answer.call = "detect_anomaly" /\ ~int8 =>
          IsOfTheMean(Held(answer.s), answer.v, answer.threshold, answer.anomalous))
  /\ AnomalyIsOfTheWindow' <=>
       (answer'.call = "detect_anomaly" /\ ~int8' =>
          IsOfTheMean(Held(answer.s), answer.v, answer.threshold, answer.anomalous)')
<1>1. AnomalyIsOfTheWindow <=>
        (answer.call = "detect_anomaly" /\ ~int8 =>
           IsOfTheMean(Held(answer.s), answer.v, answer.threshold, answer.anomalous))
  BY Zenon DEF AnomalyIsOfTheWindow, IsOfTheMean, HeldSum
<1>2. AnomalyIsOfTheWindow' <=>
        (answer'.call = "detect_anomaly" /\ ~int8' =>
           IsOfTheMean(Held(answer.s), answer.v, answer.threshold, answer.anomalous)')
  BY Zenon DEF AnomalyIsOfTheWindow, IsOfTheMean, HeldSum
<1> QED
  BY <1>1, <1>2

\* Engine::DetectAnomaly.
LEMMA AnomalyIsExact ==
  ASSUME CallsInv, VecsHold, NEW s \in Sensors, NEW v \in Targets, NEW threshold \in Thresholds,
         DetectAnomaly(s, v, threshold)
  PROVE  AnomalyIsOfTheWindow'
<1>1. PICK r, held, count, start, firstLen :
        /\ r = RingOf(s) /\ held = Held(s) /\ count = Cardinality(Window(r))
        /\ start = Begin(r) % Capacity /\ firstLen = Min({count, Capacity - start})
  OBVIOUS
<1>2. PICK sum : sum = [i \in DOMAIN v |->
                          SumOf(r, start, firstLen, i) + SumOf(r, 0, count - firstLen, i)]
  OBVIOUS
<1>3. PICK anomalous \in BOOLEAN :
        /\ count = 0 => ~anomalous
        /\ count > 0 /\ ~int8 => anomalous = Exceeds(sum, count, v, threshold)
        /\ answer' = [call |-> "detect_anomaly", code |-> "OK", s |-> s,
                      v |-> v, threshold |-> threshold, anomalous |-> anomalous]
  BY <1>1, <1>2, Zenon DEF DetectAnomaly
<1>4. UNCHANGED <<int8, cosine, rings, log>>
  BY DEF DetectAnomaly, queryOnly, configVars
<1>5. Held(s)' = Held(s)
  BY <1>4 DEF Held, RingOf, HasRing
<1>6. /\ answer'.s = s /\ answer'.v = v /\ answer'.threshold = threshold
      /\ answer'.anomalous = anomalous
  BY <1>3
<1> SUFFICES ASSUME ~int8
             PROVE  IsOfTheMean(Held(answer.s), answer.v, answer.threshold, answer.anomalous)'
  BY <1>4, AnomalyDef
<1>7. PICK total : total = [i \in DOMAIN v |-> HeldSum(held, i)]
  OBVIOUS
<1>8. sum = total
  <2>1. \A i \in DOMAIN v :
           SumOf(r, start, firstLen, i) + SumOf(r, 0, count - firstLen, i) = HeldSum(held, i)
    BY <1>1, SumsAreWindow
  <2> QED
    BY <1>2, <1>7, <2>1
<1>9. held \in Seq(Traffic) /\ Len(held) = count /\ count \in Nat
  BY <1>1, HeldIs
<1>10. held # <<>> <=> count > 0
  BY <1>9
<1>11. Exceeds(total, count, v, threshold)' <=> Exceeds(total, count, v, threshold)
  BY <1>4 DEF Exceeds
<1>12. anomalous <=> held # <<>> /\ Exceeds(total, count, v, threshold)'
  <2>1. CASE count = 0
    BY <1>3, <1>10, <2>1
  <2>2. CASE count > 0
    BY <1>3, <1>8, <1>10, <1>11, <2>2
  <2> QED
    BY <1>9, <2>1, <2>2
<1> QED
  BY <1>1, <1>4, <1>5, <1>6, <1>7, <1>9, <1>12 DEF IsOfTheMean, Exceeds

\* Only query_nearest_n and detect_anomaly answer with what they compute.
LEMMA AnswersStep ==
  CallsInv /\ VecsHold /\ AnswersAreOfTheWindow /\ [Next]_vars => AnswersAreOfTheWindow'
<1> SUFFICES ASSUME CallsInv, VecsHold, AnswersAreOfTheWindow, [Next]_vars
             PROVE  AnswersAreOfTheWindow'
  OBVIOUS
<1>1. answer'.call # "query_nearest_n" => NearestAreBest'
  BY DEF NearestAreBest
<1>2. answer'.call # "detect_anomaly" => AnomalyIsOfTheWindow'
  BY DEF AnomalyIsOfTheWindow
<1>3. ASSUME answer'.call \notin {"query_nearest_n", "detect_anomaly"}
      PROVE  AnswersAreOfTheWindow'
  BY <1>1, <1>2, <1>3 DEF AnswersAreOfTheWindow
<1>4. ASSUME NEW call \in {"refused", "append_batch", "preallocate", "flush", "maintain",
                           "drop_sensor", "list_sensors", "close", "none", "no_scratch"},
             NEW code, answer' = Answer(call, code)
      PROVE  AnswersAreOfTheWindow'
  BY <1>3, <1>4 DEF Answer
<1>5. ASSUME NEW s \in Sensors, NEW q \in Targets, NEW n \in Counts, QueryNearestN(s, q, n)
      PROVE  AnswersAreOfTheWindow'
  <2>1. answer'.call # "detect_anomaly"
    BY <1>5 DEF QueryNearestN
  <2> QED
    BY <1>2, <1>5, <2>1, QueryNearestIsBest DEF AnswersAreOfTheWindow
<1>6. ASSUME NEW s \in Sensors, NEW v \in Targets, NEW threshold \in Thresholds,
             DetectAnomaly(s, v, threshold)
      PROVE  AnswersAreOfTheWindow'
  <2>1. answer'.call # "query_nearest_n"
    BY <1>6 DEF DetectAnomaly
  <2> QED
    BY <1>1, <1>6, <2>1, AnomalyIsExact DEF AnswersAreOfTheWindow
<1>7. ASSUME NEW e \in Traffic, AppendOne(e) PROVE AnswersAreOfTheWindow'
  <2>1. answer'.call = "append"
    BY <1>7 DEF AppendOne
  <2> QED
    BY <1>3, <2>1
<1>8. ASSUME NEW e \in Traffic, NEW f \in Traffic, AppendBatch(e, f) PROVE AnswersAreOfTheWindow'
  BY <1>4, <1>8 DEF AppendBatch
<1>9. ASSUME NEW s \in Sensors, PreallocateSensor(s) PROVE AnswersAreOfTheWindow'
  BY <1>4, <1>9 DEF PreallocateSensor
<1>10. ASSUME NEW s \in Sensors, DropSensor(s) PROVE AnswersAreOfTheWindow'
  BY <1>4, <1>10 DEF DropSensor
<1>11. ASSUME NEW s \in Sensors, NEW range \in Ranges, NEW max \in Counts, QueryRange(s, range, max)
       PROVE  AnswersAreOfTheWindow'
  <2>1. answer'.call = "query_range"
    BY <1>11 DEF QueryRange
  <2> QED
    BY <1>3, <2>1
<1>12. ASSUME NEW s \in Sensors, NEW call \in Calls, NEW faults \in Faults, Refused(call, s, faults)
       PROVE  AnswersAreOfTheWindow'
  BY <1>4, <1>12 DEF Refused
<1>13. CASE Flush
  BY <1>4, <1>13 DEF Flush
<1>14. CASE MaintainSlidingWindow
  BY <1>4, <1>14 DEF MaintainSlidingWindow
<1>15. ASSUME NEW max \in Counts, ListSensors(max) PROVE AnswersAreOfTheWindow'
  <2>1. answer'.call = "list_sensors"
    BY <1>15 DEF ListSensors, Answer
  <2> QED
    BY <1>3, <2>1
<1>16. CASE Close
  BY <1>4, <1>16 DEF Close
<1>17. CASE Return
  BY <1>4, <1>17 DEF Return, NoAnswer
<1>18. ASSUME NEW s \in Sensors, NEW call, IngestNoScratch(call, s) \/ QueryNoScratch(call, s)
       PROVE  AnswersAreOfTheWindow'
  BY <1>4, <1>18 DEF IngestNoScratch, QueryNoScratch
<1>19. CASE UNCHANGED vars
  <2>1. UNCHANGED <<int8, cosine, rings, log, answer>>
    BY <1>19 DEF vars, configVars
  <2>2. Held(answer.s)' = Held(answer.s)
    BY <2>1 DEF Held, RingOf, HasRing
  <2>3. NearestAreBest'
    BY <2>1, <2>2 DEF AnswersAreOfTheWindow, NearestAreBest
  <2>4. AnomalyIsOfTheWindow'
    BY <2>1, <2>2, AnomalyDef DEF AnswersAreOfTheWindow, IsOfTheMean, Exceeds
  <2> QED
    BY <2>3, <2>4 DEF AnswersAreOfTheWindow
<1> QED
  BY <1>5, <1>6, <1>7, <1>8, <1>9, <1>10, <1>11, <1>12, <1>13, <1>14, <1>15, <1>16, <1>17, <1>18,
     <1>19 DEF Next, Call

\* query_nearest_n returns the best of the window, best first, each entry once,
\* up to what quantization loses; detect_anomaly compares with the mean of the
\* window (engine.cpp:681-731, 800-838, kernels.cpp:35-220).
THEOREM AnswersAreExact == Spec => []AnswersAreOfTheWindow
<1>1. Init => VecsHold /\ AnswersAreOfTheWindow
  <2> SUFFICES ASSUME Init PROVE VecsHold /\ AnswersAreOfTheWindow
    OBVIOUS
  <2>1. VecsHold
    BY VecsInit
  <2>2. answer.call = "none"
    BY DEF Init, NoAnswer, Answer
  <2> QED
    BY <2>1, <2>2 DEF AnswersAreOfTheWindow, NearestAreBest, AnomalyIsOfTheWindow
<1> QED
  BY <1>1, Invariance, VecsStep, AnswersStep, PTL DEF Spec

=============================================================================
