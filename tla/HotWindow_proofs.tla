---------------------------- MODULE HotWindow_proofs ----------------------------
(***************************************************************************)
(* Proofs about HotWindow, for any capacity, timestamps, windows and        *)
(* bounds.                                                                  *)
(*                                                                         *)
(* The recursive functions of the model (what HotOnly keeps, what           *)
(* RehydrateSensorRing has replayed) are first shown to exist, by Iterates, *)
(* and then described without recursion by minimal counterexamples.         *)
(* WindowInv says that the rows of the blocks, block after block, and then  *)
(* the ring are in the order of the appends: a pass only moves the border   *)
(* between the two.                                                         *)
(***************************************************************************)
EXTENDS HotWindow, FiniteLemmas, SequenceTheorems

-----------------------------------------------------------------------------
(* HotOnly *)

\* The recursive function behind it.
IsKept(g, seq, cutoff) ==
  g = [k \in 0 .. Len(seq) |->
        IF k = 0 THEN <<>>
        ELSE IF seq[k].ts >= cutoff THEN Append(g[k - 1], seq[k]) ELSE g[k - 1]]
KeptFcn(seq, cutoff) == CHOOSE g : IsKept(g, seq, cutoff)

\* HotOnly is that function's value for the whole sequence.
LEMMA HotOnlyIs == \A seq, cutoff : HotOnly(seq, cutoff) = KeptFcn(seq, cutoff)[Len(seq)]
BY DEF HotOnly, KeptFcn, IsKept

\* The function exists, and keeps entries of the sequence.
LEMMA KeptExists ==
  ASSUME NEW S, NEW seq \in Seq(S), NEW cutoff
  PROVE  /\ IsKept(KeptFcn(seq, cutoff), seq, cutoff)
         /\ KeptFcn(seq, cutoff) \in [0 .. Len(seq) -> Seq(S)]
<1> DEFINE n == Len(seq)
           G == [p \in (1 .. n) \X Seq(S) |->
                    IF seq[p[1]].ts >= cutoff THEN Append(p[2], seq[p[1]]) ELSE p[2]]
<1>1. n \in Nat /\ <<>> \in Seq(S) /\ G \in [(1 .. n) \X Seq(S) -> Seq(S)]
  OBVIOUS
<1>2. PICK h \in [0 .. n -> Seq(S)] : IsIteration(h, n, <<>>, G)
  <2> HIDE DEF G, n
  <2> QED
    BY <1>1, Iterates, Zenon
<1>3. ASSUME NEW g \in [0 .. n -> Seq(S)], g[0] = <<>>,
             \A i \in 1 .. n : g[i] = G[<<i, g[i - 1]>>]
      PROVE  IsKept(g, seq, cutoff)
  <2>1. ASSUME NEW k \in 0 .. n
        PROVE  g[k] = IF k = 0 THEN <<>>
                      ELSE IF seq[k].ts >= cutoff THEN Append(g[k - 1], seq[k]) ELSE g[k - 1]
    <3>1. CASE k = 0
      BY <3>1, <1>3
    <3>2. CASE k # 0
      <4>1. k \in 1 .. n /\ g[k - 1] \in Seq(S)
        BY <1>1, <3>2
      <4> QED
        BY <4>1, <1>3, <3>2
    <3> QED
      BY <3>1, <3>2
  <2> QED
    BY <2>1 DEF IsKept
<1>4. IsKept(h, seq, cutoff)
  BY <1>2, <1>3 DEF IsIteration
<1>5. IsKept(KeptFcn(seq, cutoff), seq, cutoff)
  BY <1>4 DEF KeptFcn
<1>6. PICK g : g = KeptFcn(seq, cutoff)
  OBVIOUS
<1>7. ASSUME NEW k \in 0 .. n PROVE g[k] \in Seq(S)
  <2> DEFINE Bad == {i \in 0 .. n : g[i] \notin Seq(S)}
  <2> SUFFICES ASSUME Bad # {} PROVE FALSE
    BY <1>7
  <2>1. PICK i \in Bad : \A j \in Bad : i <= j
    <3>1. Bad \subseteq Nat
      OBVIOUS
    <3> HIDE DEF Bad
    <3> QED
      BY <3>1, LeastNat
  <2>2. i \in 0 .. n /\ g[i] \notin Seq(S)
    BY <2>1
  <2>3. i # 0
    BY <1>5, <1>6, <2>2 DEF IsKept
  <2>4. i - 1 \in 0 .. n /\ i \in 1 .. n
    BY <2>2, <2>3
  <2>5. g[i - 1] \in Seq(S)
    BY <2>1, <2>4
  <2>6. g[i] = Append(g[i - 1], seq[i]) \/ g[i] = g[i - 1]
    BY <1>5, <1>6, <2>2, <2>3 DEF IsKept
  <2>7. seq[i] \in S
    BY <2>4
  <2> QED
    <3>1. Append(g[i - 1], seq[i]) \in Seq(S)
      BY <2>5, <2>7, AppendProperties
    <3> QED
      BY <2>2, <2>5, <2>6, <3>1
<1>8. g = [k \in 0 .. n |-> g[k]]
  BY <1>5, <1>6 DEF IsKept
<1> QED
  BY <1>5, <1>6, <1>7, <1>8

\* It keeps the entries that are young enough.
LEMMA HotOnlyKeeps ==
  ASSUME NEW S, NEW seq \in Seq(S), NEW cutoff
  PROVE  /\ HotOnly(seq, cutoff) \in Seq(S)
         /\ ToSet(HotOnly(seq, cutoff)) = {e \in ToSet(seq) : e.ts >= cutoff}
<1>1. PICK g : g = KeptFcn(seq, cutoff)
  OBVIOUS
<1>2. IsKept(g, seq, cutoff) /\ g \in [0 .. Len(seq) -> Seq(S)] /\ Len(seq) \in Nat
  BY <1>1, KeptExists
<1>3. ASSUME NEW k \in 0 .. Len(seq)
      PROVE  ToSet(g[k]) = {seq[i] : i \in {j \in 1 .. k : seq[j].ts >= cutoff}}
  <2> DEFINE Hot(i) == {seq[l] : l \in {j \in 1 .. i : seq[j].ts >= cutoff}}
             Bad == {i \in 0 .. Len(seq) : ToSet(g[i]) # Hot(i)}
  <2> SUFFICES ASSUME Bad # {} PROVE FALSE
    BY <1>3
  <2>1. PICK i \in Bad : \A j \in Bad : i <= j
    <3>1. Bad \subseteq Nat
      BY <1>2
    <3> HIDE DEF Bad
    <3> QED
      BY <3>1, LeastNat
  <2>2. i \in 0 .. Len(seq) /\ ToSet(g[i]) # Hot(i)
    BY <2>1
  <2>3. i # 0
    <3> SUFFICES ASSUME i = 0 PROVE FALSE
      OBVIOUS
    <3>1. ToSet(g[0]) = {}
      BY <1>2 DEF IsKept, ToSet
    <3> QED
      BY <3>1, <2>2
  <2>4. i - 1 \in 0 .. Len(seq) /\ i \in 1 .. Len(seq) /\ seq[i] \in S
    BY <1>2, <2>2, <2>3
  <2>5. ToSet(g[i - 1]) = Hot(i - 1)
    <3>1. ~(i <= i - 1)
      BY <2>2
    <3>2. i - 1 \notin Bad
      BY <2>1, <3>1, Zenon
    <3> HIDE DEF Hot
    <3> QED
      BY <2>4, <3>2
  <2>6. PICK before \in Seq(S) : before = g[i - 1]
    BY <1>2, <2>4
  <2>7. \A j : j \in 1 .. i <=> j \in 1 .. i - 1 \/ j = i
    BY <2>4
  <2>8. CASE seq[i].ts >= cutoff
    <3>1. g[i] = Append(before, seq[i])
      BY <1>2, <2>2, <2>3, <2>6, <2>8 DEF IsKept
    <3>2. ToSet(Append(before, seq[i])) = ToSet(before) \cup {seq[i]}
      <4>1. PICK all \in Seq(S) : all = Append(before, seq[i])
        BY <2>4, AppendProperties
      <4>2. /\ Len(before) \in Nat /\ Len(all) = Len(before) + 1
            /\ \A l \in 1 .. Len(before) : all[l] = before[l]
            /\ all[Len(before) + 1] = seq[i]
        BY <4>1, <2>4, AppendProperties
      <4>3. DOMAIN all = 1 .. Len(before) + 1 /\ DOMAIN before = 1 .. Len(before)
        BY <4>2
      <4> QED
        BY <4>1, <4>2, <4>3 DEF ToSet
    <3>3. Hot(i) = Hot(i - 1) \cup {seq[i]}
      BY <2>7, <2>8
    <3> QED
      BY <2>2, <2>5, <2>6, <3>1, <3>2, <3>3
  <2>9. CASE ~(seq[i].ts >= cutoff)
    <3>1. g[i] = g[i - 1]
      BY <1>2, <2>2, <2>3, <2>9 DEF IsKept
    <3>2. Hot(i) = Hot(i - 1)
      BY <2>7, <2>9
    <3> QED
      BY <2>2, <2>5, <3>1, <3>2
  <2> QED
    BY <2>8, <2>9
<1>4. Len(seq) \in 0 .. Len(seq) /\ DOMAIN seq = 1 .. Len(seq)
  BY <1>2
<1>5. HotOnly(seq, cutoff) = g[Len(seq)]
  BY <1>1, HotOnlyIs
<1>6. ToSet(g[Len(seq)]) = {seq[i] : i \in {j \in 1 .. Len(seq) : seq[j].ts >= cutoff}}
  BY <1>3, <1>4
<1>7. {e \in ToSet(seq) : e.ts >= cutoff} = {seq[i] : i \in {j \in 1 .. Len(seq) : seq[j].ts >= cutoff}}
  BY <1>4 DEF ToSet
<1> QED
  BY <1>2, <1>4, <1>5, <1>6, <1>7

\* When the old entries come first, it is what follows them.
LEMMA HotOnlySuffix ==
  ASSUME NEW S, NEW seq \in Seq(S), NEW cutoff, NEW k \in 0 .. Len(seq),
         \A i \in 1 .. k : ~(seq[i].ts >= cutoff),
         \A i \in k + 1 .. Len(seq) : seq[i].ts >= cutoff
  PROVE  HotOnly(seq, cutoff) = SubSeq(seq, k + 1, Len(seq))
<1>1. PICK g : g = KeptFcn(seq, cutoff)
  OBVIOUS
<1>2. IsKept(g, seq, cutoff) /\ g \in [0 .. Len(seq) -> Seq(S)] /\ Len(seq) \in Nat
  BY <1>1, KeptExists
<1>3. ASSUME NEW j \in 0 .. Len(seq) PROVE g[j] = SubSeq(seq, k + 1, j)
  <2> DEFINE Bad == {i \in 0 .. Len(seq) : g[i] # SubSeq(seq, k + 1, i)}
  <2> SUFFICES ASSUME Bad # {} PROVE FALSE
    BY <1>3
  <2>1. PICK i \in Bad : \A l \in Bad : i <= l
    <3>1. Bad \subseteq Nat
      BY <1>2
    <3> HIDE DEF Bad
    <3> QED
      BY <3>1, LeastNat
  <2>2. i \in 0 .. Len(seq) /\ g[i] # SubSeq(seq, k + 1, i)
    BY <2>1
  <2>3. i # 0
    <3>1. g[0] = <<>>
      BY <1>2 DEF IsKept
    <3>2. SubSeq(seq, k + 1, 0) = <<>>
      BY SubSeqEmpty
    <3> QED
      BY <2>2, <3>1, <3>2
  <2>4. i - 1 \in 0 .. Len(seq) /\ i \in 1 .. Len(seq)
    BY <1>2, <2>2, <2>3
  <2>5. g[i - 1] = SubSeq(seq, k + 1, i - 1)
    BY <2>1, <2>4
  <2>6. CASE i <= k
    <3>1. g[i] = g[i - 1]
      BY <1>2, <2>2, <2>3, <2>4, <2>6 DEF IsKept
    <3>2. SubSeq(seq, k + 1, i) = <<>> /\ SubSeq(seq, k + 1, i - 1) = <<>>
      BY <2>4, <2>6, SubSeqEmpty
    <3> QED
      BY <2>2, <2>5, <3>1, <3>2
  <2>7. CASE i > k
    <3>1. g[i] = Append(g[i - 1], seq[i])
      <4>1. seq[i].ts >= cutoff
        BY <2>4, <2>7
      <4> QED
        BY <1>2, <2>2, <2>3, <4>1 DEF IsKept
    <3>2. k + 1 \in 1 .. Len(seq) /\ i \in k + 1 .. Len(seq)
      BY <2>4, <2>7
    <3>3. SubSeq(seq, k + 1, i) = SubSeq(seq, k + 1, i - 1) \o <<seq[i]>>
      BY <3>2, SubSeqRecursiveSecond
    <3>4. g[i - 1] \in Seq(S) /\ seq[i] \in S
      <4>1. g[i - 1] \in Seq(S)
        BY <1>2, <2>4
      <4>2. seq[i] \in S
        BY <2>4
      <4> QED
        BY <4>1, <4>2
    <3>5. Append(g[i - 1], seq[i]) = g[i - 1] \o <<seq[i]>>
      BY <3>4, AppendIsConcat
    <3> QED
      BY <2>2, <2>5, <3>1, <3>3, <3>5
  <2> QED
    BY <2>4, <2>6, <2>7
<1>4. HotOnly(seq, cutoff) = g[Len(seq)]
  BY <1>1, HotOnlyIs
<1>5. Len(seq) \in 0 .. Len(seq)
  BY <1>2
<1> QED
  BY <1>3, <1>4, <1>5

-----------------------------------------------------------------------------
(* What a pass takes *)

\* The two fields of an entry.
LEMMA EntryFields == \A e \in Entries : e.n \in Nat /\ e.ts \in Times
BY DEF Entries

\* Timestamps are naturals here, the limits of int64 being shifted.
LEMMA TimesAreNat ==
  /\ MinTime \in Nat /\ MaxTime \in Nat
  /\ \A t \in Times : t \in Nat /\ MinTime <= t /\ t <= MaxTime
BY TimesAssumption, LimitsAssumption

\* The newest timestamp of a ring that holds something.
LEMMA LatestIs ==
  ASSUME NEW r \in Seq(Entries), r # <<>>
  PROVE  Latest(r) \in Times /\ \A i \in 1 .. Len(r) : r[i].ts <= Latest(r)
<1> DEFINE T == {r[i].ts : i \in DOMAIN r}
<1>1. \A i \in DOMAIN r : r[i].ts \in Times
  BY EntryFields
<1>2. T \subseteq Times /\ T # {}
  BY <1>1
<1>3. T \subseteq Nat /\ MaxTime \in Nat /\ \A n \in T : n <= MaxTime
  BY <1>2, TimesAreNat
<1>4. Max(T) \in T /\ \A n \in T : n <= Max(T)
  <2> HIDE DEF T
  <2> QED
    BY <1>2, <1>3, MaxIs
<1> QED
  BY <1>2, <1>4 DEF Latest

\* The leading run is all old, and ends at an entry that is not.
LEMMA LeadingOldIs ==
  ASSUME NEW r \in Seq(Entries), NEW cutoff
  PROVE  /\ LeadingOld(r, cutoff) \in 0 .. Len(r)
         /\ \A i \in 1 .. LeadingOld(r, cutoff) : r[i].ts < cutoff
         /\ LeadingOld(r, cutoff) < Len(r) => ~(r[LeadingOld(r, cutoff) + 1].ts < cutoff)
<1> DEFINE T == {k \in 0 .. Len(r) : \A i \in 1 .. k : r[i].ts < cutoff}
<1>1. Len(r) \in Nat /\ 0 \in T /\ T \subseteq Nat /\ \A n \in T : n <= Len(r)
  OBVIOUS
<1>2. Max(T) \in T /\ \A n \in T : n <= Max(T)
  <2> HIDE DEF T
  <2> QED
    BY <1>1, MaxIs
<1>3. PICK k : k = LeadingOld(r, cutoff)
  OBVIOUS
<1>4. k \in T /\ \A n \in T : n <= k
  BY <1>2, <1>3 DEF LeadingOld
<1>5. ASSUME k < Len(r), r[k + 1].ts < cutoff PROVE FALSE
  <2>1. k + 1 \in 0 .. Len(r) /\ \A i \in 1 .. k + 1 : i \in 1 .. k \/ i = k + 1
    BY <1>1, <1>4, <1>5
  <2>2. k + 1 \in T
    BY <2>1, <1>4, <1>5
  <2> QED
    BY <2>2, <1>4, <1>1
<1> QED
  BY <1>3, <1>4, <1>5

\* A time within the limits of int64 is itself.
LEMMA NotWrapped ==
  ASSUME NEW t \in MinTime .. MaxTime
  PROVE  Wrapped(t) = t
<1>1. MinTime \in Nat /\ MaxTime \in Nat /\ t \in Int
  BY LimitsAssumption
<1>2. PICK a \in Nat : a = t - MinTime
  BY <1>1
<1>3. PICK m \in Nat : m = MaxTime - MinTime + 1
  BY <1>1
<1>4. a < m
  BY <1>1, <1>2, <1>3
<1>5. a % m = a
  BY <1>4
<1> QED
  BY <1>1, <1>2, <1>3, <1>5 DEF Wrapped

\* What a pass takes is there.
LEMMA EvictLengthIs ==
  ASSUME NEW w, ring \in Seq(Entries)
  PROVE  /\ EvictLength(w) \in 0 .. Len(ring)
         /\ EvictLength(w) > 0 => ring # <<>>
         /\ ring # <<>> /\ w # 0 => EvictLength(w) = LeadingOld(ring, Cutoff(ring, w))
<1>1. CASE ring = <<>>
  BY <1>1 DEF EvictLength
<1>2. CASE ring # <<>> /\ w = 0
  BY <1>2 DEF EvictLength
<1>3. CASE ring # <<>> /\ w # 0
  <2>1. EvictLength(w) = LeadingOld(ring, Cutoff(ring, w))
    BY <1>3 DEF EvictLength
  <2> QED
    BY <1>3, <2>1, LeadingOldIs
<1> QED
  BY <1>1, <1>2, <1>3

\* The scratch holds timestamps, at least as many as the block has rows.
LEMMA CopiedToIs ==
  ASSUME NEW old \in Seq(Times), NEW rows \in Seq(Entries), rows # <<>>
  PROVE  /\ CopiedTo(old, rows) \in Seq(Times)
         /\ Last(CopiedTo(old, rows)) \in Times
<1>1. Len(old) \in Nat /\ Len(rows) \in Nat /\ Len(rows) > 0
  OBVIOUS
<1>2. PICK m \in Nat : m = Max({Len(old), Len(rows)})
  BY <1>1, MaxOfTwo
<1>3. m >= Len(old) /\ m >= Len(rows) /\ (m = Len(old) \/ m = Len(rows))
  BY <1>1, <1>2, MaxOfTwo
<1>4. \A i \in 1 .. m : (IF i <= Len(rows) THEN rows[i].ts ELSE old[i]) \in Times
  <2>1. \A i \in 1 .. Len(rows) : rows[i].ts \in Times
    BY EntryFields
  <2> QED
    BY <1>1, <1>3, <2>1
<1>5. PICK new : new = CopiedTo(old, rows)
  OBVIOUS
<1>6. new = [i \in 1 .. m |-> IF i <= Len(rows) THEN rows[i].ts ELSE old[i]]
  BY <1>2, <1>5 DEF CopiedTo
<1>7. new \in [1 .. m -> Times]
  BY <1>4, <1>6
<1>8. new \in Seq(Times) /\ Len(new) = m
  BY <1>7
<1>9. m \in 1 .. m
  BY <1>1, <1>3
<1> QED
  BY <1>5, <1>7, <1>8, <1>9 DEF Last

-----------------------------------------------------------------------------
(* What is replayed *)

Blocks == [rows : Seq(Entries) \ {<<>>}, tEnd : Times, readable : BOOLEAN]
Rings == {s \in Seq(Entries) : Len(s) <= Capacity}
Replays == [ring : Rings, returned : BOOLEAN]

\* The rows of a block are entries, and there are some.
LEMMA RowFields ==
  ASSUME NEW log \in Seq(Blocks)
  PROVE  \A b \in 1 .. Len(log) :
            /\ b \in DOMAIN log
            /\ log[b].rows \in Seq(Entries)
            /\ DOMAIN log[b].rows = 1 .. Len(log[b].rows)
            /\ \A i \in 1 .. Len(log[b].rows) : log[b].rows[i].n \in Nat
<1> SUFFICES ASSUME NEW b \in 1 .. Len(log)
             PROVE  /\ b \in DOMAIN log
                    /\ log[b].rows \in Seq(Entries)
                    /\ DOMAIN log[b].rows = 1 .. Len(log[b].rows)
                    /\ \A i \in 1 .. Len(log[b].rows) : log[b].rows[i].n \in Nat
  OBVIOUS
<1>1. b \in DOMAIN log /\ log[b] \in Blocks
  OBVIOUS
<1>2. PICK rows \in Seq(Entries) : rows = log[b].rows
  BY <1>1 DEF Blocks
<1>3. \A i \in 1 .. Len(rows) : rows[i].n \in Nat
  BY EntryFields
<1> QED
  BY <1>1, <1>2, <1>3

\* A concatenation holds what its parts hold.
LEMMA ToSetOfConcat ==
  ASSUME NEW S, NEW s \in Seq(S), NEW t \in Seq(S)
  PROVE  ToSet(s \o t) = ToSet(s) \cup ToSet(t)
<1>1. PICK u \in Seq(S) : u = s \o t
  BY ConcatProperties
<1>2. PICK m \in Nat, n \in Nat : m = Len(s) /\ n = Len(t)
  OBVIOUS
<1>3. /\ Len(u) = m + n
      /\ \A i \in 1 .. m + n : u[i] = IF i <= m THEN s[i] ELSE t[i - m]
  BY <1>1, <1>2, ConcatProperties
<1>4. DOMAIN u = 1 .. m + n /\ DOMAIN s = 1 .. m /\ DOMAIN t = 1 .. n
  BY <1>2, <1>3
<1>5. ASSUME NEW x \in ToSet(u) PROVE x \in ToSet(s) \cup ToSet(t)
  <2>1. PICK i \in 1 .. m + n : x = u[i]
    BY <1>4 DEF ToSet
  <2>2. CASE i <= m
    <3>1. i \in 1 .. m /\ u[i] = s[i]
      BY <1>3, <2>2
    <3> QED
      BY <2>1, <3>1, <1>4 DEF ToSet
  <2>3. CASE ~(i <= m)
    <3>1. i - m \in 1 .. n /\ u[i] = t[i - m]
      BY <1>3, <2>3
    <3> QED
      BY <2>1, <3>1, <1>4 DEF ToSet
  <2> QED
    BY <2>2, <2>3
<1>6. ASSUME NEW x \in ToSet(s) PROVE x \in ToSet(u)
  <2>1. PICK i \in 1 .. m : x = s[i]
    BY <1>4 DEF ToSet
  <2>2. i \in 1 .. m + n /\ u[i] = s[i]
    BY <1>3
  <2> QED
    BY <2>1, <2>2, <1>4 DEF ToSet
<1>7. ASSUME NEW x \in ToSet(t) PROVE x \in ToSet(u)
  <2>1. PICK i \in 1 .. n : x = t[i]
    BY <1>4 DEF ToSet
  <2>2. i + m \in 1 .. m + n /\ u[i + m] = t[i]
    BY <1>3
  <2> QED
    BY <2>1, <2>2, <1>4 DEF ToSet
<1> QED
  BY <1>1, <1>5, <1>6, <1>7

\* One round gives a ring within the capacity.
LEMMA ReplayBlockTyped ==
  ASSUME NEW replay \in Replays, NEW b \in Blocks, NEW cutoff
  PROVE  ReplayBlock(replay, b, cutoff) \in Replays
<1>1. PICK hot : hot = HotRows(b, cutoff)
  OBVIOUS
<1>2. b.rows \in Seq(Entries)
  BY DEF Blocks
<1>3. hot \in Seq(Entries)
  BY <1>1, <1>2, HotOnlyKeeps DEF HotRows
<1>4. CASE replay.returned \/ ~b.readable
  BY <1>4 DEF ReplayBlock
<1>5. CASE /\ ~(replay.returned \/ ~b.readable)
           /\ b.tEnd < cutoff \/ Len(replay.ring) + Len(hot) > Capacity
  <2>1. ReplayBlock(replay, b, cutoff) = [replay EXCEPT !.returned = TRUE]
    BY <1>1, <1>5 DEF ReplayBlock
  <2> QED
    BY <2>1 DEF Replays
<1>6. CASE /\ ~(replay.returned \/ ~b.readable)
           /\ ~(b.tEnd < cutoff \/ Len(replay.ring) + Len(hot) > Capacity)
  <2>1. ReplayBlock(replay, b, cutoff) = [replay EXCEPT !.ring = @ \o hot]
    BY <1>1, <1>6 DEF ReplayBlock
  <2>2. PICK r \in Rings : r = replay.ring
    BY DEF Replays
  <2>3. r \in Seq(Entries) /\ Len(r) \in Nat /\ Len(hot) \in Nat
    BY <1>3 DEF Rings
  <2>4. r \o hot \in Seq(Entries) /\ Len(r \o hot) = Len(r) + Len(hot)
    BY <1>3, <2>3, ConcatProperties
  <2>5. r \o hot \in Rings
    BY <1>6, <2>2, <2>3, <2>4, CapacityAssumption DEF Rings
  <2> QED
    BY <2>1, <2>2, <2>5 DEF Replays
<1> QED
  BY <1>4, <1>5, <1>6

\* The recursive function behind Replay.
IsReplay(g, log, cutoff) ==
  g = [k \in 0 .. Len(log) |->
        IF k = 0 THEN [ring |-> <<>>, returned |-> FALSE]
                 ELSE ReplayBlock(g[k - 1], log[Len(log) - k + 1], cutoff)]
ReplayFcn(log, cutoff) == CHOOSE g : IsReplay(g, log, cutoff)

\* Replay is that function's last value.
LEMMA ReplayIs == \A cutoff : Replay(cutoff) = ReplayFcn(blocks, cutoff)[Len(blocks)]
BY DEF Replay, ReplayFcn, IsReplay

\* The values of such a function, one after the other.
LEMMA ReplaySteps ==
  ASSUME NEW g, NEW log \in Seq(Blocks), NEW cutoff, IsReplay(g, log, cutoff)
  PROVE  /\ g[0] = [ring |-> <<>>, returned |-> FALSE]
         /\ \A k \in 1 .. Len(log) :
              g[k] = ReplayBlock(g[k - 1], log[Len(log) - k + 1], cutoff)
<1>1. Len(log) \in Nat /\ 0 \in 0 .. Len(log)
  OBVIOUS
<1>2. g[0] = [ring |-> <<>>, returned |-> FALSE]
  BY <1>1 DEF IsReplay
<1>3. ASSUME NEW k \in 1 .. Len(log)
      PROVE  g[k] = ReplayBlock(g[k - 1], log[Len(log) - k + 1], cutoff)
  <2>1. k \in 0 .. Len(log) /\ k # 0
    BY <1>1
  <2> QED
    BY <2>1 DEF IsReplay
<1> QED
  BY <1>2, <1>3

\* The function exists, and every value of it is a ring within the capacity.
LEMMA ReplayExists ==
  ASSUME NEW log \in Seq(Blocks), NEW cutoff
  PROVE  /\ IsReplay(ReplayFcn(log, cutoff), log, cutoff)
         /\ \A k \in 0 .. Len(log) : ReplayFcn(log, cutoff)[k] \in Replays
<1> DEFINE n == Len(log)
           a == [ring |-> <<>>, returned |-> FALSE]
           G == [p \in (1 .. n) \X Replays |-> ReplayBlock(p[2], log[n - p[1] + 1], cutoff)]
<1>1. n \in Nat
  OBVIOUS
<1>2. a \in Replays
  <2>1. <<>> \in Rings
    BY CapacityAssumption DEF Rings
  <2> QED
    BY <2>1 DEF Replays
<1>3. ASSUME NEW k \in 1 .. n, NEW r \in Replays
      PROVE  ReplayBlock(r, log[n - k + 1], cutoff) \in Replays
  <2>1. log[n - k + 1] \in Blocks
    BY <1>1
  <2> QED
    BY <2>1, ReplayBlockTyped
<1>4. G \in [(1 .. n) \X Replays -> Replays]
  BY <1>3
<1>5. PICK h \in [0 .. n -> Replays] : IsIteration(h, n, a, G)
  <2> HIDE DEF G, n, a
  <2> QED
    BY <1>1, <1>2, <1>4, Iterates, Zenon
<1>6. ASSUME NEW g \in [0 .. n -> Replays], g[0] = a,
             \A i \in 1 .. n : g[i] = G[<<i, g[i - 1]>>]
      PROVE  IsReplay(g, log, cutoff)
  <2>1. ASSUME NEW k \in 0 .. n
        PROVE  g[k] = IF k = 0 THEN a ELSE ReplayBlock(g[k - 1], log[n - k + 1], cutoff)
    <3>1. CASE k = 0
      BY <3>1, <1>6
    <3>2. CASE k # 0
      <4>1. k \in 1 .. n /\ g[k - 1] \in Replays
        BY <1>1, <3>2
      <4>2. G[<<k, g[k - 1]>>] = ReplayBlock(g[k - 1], log[n - k + 1], cutoff)
        BY <4>1
      <4> HIDE DEF G, a
      <4> QED
        BY <4>1, <4>2, <1>6, <3>2
    <3> QED
      BY <3>1, <3>2
  <2>2. g = [k \in 0 .. n |-> g[k]]
    OBVIOUS
  <2> QED
    BY <2>1, <2>2, Zenon DEF IsReplay
<1>7. IsReplay(h, log, cutoff)
  <2> HIDE DEF G, a
  <2> QED
    BY <1>5, <1>6 DEF IsIteration
<1>8. IsReplay(ReplayFcn(log, cutoff), log, cutoff)
  BY <1>7 DEF ReplayFcn
<1>9. PICK g : g = ReplayFcn(log, cutoff)
  OBVIOUS
<1>10. g[0] = a /\ \A k \in 1 .. n : g[k] = ReplayBlock(g[k - 1], log[n - k + 1], cutoff)
  BY <1>8, <1>9, ReplaySteps
<1>11. ASSUME NEW k \in 0 .. n PROVE g[k] \in Replays
  <2> DEFINE Bad == {i \in 0 .. n : g[i] \notin Replays}
  <2> SUFFICES ASSUME Bad # {} PROVE FALSE
    BY <1>11
  <2>1. PICK i \in Bad : \A j \in Bad : i <= j
    <3>1. Bad \subseteq Nat
      OBVIOUS
    <3> HIDE DEF Bad
    <3> QED
      BY <3>1, LeastNat
  <2>2. i \in 0 .. n /\ g[i] \notin Replays
    BY <2>1
  <2>3. i # 0
    BY <1>10, <1>2, <2>2
  <2>4. i \in 1 .. n /\ i - 1 \in 0 .. n /\ ~(i <= i - 1)
    BY <1>1, <2>2, <2>3
  <2>5. g[i - 1] \in Replays
    <3>1. i - 1 \notin Bad
      BY <2>1, <2>4, Zenon
    <3> QED
      BY <3>1, <2>4
  <2>6. g[i] \in Replays
    BY <2>4, <2>5, <1>3, <1>10
  <2> QED
    BY <2>2, <2>6
<1> QED
  BY <1>8, <1>9, <1>11

\* The hot rows of the readable blocks from position m on.
HotFrom(log, m, cutoff) ==
  {e \in UNION {ToSet(log[j].rows) : j \in {i \in m .. Len(log) : log[i].readable}} : e.ts >= cutoff}

\* As long as nothing made the function return, all that is hot in the blocks
\* seen so far is in the ring, and nothing else.
LEMMA ReplayedSoFar ==
  ASSUME NEW log \in Seq(Blocks), NEW cutoff
  PROVE  \A k \in 0 .. Len(log) :
            \/ ReplayFcn(log, cutoff)[k].returned
            \/ ToSet(ReplayFcn(log, cutoff)[k].ring) = HotFrom(log, Len(log) - k + 1, cutoff)
<1>1. PICK g : g = ReplayFcn(log, cutoff)
  OBVIOUS
<1>2. PICK n \in Nat : n = Len(log)
  OBVIOUS
<1>3. /\ g[0] = [ring |-> <<>>, returned |-> FALSE]
      /\ \A k \in 1 .. n : g[k] = ReplayBlock(g[k - 1], log[n - k + 1], cutoff)
      /\ \A k \in 0 .. n : g[k] \in Replays
  <2>1. IsReplay(g, log, cutoff) /\ \A k \in 0 .. n : g[k] \in Replays
    BY <1>1, <1>2, ReplayExists
  <2> QED
    BY <2>1, <1>2, ReplaySteps
<1> DEFINE Good(k) == g[k].returned \/ ToSet(g[k].ring) = HotFrom(log, n - k + 1, cutoff)
           Bad == {k \in 0 .. n : ~Good(k)}
<1> SUFFICES ASSUME Bad # {} PROVE FALSE
  BY <1>1, <1>2
<1>4. PICK k \in Bad : \A j \in Bad : k <= j
  <2>1. Bad \subseteq Nat
    OBVIOUS
  <2> HIDE DEF Bad
  <2> QED
    BY <2>1, LeastNat
<1>5. k \in 0 .. n /\ ~Good(k)
  BY <1>4
<1>6. k # 0
  <2> SUFFICES ASSUME k = 0 PROVE FALSE
    OBVIOUS
  <2>1. ToSet(g[0].ring) = {}
    BY <1>3 DEF ToSet
  <2>2. HotFrom(log, n + 1, cutoff) = {}
    BY <1>2 DEF HotFrom
  <2> QED
    BY <2>1, <2>2, <1>5
<1>7. k \in 1 .. n /\ k - 1 \in 0 .. n /\ ~(k <= k - 1)
  BY <1>5, <1>6
<1>8. Good(k - 1)
  <2>1. k - 1 \notin Bad
    BY <1>4, <1>7, Zenon
  <2> HIDE DEF Good
  <2> QED
    BY <2>1, <1>7
<1>9. PICK replay \in Replays : replay = g[k - 1]
  BY <1>3, <1>7
<1>10. PICK m \in 1 .. n : m = n - k + 1
  BY <1>7
<1>11. PICK b \in Blocks : b = log[m]
  BY <1>2
<1>12. g[k] = ReplayBlock(replay, b, cutoff)
  BY <1>3, <1>7, <1>9, <1>10, <1>11
<1>13. replay.returned \/ ToSet(replay.ring) = HotFrom(log, m + 1, cutoff)
  <2>1. n - (k - 1) + 1 = m + 1
    BY <1>7, <1>10
  <2> QED
    BY <1>8, <1>9, <2>1
<1>14. ~g[k].returned /\ ToSet(g[k].ring) # HotFrom(log, m, cutoff)
  BY <1>5, <1>10
<1>15. \A i : i \in m .. Len(log) <=> i = m \/ i \in m + 1 .. Len(log)
  BY <1>2
<1>16. CASE replay.returned
  <2>1. g[k] = replay
    BY <1>12, <1>16 DEF ReplayBlock
  <2> QED
    BY <2>1, <1>14, <1>16
<1>17. CASE ~replay.returned /\ ~b.readable
  <2>1. g[k] = replay
    BY <1>12, <1>17 DEF ReplayBlock
  <2>2. {i \in m .. Len(log) : log[i].readable} = {i \in m + 1 .. Len(log) : log[i].readable}
    BY <1>11, <1>15, <1>17
  <2>3. HotFrom(log, m, cutoff) = HotFrom(log, m + 1, cutoff)
    BY <2>2 DEF HotFrom
  <2> QED
    BY <2>1, <2>3, <1>13, <1>14, <1>17
<1>18. CASE ~replay.returned /\ b.readable
  <2>1. PICK hot : hot = HotRows(b, cutoff)
    OBVIOUS
  <2>2. b.rows \in Seq(Entries)
    BY DEF Blocks
  <2>3. hot \in Seq(Entries) /\ ToSet(hot) = {e \in ToSet(b.rows) : e.ts >= cutoff}
    BY <2>1, <2>2, HotOnlyKeeps DEF HotRows
  <2>4. CASE b.tEnd < cutoff \/ Len(replay.ring) + Len(hot) > Capacity
    <3>1. g[k] = [replay EXCEPT !.returned = TRUE]
      BY <1>12, <1>18, <2>1, <2>4 DEF ReplayBlock
    <3>2. g[k].returned
      BY <3>1 DEF Replays
    <3> QED
      BY <3>2, <1>14
  <2>5. CASE ~(b.tEnd < cutoff \/ Len(replay.ring) + Len(hot) > Capacity)
    <3>1. g[k] = [replay EXCEPT !.ring = @ \o hot]
      BY <1>12, <1>18, <2>1, <2>5 DEF ReplayBlock
    <3>2. PICK r \in Rings : r = replay.ring
      BY DEF Replays
    <3>3. g[k].ring = r \o hot
      BY <3>1, <3>2 DEF Replays
    <3>4. r \in Seq(Entries)
      BY DEF Rings
    <3>5. ToSet(r \o hot) = ToSet(r) \cup ToSet(hot)
      BY <3>4, <2>3, ToSetOfConcat
    <3>6. HotFrom(log, m, cutoff) = HotFrom(log, m + 1, cutoff) \cup ToSet(hot)
      BY <1>11, <1>15, <1>18, <2>3 DEF HotFrom
    <3> QED
      BY <3>2, <3>3, <3>5, <3>6, <1>13, <1>14, <1>18
  <2> QED
    BY <2>4, <2>5
<1> QED
  BY <1>16, <1>17, <1>18

-----------------------------------------------------------------------------
(* The inductive invariant *)

WindowType ==
    /\ recover \in BOOLEAN
    /\ window \in Windows /\ savedWindow \in Windows \ {0}
    /\ ring \in Rings
    /\ appended \in Nat /\ latest \in Times \cup {Never}
    /\ blocks \in Seq(Blocks)
    /\ scratch \in Seq(Times)
    /\ opens \in Nat /\ rotten \in Nat

\* The ring is in the order of the appends, and comes after every block.
RingOrdered ==
    ~recover =>
      /\ \A i, j \in 1 .. Len(ring) : i < j => ring[i].n < ring[j].n
      /\ \A i \in 1 .. Len(ring) : ring[i].n < appended
      /\ \A b \in 1 .. Len(blocks) : \A i \in 1 .. Len(blocks[b].rows) :
            /\ blocks[b].rows[i].n < appended
            /\ \A j \in 1 .. Len(ring) : blocks[b].rows[i].n < ring[j].n

WindowInv == WindowType /\ RingOrdered /\ PersistedOnce

\* The ring an append leaves: the entry at the head, and at most one entry gone.
LEMMA AppendedToIs ==
  ASSUME NEW r \in Rings, NEW e \in Entries
  PROVE  /\ AppendedTo(r, e) \in Rings
         /\ Len(AppendedTo(r, e)) > 0
         /\ AppendedTo(r, e)[Len(AppendedTo(r, e))] = e
         /\ \E d \in {0, 1} :
              /\ Len(AppendedTo(r, e)) = Len(r) + 1 - d
              /\ \A i \in 1 .. Len(AppendedTo(r, e)) - 1 :
                    i + d \in 1 .. Len(r) /\ AppendedTo(r, e)[i] = r[i + d]
<1>1. r \in Seq(Entries) /\ Len(r) \in Nat /\ Len(r) <= Capacity
      /\ Capacity \in Nat /\ Capacity > 0
  BY CapacityAssumption DEF Rings
<1>2. <<e>> \in Seq(Entries) /\ Len(<<e>>) = 1 /\ <<e>>[1] = e
  OBVIOUS
<1>3. PICK new : new = AppendedTo(r, e)
  OBVIOUS
<1>4. CASE Len(r) < Capacity
  <2>1. new = r \o <<e>>
    BY <1>3, <1>4 DEF AppendedTo
  <2>2. /\ new \in Seq(Entries) /\ Len(new) = Len(r) + 1
        /\ \A i \in 1 .. Len(r) + 1 : new[i] = IF i <= Len(r) THEN r[i] ELSE <<e>>[i - Len(r)]
    BY <1>1, <1>2, <2>1, ConcatProperties
  <2>3. new[Len(r) + 1] = e
    BY <1>1, <1>2, <2>2
  <2>4. new \in Rings
    BY <1>1, <1>4, <2>2 DEF Rings
  <2>5. \A i \in 1 .. Len(new) - 1 : i + 0 \in 1 .. Len(r) /\ new[i] = r[i + 0]
    BY <1>1, <2>2
  <2>6. Len(new) = Len(r) + 1 - 0 /\ Len(new) > 0 /\ new[Len(new)] = e
    BY <1>1, <2>2, <2>3
  <2> QED
    BY <1>3, <2>4, <2>5, <2>6
<1>5. CASE ~(Len(r) < Capacity)
  <2>1. new = Tail(r) \o <<e>>
    BY <1>3, <1>5 DEF AppendedTo
  <2>2. Len(r) > 0 /\ r # <<>>
    BY <1>1, <1>5
  <2>3. PICK t \in Seq(Entries) : t = Tail(r) /\ Len(t) = Len(r) - 1
                                  /\ \A i \in 1 .. Len(r) - 1 : t[i] = r[i + 1]
    <3>1. /\ Tail(r) \in Seq(Entries) /\ Len(Tail(r)) = Len(r) - 1
          /\ \A i \in 1 .. Len(Tail(r)) : Tail(r)[i] = r[i + 1]
      BY <1>1, <2>2, HeadTailProperties
    <3> QED
      BY <3>1
  <2>4. /\ new \in Seq(Entries) /\ Len(new) = Len(t) + 1
        /\ \A i \in 1 .. Len(t) + 1 : new[i] = IF i <= Len(t) THEN t[i] ELSE <<e>>[i - Len(t)]
    <3>1. PICK u \in Seq(Entries) : u = <<e>> /\ Len(u) = 1
      BY <1>2
    <3>2. new = t \o u
      BY <2>1, <2>3, <3>1
    <3>3. /\ t \o u \in Seq(Entries) /\ Len(t \o u) = Len(t) + Len(u)
          /\ \A i \in 1 .. Len(t) + Len(u) :
               (t \o u)[i] = IF i <= Len(t) THEN t[i] ELSE u[i - Len(t)]
      BY ConcatProperties
    <3> QED
      BY <3>1, <3>2, <3>3
  <2>5. new[Len(t) + 1] = e /\ Len(t) \in Nat
    BY <1>1, <1>2, <2>3, <2>4
  <2>6. new \in Rings
    BY <1>1, <2>3, <2>4 DEF Rings
  <2>7. \A i \in 1 .. Len(new) - 1 : i + 1 \in 1 .. Len(r) /\ new[i] = r[i + 1]
    BY <1>1, <2>3, <2>4
  <2>8. Len(new) = Len(r) + 1 - 1 /\ Len(new) > 0 /\ new[Len(new)] = e
    BY <1>1, <2>2, <2>3, <2>4, <2>5
  <2> QED
    BY <1>3, <2>6, <2>7, <2>8
<1> QED
  BY <1>4, <1>5

\* What a pass does: the leading entries are the rows of one more block, and the
\* others are left.
LEMMA PassSplits ==
  ASSUME NEW w, WindowType, EvictSensor(w)
  PROVE  \E k \in 1 .. Len(ring), b \in Blocks :
            /\ k = EvictLength(w)
            /\ blocks' = Append(blocks, b)
            /\ Len(b.rows) = k /\ \A i \in 1 .. k : b.rows[i] = ring[i]
            /\ ring' \in Rings /\ Len(ring') = Len(ring) - k
            /\ \A i \in 1 .. Len(ring) - k : ring'[i] = ring[k + i]
            /\ scratch' \in Seq(Times)
<1>1. PICK n \in Nat : n = Len(ring)
  BY DEF WindowType, Rings
<1>2. ring \in Seq(Entries) /\ n <= Capacity /\ Capacity \in Nat
  BY <1>1, CapacityAssumption DEF WindowType, Rings
<1>3. PICK k \in 1 .. n : k = EvictLength(w)
  BY <1>1, <1>2, EvictLengthIs DEF EvictSensor
<1>4. PICK rows : rows = SubSeq(ring, 1, k)
  OBVIOUS
<1>5. \A i \in 1 .. n : ring[i] \in Entries
  BY <1>1, <1>2
<1>6. rows \in Seq(Entries) /\ Len(rows) = k /\ \A i \in 1 .. k : rows[i] = ring[i]
  BY <1>4, <1>5, SubSeqProperties
<1>7. rows # <<>>
  BY <1>6
<1>8. scratch' = CopiedTo(scratch, rows)
  BY <1>3, <1>4 DEF EvictSensor
<1>9. scratch' \in Seq(Times) /\ Last(scratch') \in Times
  BY <1>6, <1>7, <1>8, CopiedToIs DEF WindowType
<1>10. PICK b : b = Block(rows, scratch')
  OBVIOUS
<1>11. b \in Blocks /\ b.rows = rows
  BY <1>6, <1>7, <1>9, <1>10 DEF Block, Blocks
<1>12. blocks' = Append(blocks, b)
  BY <1>3, <1>4, <1>10 DEF EvictSensor
<1>13. ring' = SubSeq(ring, k + 1, n)
  BY <1>1, <1>3 DEF EvictSensor
<1>14. /\ ring' \in Seq(Entries) /\ Len(ring') = n - k
       /\ \A i \in 1 .. n - k : ring'[i] = ring[k + i]
  <2>1. \A i \in k + 1 .. n : ring[i] \in Entries
    BY <1>5
  <2>2. /\ SubSeq(ring, k + 1, n) \in Seq(Entries)
        /\ Len(SubSeq(ring, k + 1, n)) = IF k + 1 <= n THEN n - (k + 1) + 1 ELSE 0
        /\ \A i \in 1 .. n - (k + 1) + 1 : SubSeq(ring, k + 1, n)[i] = ring[k + 1 + i - 1]
    BY <2>1, SubSeqProperties
  <2> QED
    BY <1>13, <2>2
<1>15. ring' \in Rings
  BY <1>2, <1>14 DEF Rings
<1> QED
  BY <1>1, <1>3, <1>6, <1>9, <1>11, <1>12, <1>14, <1>15

-----------------------------------------------------------------------------
(* Every action keeps it *)

\* It holds at first.
LEMMA WindowInit == Init => WindowInv
<1> SUFFICES ASSUME Init PROVE WindowInv
  OBVIOUS
<1>1. <<>> \in Rings
  BY CapacityAssumption DEF Rings
<1>2. WindowType
  BY <1>1 DEF Init, WindowType
<1>3. RingOrdered /\ PersistedOnce
  BY DEF Init, RingOrdered, PersistedOnce
<1> QED
  BY <1>2, <1>3 DEF WindowInv

\* An append puts a newer entry at the head.
LEMMA AppendStep ==
  ASSUME WindowInv, NEW t \in Times, AppendEntry(t)
  PROVE  WindowInv'
<1> USE DEF WindowInv
<1>1. PICK e \in Entries : e = Entry(appended, t) /\ e.n = appended
  <2>1. appended \in Nat
    BY DEF WindowType
  <2>2. Entry(appended, t) \in Entries /\ Entry(appended, t).n = appended
    BY <2>1 DEF Entry, Entries
  <2> QED
    BY <2>2
<1>2. PICK r \in Rings, s \in Rings : r = ring /\ s = ring' /\ s = AppendedTo(r, e)
  BY <1>1, AppendedToIs DEF AppendEntry, WindowType
<1>3. PICK d \in {0, 1} : /\ Len(s) = Len(r) + 1 - d
                          /\ \A i \in 1 .. Len(s) - 1 : i + d \in 1 .. Len(r) /\ s[i] = r[i + d]
  BY <1>2, AppendedToIs
<1>4. Len(s) > 0 /\ s[Len(s)] = e /\ Len(s) \in Nat /\ Len(r) \in Nat
  <2>1. Len(s) \in Nat /\ Len(r) \in Nat
    BY DEF Rings
  <2>2. Len(s) > 0 /\ s[Len(s)] = e
    BY <1>2, AppendedToIs
  <2> QED
    BY <2>1, <2>2
<1>5. blocks' = blocks /\ recover' = recover /\ appended' = appended + 1 /\ appended \in Nat
  BY DEF AppendEntry, WindowType, cfgVars
<1>6. WindowType'
  BY <1>2 DEF AppendEntry, WindowType, cfgVars, boundVars
<1>7. RingOrdered'
  <2> SUFFICES ASSUME ~recover PROVE
      /\ \A i, j \in 1 .. Len(s) : i < j => s[i].n < s[j].n
      /\ \A i \in 1 .. Len(s) : s[i].n < appended + 1
      /\ \A b \in 1 .. Len(blocks) : \A i \in 1 .. Len(blocks[b].rows) :
            /\ blocks[b].rows[i].n < appended + 1
            /\ \A j \in 1 .. Len(s) : blocks[b].rows[i].n < s[j].n
    BY <1>2, <1>5 DEF RingOrdered
  <2>1. \A i \in 1 .. Len(r) : r[i].n \in Nat
    BY EntryFields DEF Rings
  <2>2. /\ \A i, j \in 1 .. Len(r) : i < j => r[i].n < r[j].n
        /\ \A i \in 1 .. Len(r) : r[i].n < appended
        /\ \A b \in 1 .. Len(blocks) : \A i \in 1 .. Len(blocks[b].rows) :
              /\ blocks[b].rows[i].n < appended
              /\ \A j \in 1 .. Len(r) : blocks[b].rows[i].n < r[j].n
    BY <1>2 DEF RingOrdered
  <2>3. \A i \in 1 .. Len(s) : i \in 1 .. Len(s) - 1 \/ i = Len(s)
    BY <1>4
  <2>4. \A i \in 1 .. Len(s) - 1 : s[i].n \in Nat /\ s[i].n < appended
    BY <1>3, <2>1, <2>2
  <2>5. ASSUME NEW i \in 1 .. Len(s), NEW j \in 1 .. Len(s), i < j
        PROVE  s[i].n < s[j].n
    <3>1. i \in 1 .. Len(s) - 1
      BY <1>4, <2>5
    <3>2. CASE j = Len(s)
      BY <3>1, <3>2, <2>4, <1>1, <1>4
    <3>3. CASE j \in 1 .. Len(s) - 1
      <4>1. i + d \in 1 .. Len(r) /\ j + d \in 1 .. Len(r) /\ i + d < j + d
        BY <1>3, <2>5, <3>1, <3>3
      <4> QED
        BY <4>1, <3>1, <3>3, <1>3, <2>2
    <3> QED
      BY <2>3, <3>2, <3>3
  <2>6. \A i \in 1 .. Len(s) : s[i].n < appended + 1
    BY <1>1, <1>4, <1>5, <2>3, <2>4
  <2>7. ASSUME NEW b \in 1 .. Len(blocks), NEW i \in 1 .. Len(blocks[b].rows)
        PROVE  /\ blocks[b].rows[i].n < appended + 1
               /\ \A j \in 1 .. Len(s) : blocks[b].rows[i].n < s[j].n
    <3>1. blocks[b].rows[i].n \in Nat
      BY RowFields DEF WindowType
    <3>2. blocks[b].rows[i].n < appended
      BY <2>2
    <3>3. ASSUME NEW j \in 1 .. Len(s) - 1 PROVE blocks[b].rows[i].n < s[j].n
      BY <1>3, <2>2
    <3> QED
      BY <3>1, <3>2, <3>3, <1>1, <1>4, <1>5, <2>3
  <2> QED
    BY <2>5, <2>6, <2>7
<1>8. PersistedOnce'
  BY <1>5 DEF PersistedOnce
<1> QED
  BY <1>6, <1>7, <1>8

\* A pass moves the border between the blocks and the ring.
LEMMA PassStep ==
  ASSUME WindowInv, NEW w, EvictSensor(w), window' \in Windows
  PROVE  WindowInv'
<1> USE DEF WindowInv
<1>1. PICK r \in Rings, s \in Rings, k \in 1 .. Len(ring), b \in Blocks :
            /\ r = ring /\ s = ring'
            /\ blocks' = Append(blocks, b)
            /\ Len(b.rows) = k /\ \A i \in 1 .. k : b.rows[i] = r[i]
            /\ Len(s) = Len(r) - k
            /\ \A i \in 1 .. Len(r) - k : s[i] = r[k + i]
            /\ scratch' \in Seq(Times)
  <2>1. ring \in Rings /\ WindowType
    BY DEF WindowType
  <2>2. PICK k \in 1 .. Len(ring), b \in Blocks :
            /\ k = EvictLength(w)
            /\ blocks' = Append(blocks, b)
            /\ Len(b.rows) = k /\ \A i \in 1 .. k : b.rows[i] = ring[i]
            /\ ring' \in Rings /\ Len(ring') = Len(ring) - k
            /\ \A i \in 1 .. Len(ring) - k : ring'[i] = ring[k + i]
            /\ scratch' \in Seq(Times)
    BY <2>1, PassSplits
  <2> QED
    BY <2>1, <2>2
<1>2. recover' = recover /\ appended' = appended
  BY DEF EvictSensor
<1>3. /\ blocks' \in Seq(Blocks) /\ Len(blocks) \in Nat /\ Len(blocks') = Len(blocks) + 1
      /\ \A a \in 1 .. Len(blocks) : blocks'[a] = blocks[a]
      /\ blocks'[Len(blocks) + 1] = b
  BY <1>1, AppendProperties DEF WindowType
<1>4. WindowType'
  BY <1>1, <1>3 DEF EvictSensor, WindowType, boundVars
<1> SUFFICES ASSUME ~recover PROVE RingOrdered' /\ PersistedOnce'
  BY <1>2, <1>4 DEF RingOrdered, PersistedOnce
<1>5. \A i \in 1 .. Len(r) : r[i].n \in Nat
  BY EntryFields DEF Rings
<1>6. Len(r) \in Nat /\ k \in 1 .. Len(r)
  BY <1>1 DEF Rings
<1>7. /\ \A i, j \in 1 .. Len(r) : i < j => r[i].n < r[j].n
      /\ \A i \in 1 .. Len(r) : r[i].n < appended
      /\ \A a \in 1 .. Len(blocks) : \A i \in 1 .. Len(blocks[a].rows) :
            /\ blocks[a].rows[i].n < appended
            /\ \A j \in 1 .. Len(r) : blocks[a].rows[i].n < r[j].n
  BY <1>1 DEF RingOrdered
<1>8. \A i \in 1 .. Len(s) : k + i \in 1 .. Len(r) /\ s[i] = r[k + i]
  BY <1>1, <1>6
<1>9. \A i \in 1 .. k : i \in 1 .. Len(r) /\ b.rows[i] = r[i]
  BY <1>1, <1>6
<1>10. \A a \in 1 .. Len(blocks') : a \in 1 .. Len(blocks) \/ a = Len(blocks) + 1
  BY <1>3
<1>11. RingOrdered'
  <2>1. ASSUME NEW i \in 1 .. Len(s), NEW j \in 1 .. Len(s), i < j
        PROVE  s[i].n < s[j].n
    <3>1. k + i < k + j
      BY <2>1
    <3> QED
      BY <3>1, <1>7, <1>8
  <2>2. \A i \in 1 .. Len(s) : s[i].n < appended
    BY <1>7, <1>8
  <2>3. ASSUME NEW a \in 1 .. Len(blocks'), NEW i \in 1 .. Len(blocks'[a].rows)
        PROVE  /\ blocks'[a].rows[i].n < appended
               /\ \A j \in 1 .. Len(s) : blocks'[a].rows[i].n < s[j].n
    <3>1. CASE a \in 1 .. Len(blocks)
      <4>1. blocks'[a] = blocks[a]
        BY <1>3, <3>1
      <4> QED
        BY <4>1, <3>1, <1>7, <1>8
    <3>2. CASE a = Len(blocks) + 1
      <4>1. blocks'[a] = b /\ i \in 1 .. k
        BY <1>1, <1>3, <3>2
      <4>2. \A j \in 1 .. Len(s) : i < k + j
        <5>1. i \in 1 .. k /\ k \in Nat
          BY <4>1
        <5> QED
          BY <5>1
      <4> QED
        BY <4>1, <4>2, <1>7, <1>8, <1>9
    <3> QED
      BY <1>10, <3>1, <3>2
  <2> QED
    BY <2>1, <2>2, <2>3, <1>1, <1>2 DEF RingOrdered
<1>12. PersistedOnce'
  <2>1. ASSUME NEW a \in 1 .. Len(blocks), NEW i \in 1 .. Len(blocks[a].rows), NEW j \in 1 .. k
        PROVE  blocks[a].rows[i].n # b.rows[j].n
    <3>1. blocks[a].rows[i].n < r[j].n
      BY <1>7, <1>9
    <3>2. blocks[a].rows[i].n \in Nat /\ r[j].n \in Nat
      BY RowFields, <1>5, <1>9 DEF WindowType
    <3> QED
      BY <3>1, <3>2, <1>9
  <2>2. ASSUME NEW i \in 1 .. k, NEW j \in 1 .. k, b.rows[i].n = b.rows[j].n PROVE i = j
    <3>1. r[i].n = r[j].n /\ r[i].n \in Nat
      BY <2>2, <1>5, <1>9
    <3>2. ~(i < j) /\ ~(j < i)
      BY <3>1, <1>7, <1>9
    <3> QED
      BY <3>2
  <2>3. ASSUME NEW a \in 1 .. Len(blocks), NEW c \in 1 .. Len(blocks),
               NEW i \in 1 .. Len(blocks[a].rows), NEW j \in 1 .. Len(blocks[c].rows),
               blocks[a].rows[i].n = blocks[c].rows[j].n
        PROVE  a = c /\ i = j
    <3>1. /\ a \in DOMAIN blocks /\ c \in DOMAIN blocks
          /\ i \in DOMAIN blocks[a].rows /\ j \in DOMAIN blocks[c].rows
      BY RowFields DEF WindowType
    <3> QED
      BY <2>3, <3>1 DEF PersistedOnce
  <2>4. ASSUME NEW a \in 1 .. Len(blocks'), NEW c \in 1 .. Len(blocks'),
               NEW i \in 1 .. Len(blocks'[a].rows), NEW j \in 1 .. Len(blocks'[c].rows),
               blocks'[a].rows[i].n = blocks'[c].rows[j].n
        PROVE  a = c /\ i = j
    <3>1. CASE a \in 1 .. Len(blocks) /\ c \in 1 .. Len(blocks)
      <4>1. blocks'[a] = blocks[a] /\ blocks'[c] = blocks[c]
        BY <1>3, <3>1
      <4> QED
        BY <2>3, <2>4, <3>1, <4>1, SMTT(30)
    <3>2. CASE a \in 1 .. Len(blocks) /\ c = Len(blocks) + 1
      BY <2>1, <2>4, <3>2, <1>1, <1>3
    <3>3. CASE a = Len(blocks) + 1 /\ c \in 1 .. Len(blocks)
      BY <2>1, <2>4, <3>3, <1>1, <1>3
    <3>4. CASE a = Len(blocks) + 1 /\ c = Len(blocks) + 1
      BY <2>2, <2>4, <3>4, <1>1, <1>3
    <3> QED
      BY <1>10, <3>1, <3>2, <3>3, <3>4
  <2>5. DOMAIN blocks' = 1 .. Len(blocks')
        /\ \A a \in 1 .. Len(blocks') : DOMAIN blocks'[a].rows = 1 .. Len(blocks'[a].rows)
    BY <1>3, RowFields
  <2>6. \A a, c \in DOMAIN blocks' :
          \A i \in DOMAIN blocks'[a].rows, j \in DOMAIN blocks'[c].rows :
            blocks'[a].rows[i].n = blocks'[c].rows[j].n => a = c /\ i = j
    <3> SUFFICES ASSUME NEW a \in DOMAIN blocks', NEW c \in DOMAIN blocks',
                        NEW i \in DOMAIN blocks'[a].rows, NEW j \in DOMAIN blocks'[c].rows,
                        blocks'[a].rows[i].n = blocks'[c].rows[j].n
                 PROVE  a = c /\ i = j
      OBVIOUS
    <3>1. a \in 1 .. Len(blocks') /\ c \in 1 .. Len(blocks')
      BY <2>5
    <3>2. i \in 1 .. Len(blocks'[a].rows) /\ j \in 1 .. Len(blocks'[c].rows)
      BY <2>5, <3>1
    <3> QED
      BY <2>4, <3>1, <3>2
  <2> QED
    BY <2>6 DEF PersistedOnce
<1> QED
  BY <1>11, <1>12

\* A block that becomes unreadable keeps its rows.
LEMMA RotStep ==
  ASSUME WindowInv, NEW b \in DOMAIN blocks, Rot(b)
  PROVE  WindowInv'
<1> USE DEF WindowInv
<1>1. /\ blocks \in Seq(Blocks) /\ b \in 1 .. Len(blocks)
      /\ blocks' = [blocks EXCEPT ![b].readable = FALSE]
      /\ ring' = ring /\ recover' = recover /\ appended' = appended
  BY DEF Rot, WindowType, cfgVars
<1>2. PICK d \in Blocks : d = [blocks[b] EXCEPT !.readable = FALSE]
  <2>1. blocks[b] \in Blocks
    BY <1>1
  <2> QED
    BY <2>1 DEF Blocks
<1>3. d.rows = blocks[b].rows
  BY <1>1, <1>2 DEF Blocks
<1>4. blocks' = [blocks EXCEPT ![b] = d]
  BY <1>1, <1>2
<1>5. /\ blocks' \in Seq(Blocks) /\ Len(blocks') = Len(blocks)
      /\ \A a \in 1 .. Len(blocks) : blocks'[a].rows = blocks[a].rows
  <2>1. PICK n \in Nat : n = Len(blocks) /\ blocks \in [1 .. n -> Blocks]
    BY <1>1
  <2>2. blocks' \in [1 .. n -> Blocks]
    BY <1>4, <2>1
  <2>3. blocks' \in Seq(Blocks) /\ Len(blocks') = n
    BY <2>2
  <2>4. ASSUME NEW a \in 1 .. n PROVE blocks'[a].rows = blocks[a].rows
    <3>1. CASE a = b
      BY <3>1, <1>3, <1>4, <2>1
    <3>2. CASE a # b
      BY <3>2, <1>4, <2>1
    <3> QED
      BY <3>1, <3>2
  <2> QED
    BY <2>1, <2>3, <2>4
<1>6. DOMAIN blocks' = 1 .. Len(blocks) /\ DOMAIN blocks = 1 .. Len(blocks)
  BY <1>1, <1>5
<1>7. WindowType'
  BY <1>5 DEF Rot, WindowType, cfgVars
<1>8. RingOrdered'
  BY <1>1, <1>5 DEF RingOrdered
<1>9. PersistedOnce'
  BY <1>1, <1>5, <1>6 DEF PersistedOnce
<1> QED
  BY <1>7, <1>8, <1>9

\* Open fills the ring from the blocks only with recover_hot_window = 1.
LEMMA OpenStep ==
  ASSUME WindowInv, NEW cutoff \in Times, NEW failed \in BOOLEAN, Open(cutoff, failed)
  PROVE  WindowInv'
<1> USE DEF WindowInv
<1>1. blocks \in Seq(Blocks) /\ blocks' = blocks /\ recover' = recover /\ appended' = appended
  BY DEF Open, WindowType
<1>2. <<>> \in Rings
  BY CapacityAssumption DEF Rings
<1>3. Replay(cutoff).ring \in Rings
  <2>1. Len(blocks) \in 0 .. Len(blocks)
    BY <1>1
  <2>2. Replay(cutoff) \in Replays
    BY <1>1, <2>1, ReplayExists, ReplayIs
  <2> QED
    BY <2>2 DEF Replays
<1>4. ring' \in Rings
  BY <1>2, <1>3 DEF Open, Rehydrated
<1>5. WindowType'
  BY <1>4 DEF Open, WindowType
<1>6. RingOrdered'
  <2>1. ~recover => ring' = <<>>
    BY DEF Open
  <2> QED
    BY <1>1, <2>1 DEF RingOrdered
<1>7. PersistedOnce'
  BY <1>1 DEF PersistedOnce
<1> QED
  BY <1>5, <1>6, <1>7

\* Every step keeps the invariant.
LEMMA WindowStep == WindowInv /\ [Next]_vars => WindowInv'
<1> SUFFICES ASSUME WindowInv, [Next]_vars PROVE WindowInv'
  OBVIOUS
<1>1. ASSUME NEW t \in Times, AppendEntry(t) PROVE WindowInv'
  BY <1>1, AppendStep
<1>2. CASE WindowPass
  <2>1. window \in Windows /\ window' = window /\ EvictSensor(window)
    BY <1>2 DEF WindowPass, WindowInv, WindowType
  <2> QED
    BY <2>1, PassStep
<1>3. CASE Flush
  <2>1. window \in Windows /\ window' = window /\ EvictSensor(0)
    BY <1>3 DEF Flush, WindowInv, WindowType
  <2> QED
    BY <2>1, PassStep
<1>4. ASSUME NEW w \in Windows, MaintainSlidingWindow(w) PROVE WindowInv'
  <2>1. window' = w
    BY <1>4 DEF MaintainSlidingWindow
  <2>2. CASE EvictSensor(w)
    BY <2>1, <2>2, PassStep
  <2>3. CASE UNCHANGED <<recover, savedWindow, ring, appended, latest, scratch, blocks, boundVars>>
    BY <2>1, <2>3 DEF WindowInv, WindowType, RingOrdered, PersistedOnce, boundVars
  <2> QED
    BY <1>4, <2>2, <2>3 DEF MaintainSlidingWindow
<1>5. ASSUME NEW b \in DOMAIN blocks, Rot(b) PROVE WindowInv'
  BY <1>5, RotStep
<1>6. ASSUME NEW cutoff \in Times, NEW failed \in BOOLEAN, Open(cutoff, failed)
      PROVE  WindowInv'
  BY <1>6, OpenStep
<1>7. CASE UNCHANGED vars
  BY <1>7 DEF WindowInv, WindowType, RingOrdered, PersistedOnce, vars, cfgVars, boundVars
<1> QED
  BY <1>1, <1>2, <1>3, <1>4, <1>5, <1>6, <1>7 DEF Next

\* It holds in every reachable state.
LEMMA Invariance == Spec => []WindowInv
BY WindowInit, WindowStep, PTL DEF Spec

-----------------------------------------------------------------------------
(* The theorems *)

\* The ring never holds more than its capacity, also after a replay of the
\* blocks, which stops before the row that would not fit (engine.cpp:1242-1317);
\* every block has rows, and its end is one of the timestamps.
THEOREM TypeCorrect == Spec => []TypeOK
<1>1. ASSUME WindowInv PROVE TypeOK
  <2>1. WindowType
    BY <1>1 DEF WindowInv
  <2>2. ring \in Seq(Entries) /\ Len(ring) <= Capacity
    BY <2>1 DEF WindowType, Rings
  <2>3. ASSUME NEW b \in ToSet(blocks)
        PROVE  /\ b.rows \in Seq(Entries) \ {<<>>}
               /\ b.tEnd \in Times /\ b.readable \in BOOLEAN
    <3>1. b \in Blocks
      BY <2>1 DEF WindowType, ToSet
    <3> QED
      BY <3>1 DEF Blocks
  <2> QED
    BY <2>1, <2>2, <2>3 DEF TypeOK, WindowType
<1> QED
  BY <1>1, Invariance, PTL

\* No entry is stored twice as long as Open leaves the rings empty
\* (engine.cpp:1124-1144).
THEOREM StoredOnce == Spec => []PersistedOnce
<1>1. WindowInv => PersistedOnce
  BY DEF WindowInv
<1> QED
  BY <1>1, Invariance, PTL

\* A windowed pass keeps every entry of the window, and exactly those when the
\* ring is in timestamp order (engine.cpp:1078-1098).
THEOREM PassKeeps == Spec => PassKeepsTheWindow
<1> DEFINE Kept ==
      window # 0 /\ WindowPass /\ Latest(ring) - window >= MinTime =>
        LET hot == HotOnly(ring, Latest(ring) - window)
        IN /\ ToSet(hot) \subseteq ToSet(ring')
           /\ IsSorted(ring, LAMBDA d, e : d.ts <= e.ts) => ring' = hot
<1>1. ASSUME WindowInv PROVE Kept
  <2> SUFFICES ASSUME window # 0, WindowPass, Latest(ring) - window >= MinTime
               PROVE  LET hot == HotOnly(ring, Latest(ring) - window)
                      IN /\ ToSet(hot) \subseteq ToSet(ring')
                         /\ IsSorted(ring, LAMBDA d, e : d.ts <= e.ts) => ring' = hot
    OBVIOUS
  <2>1. PICK r \in Seq(Entries) : r = ring
    BY <1>1 DEF WindowInv, WindowType, Rings
  <2>2. window \in Nat /\ EvictSensor(window)
    BY <1>1, TimesAssumption DEF WindowInv, WindowType, WindowPass
  <2>3. /\ EvictLength(window) \in 0 .. Len(r)
        /\ r # <<>>
        /\ EvictLength(window) = LeadingOld(r, Cutoff(r, window))
    <3>1. EvictLength(window) > 0
      BY <2>2 DEF EvictSensor
    <3> QED
      BY <2>1, <3>1, EvictLengthIs
  <2>4. Latest(r) \in Times
    BY <2>3, LatestIs
  <2>5. PICK cutoff \in MinTime .. MaxTime : cutoff = Latest(r) - window
    BY <2>1, <2>2, <2>4, TimesAreNat
  <2>6. Cutoff(r, window) = cutoff
    BY <2>5, NotWrapped DEF Cutoff
  <2>7. cutoff \in Nat
    BY <2>5, TimesAreNat
  <2>8. PICK n \in Nat : n = Len(r)
    OBVIOUS
  <2>9. PICK k \in 0 .. n : k = LeadingOld(r, cutoff)
    BY <2>3, <2>6, <2>8
  <2>10. /\ \A i \in 1 .. k : r[i].ts < cutoff
         /\ k < n => ~(r[k + 1].ts < cutoff)
    BY <2>8, <2>9, LeadingOldIs
  <2>11. ring' = SubSeq(r, k + 1, n)
    BY <2>1, <2>2, <2>3, <2>6, <2>8, <2>9 DEF EvictSensor
  <2>12. \A i \in 1 .. n : r[i] \in Entries /\ r[i].ts \in Nat
    BY <2>8, EntryFields, TimesAreNat
  <2>13. \A i \in 1 .. k : ~(r[i].ts >= cutoff)
    BY <2>7, <2>8, <2>10, <2>12
  <2>14. HotOnly(r, cutoff) \in Seq(Entries)
         /\ ToSet(HotOnly(r, cutoff)) = {e \in ToSet(r) : e.ts >= cutoff}
    BY HotOnlyKeeps
  <2>15. ToSet(HotOnly(r, cutoff)) \subseteq ToSet(ring')
    <3> SUFFICES ASSUME NEW e \in ToSet(r), e.ts >= cutoff PROVE e \in ToSet(ring')
      BY <2>14
    <3>1. PICK i \in 1 .. n : e = r[i]
      BY <2>8 DEF ToSet
    <3>2. i \in k + 1 .. n
      BY <2>13, <3>1
    <3>3. /\ ring' \in Seq(Entries) /\ Len(ring') = IF k + 1 <= n THEN n - (k + 1) + 1 ELSE 0
          /\ \A j \in 1 .. n - (k + 1) + 1 : ring'[j] = r[k + 1 + j - 1]
      <4>1. \A j \in k + 1 .. n : r[j] \in Entries
        BY <2>12
      <4> QED
        BY <4>1, <2>11, SubSeqProperties
    <3>4. i - k \in 1 .. n - (k + 1) + 1 /\ k + 1 + (i - k) - 1 = i
      BY <3>2
    <3>5. ring'[i - k] = e
      BY <3>1, <3>3, <3>4
    <3>6. i - k \in DOMAIN ring'
      BY <3>2, <3>3, <3>4
    <3> QED
      BY <3>5, <3>6 DEF ToSet
  <2>16. ASSUME IsSorted(ring, LAMBDA d, e : d.ts <= e.ts) PROVE ring' = HotOnly(r, cutoff)
    <3>1. ASSUME NEW i \in 1 .. n, NEW j \in 1 .. n, i < j PROVE r[i].ts <= r[j].ts
      BY <2>1, <2>8, <2>16, <3>1 DEF IsSorted
    <3>2. ASSUME NEW j \in k + 1 .. n PROVE r[j].ts >= cutoff
      <4>1. k + 1 \in 1 .. n /\ j \in 1 .. n /\ k < n /\ (j = k + 1 \/ k + 1 < j)
        OBVIOUS
      <4>2. r[k + 1].ts >= cutoff
        BY <2>7, <2>10, <2>12, <4>1
      <4>3. j = k + 1 \/ r[k + 1].ts <= r[j].ts
        BY <3>1, <4>1
      <4> QED
        BY <4>1, <4>2, <4>3, <2>7, <2>12
    <3> QED
      BY <2>8, <2>11, <2>13, <3>2, HotOnlySuffix
  <2> QED
    BY <2>1, <2>5, <2>15, <2>16
<1>2. Spec => [][Kept]_vars
  BY <1>1, Invariance, PTL
<1> QED
  BY <1>2 DEF PassKeepsTheWindow

\* What Open puts into a ring is all that is hot and can be read, or nothing
\* (engine.cpp:1242-1317).
THEOREM Restores == Spec => RestoresAllOrNothing
<1> DEFINE Restored ==
      \A cutoff \in Times, failed \in BOOLEAN :
        Open(cutoff, failed) => ring' = <<>> \/ ToSet(ring') = HotPersisted(cutoff)
<1>1. ASSUME WindowInv PROVE Restored
  <2> SUFFICES ASSUME NEW cutoff \in Times, NEW failed \in BOOLEAN, Open(cutoff, failed),
                      ring' # <<>>
               PROVE  ToSet(ring') = HotPersisted(cutoff)
    OBVIOUS
  <2>1. blocks \in Seq(Blocks)
    BY <1>1 DEF WindowInv, WindowType
  <2>2. ~Replay(cutoff).returned /\ ring' = Replay(cutoff).ring
    BY DEF Open, Rehydrated
  <2>3. PICK n \in Nat : n = Len(blocks)
    BY <2>1
  <2>4. Replay(cutoff).returned \/ ToSet(Replay(cutoff).ring) = HotFrom(blocks, n - n + 1, cutoff)
    BY <2>1, <2>3, ReplayedSoFar, ReplayIs
  <2>5. ToSet(ring') = HotFrom(blocks, 1, cutoff)
    BY <2>2, <2>3, <2>4
  <2>6. {ToSet(c.rows) : c \in {d \in ToSet(blocks) : d.readable}}
          = {ToSet(blocks[j].rows) : j \in {i \in 1 .. n : blocks[i].readable}}
    BY <2>1, <2>3 DEF ToSet
  <2>7. HotFrom(blocks, 1, cutoff) = HotPersisted(cutoff)
    BY <2>3, <2>6 DEF HotFrom, HotPersisted, Persisted
  <2> QED
    BY <2>5, <2>7
<1>2. Spec => [][Restored]_vars
  BY <1>1, Invariance, PTL
<1> QED
  BY <1>2 DEF RestoresAllOrNothing

=============================================================================
