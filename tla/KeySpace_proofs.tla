----------------------------- MODULE KeySpace_proofs -----------------------------
(***************************************************************************)
(* Proofs about the keys of the RocksDB backend, for any width of bytes,    *)
(* ids and names.                                                           *)
(*                                                                         *)
(* Ids first: the bytes of one give it back, and a smaller one has a smaller*)
(* byte where they part.  Then keys: whatever names sensors have, no key of *)
(* one is in the range of another.  Then the listings: what is in a store   *)
(* of blocks and metadata is what is listed, and the last key of a sensor   *)
(* is that of its last block.                                               *)
(***************************************************************************)
EXTENDS KeySpace, FiniteLemmas, SequenceTheorems

-----------------------------------------------------------------------------
(* Ids *)

\* Quotient and remainder.
LEMMA Division ==
  ASSUME NEW a \in Nat
  PROVE  /\ a \div ByteValues \in Nat /\ a % ByteValues \in Bytes
         /\ a = (a \div ByteValues) * ByteValues + (a % ByteValues)
BY ByteAssumption, Z3 DEF Bytes

\* Of two numbers the greater one does not have the smaller quotient.
LEMMA QuotientsInOrder ==
  ASSUME NEW a \in Nat, NEW b \in Nat, a <= b
  PROVE  a \div ByteValues <= b \div ByteValues
BY ByteAssumption, Z3

\* With the same quotient it has the greater remainder.
LEMMA RemaindersInOrder ==
  ASSUME NEW a \in Nat, NEW b \in Nat, a < b, a \div ByteValues = b \div ByteValues
  PROVE  a % ByteValues < b % ByteValues
<1>1. PICK q : q = (a \div ByteValues) * ByteValues
  OBVIOUS
<1>2. a = q + (a % ByteValues) /\ b = q + (b % ByteValues)
  BY <1>1, Division
<1>3. q \in Int /\ a % ByteValues \in Int /\ b % ByteValues \in Int
  BY <1>1, Division, ByteAssumption DEF Bytes
<1> QED
  BY <1>2, <1>3

IsShifted(g, id) == g = [k \in 0 .. IdBytes |-> IF k = 0 THEN id ELSE g[k - 1] \div ByteValues]
LEMMA ShiftedDef == \A id : Shifted(id) = CHOOSE g : IsShifted(g, id)
BY DEF Shifted, IsShifted

\* Byte by byte.
LEMMA ShiftedIs ==
  ASSUME NEW id \in Nat
  PROVE  /\ Shifted(id) \in [0 .. IdBytes -> Nat]
         /\ Shifted(id)[0] = id
         /\ \A k \in 1 .. IdBytes : Shifted(id)[k] = Shifted(id)[k - 1] \div ByteValues
<1> DEFINE n == IdBytes
           G == [p \in (1 .. n) \X Nat |-> p[2] \div ByteValues]
<1>1. n \in Nat /\ G \in [(1 .. n) \X Nat -> Nat]
  BY WidthAssumption, Division
<1>2. PICK h \in [0 .. n -> Nat] : IsIteration(h, n, id, G)
  <2> HIDE DEF G, n
  <2> QED
    BY <1>1, Iterates, Zenon
<1>3. IsShifted(h, id)
  <2>1. ASSUME NEW k \in 0 .. n PROVE h[k] = IF k = 0 THEN id ELSE h[k - 1] \div ByteValues
    <3>1. CASE k = 0
      BY <3>1, <1>2 DEF IsIteration
    <3>2. CASE k # 0
      <4>1. k \in 1 .. n /\ h[k - 1] \in Nat
        BY <1>1, <3>2
      <4>2. h[k] = G[<<k, h[k - 1]>>]
        BY <1>2, <4>1 DEF IsIteration
      <4> QED
        BY <4>1, <4>2, <3>2
    <3> QED
      BY <3>1, <3>2
  <2> QED
    BY <2>1 DEF IsShifted
<1>4. IsShifted(Shifted(id), id)
  BY <1>3, ShiftedDef
<1>5. PICK g : g = Shifted(id)
  OBVIOUS
<1>6. /\ g = [k \in 0 .. n |-> g[k]] /\ g[0] = id
      /\ \A k \in 1 .. n : g[k] = g[k - 1] \div ByteValues
  <2>1. g = [k \in 0 .. n |-> IF k = 0 THEN id ELSE g[k - 1] \div ByteValues]
    BY <1>4, <1>5 DEF IsShifted
  <2>2. \A k \in 0 .. n : g[k] = IF k = 0 THEN id ELSE g[k - 1] \div ByteValues
    BY <2>1
  <2>3. g[0] = id
    BY <1>1, <2>2
  <2>4. \A k \in 1 .. n : k \in 0 .. n /\ k # 0
    BY <1>1
  <2>5. \A k \in 1 .. n : g[k] = g[k - 1] \div ByteValues
    BY <2>2, <2>4
  <2>6. g = [k \in 0 .. n |-> g[k]]
    BY <2>1, Zenon
  <2> QED
    BY <2>3, <2>5, <2>6
<1>7. ASSUME NEW k \in 0 .. n PROVE g[k] \in Nat
  <2> DEFINE Bad == {i \in 0 .. n : g[i] \notin Nat}
  <2> SUFFICES ASSUME Bad # {} PROVE FALSE
    BY <1>7
  <2>1. PICK i \in Bad : \A j \in Bad : i <= j
    <3>1. Bad \subseteq Nat
      OBVIOUS
    <3> HIDE DEF Bad
    <3> QED
      BY <3>1, LeastNat
  <2>2. i \in 1 .. n
    BY <1>6, <2>1
  <2>3. g[i - 1] \in Nat
    BY <1>1, <2>1, <2>2
  <2> QED
    BY <1>6, <2>1, <2>2, <2>3, Division
<1> QED
  BY <1>5, <1>6, <1>7

\* A smaller id stays the smaller one, or becomes the same.
LEMMA ShiftedInOrder ==
  ASSUME NEW i \in Nat, NEW j \in Nat, i <= j, NEW k \in 0 .. IdBytes
  PROVE  Shifted(i)[k] <= Shifted(j)[k]
<1>1. PICK n \in Nat \ {0} : n = IdBytes
  BY WidthAssumption
<1>2. PICK f \in [0 .. n -> Nat] :
        f = Shifted(i) /\ f[0] = i /\ \A l \in 1 .. n : f[l] = f[l - 1] \div ByteValues
  BY <1>1, ShiftedIs, Zenon
<1>3. PICK g \in [0 .. n -> Nat] :
        g = Shifted(j) /\ g[0] = j /\ \A l \in 1 .. n : g[l] = g[l - 1] \div ByteValues
  BY <1>1, ShiftedIs, Zenon
<1> DEFINE Bad == {l \in 0 .. n : ~(f[l] <= g[l])}
<1> SUFFICES ASSUME Bad # {} PROVE FALSE
  BY <1>1, <1>2, <1>3
<1>4. PICK l \in Bad : \A m \in Bad : l <= m
  <2>1. Bad \subseteq Nat
    OBVIOUS
  <2> HIDE DEF Bad
  <2> QED
    BY <2>1, LeastNat
<1>5. l \in 1 .. n
  BY <1>2, <1>3, <1>4
<1>6. f[l - 1] <= g[l - 1] /\ f[l - 1] \in Nat /\ g[l - 1] \in Nat
  BY <1>4, <1>5
<1>7. f[l] = f[l - 1] \div ByteValues /\ g[l] = g[l - 1] \div ByteValues
  BY <1>2, <1>3, <1>5
<1> QED
  BY <1>4, <1>6, <1>7, QuotientsInOrder

\* What is less than an id is one.
LEMMA IdsBelow ==
  ASSUME NEW j \in Ids, NEW i \in Nat, i <= j
  PROVE  i \in Ids
<1>1. IdBytes \in 0 .. IdBytes
  BY WidthAssumption
<1>2. Shifted(i)[IdBytes] <= Shifted(j)[IdBytes] /\ Shifted(j)[IdBytes] = 0
  BY <1>1, ShiftedInOrder DEF Ids
<1>3. Shifted(i)[IdBytes] \in Nat
  BY <1>1, ShiftedIs
<1> QED
  BY <1>2, <1>3 DEF Ids

\* The bytes are bytes.
LEMMA BigEndianIs ==
  ASSUME NEW id \in Nat
  PROVE  /\ BigEndian(id) \in [1 .. IdBytes -> Bytes]
         /\ BigEndian(id) \in Seq(Int) /\ Len(BigEndian(id)) = IdBytes
         /\ \A k \in 1 .. IdBytes : BigEndian(id)[k] = Shifted(id)[IdBytes - k] % ByteValues
<1>1. IdBytes \in Nat
  BY WidthAssumption
<1>2. ASSUME NEW k \in 1 .. IdBytes PROVE Shifted(id)[IdBytes - k] % ByteValues \in Bytes
  <2>1. IdBytes - k \in 0 .. IdBytes
    BY <1>1
  <2> QED
    BY <2>1, ShiftedIs, Division
<1>3. BigEndian(id) \in [1 .. IdBytes -> Bytes]
  BY <1>2 DEF BigEndian
<1>4. Bytes \subseteq Int
  BY ByteAssumption DEF Bytes
<1>5. BigEndian(id) \in Seq(Int) /\ Len(BigEndian(id)) = IdBytes
  <2>1. PICK b \in [1 .. IdBytes -> Int] : b = BigEndian(id)
    BY <1>3, <1>4
  <2> QED
    BY <2>1, <1>1
<1> QED
  BY <1>3, <1>5 DEF BigEndian

\* put_u64_be and get_u64_be (storage_rocksdb.cpp:36-56) are inverse on the ids
\* that fit.
LEMMA IdRoundTrip ==
  ASSUME NEW id \in Ids
  PROVE  FromBigEndian(BigEndian(id)) = id
<1>1. PICK n \in Nat \ {0} : n = IdBytes
  BY WidthAssumption
<1>2. PICK b \in [1 .. n -> Int] : b = BigEndian(id) /\ Len(b) = n
  <2>1. id \in Nat /\ Bytes \subseteq Int
    BY ByteAssumption DEF Ids, Bytes
  <2> QED
    BY <1>1, <2>1, BigEndianIs
<1>3. PICK f \in [0 .. n -> Nat] :
        f = Shifted(id) /\ f[0] = id /\ \A l \in 1 .. n : f[l] = f[l - 1] \div ByteValues
  <2>1. id \in Nat
    BY DEF Ids
  <2> QED
    BY <1>1, <2>1, ShiftedIs, Zenon
<1> DEFINE IsValue(v) == v = [k \in 0 .. n |-> IF k = 0 THEN 0 ELSE v[k - 1] * ByteValues + b[k]]
           g == [k \in 0 .. n |-> f[n - k]]
<1>4. FromBigEndian(b) = (CHOOSE v : IsValue(v))[n]
  BY <1>2 DEF FromBigEndian
<1>5. ASSUME NEW k \in 1 .. n
      PROVE  f[n - k] = f[n - (k - 1)] * ByteValues + b[k]
  <2>1. n - k \in 0 .. n /\ n - (k - 1) \in 1 .. n /\ (n - (k - 1)) - 1 = n - k /\ n - k + 1 = n - (k - 1)
    OBVIOUS
  <2>2. f[n - (k - 1)] = f[n - k] \div ByteValues
    BY <2>1, <1>3
  <2>3. b[k] = f[n - k] % ByteValues
    BY <1>1, <1>2, <1>3, BigEndianIs DEF Ids
  <2>4. f[n - k] \in Nat
    BY <2>1
  <2> QED
    BY <2>2, <2>3, <2>4, Division
<1>6. f[n] = 0 /\ f[0] = id
  BY <1>1, <1>3 DEF Ids
<1>7. IsValue(g)
  <2>1. ASSUME NEW k \in 0 .. n
        PROVE  g[k] = IF k = 0 THEN 0 ELSE g[k - 1] * ByteValues + b[k]
    <3>1. CASE k = 0
      BY <3>1, <1>6
    <3>2. CASE k # 0
      <4>1. k \in 1 .. n /\ k - 1 \in 0 .. n
        BY <3>2
      <4> QED
        BY <4>1, <3>2, <1>5
    <3> QED
      BY <3>1, <3>2
  <2>2. g = [k \in 0 .. n |-> g[k]]
    OBVIOUS
  <2> HIDE DEF g
  <2> QED
    BY <2>1, <2>2
<1>8. ASSUME NEW v, IsValue(v) PROVE v[n] = id
  <2> DEFINE Bad == {k \in 0 .. n : v[k] # f[n - k]}
  <2> SUFFICES ASSUME Bad # {} PROVE FALSE
    <3>1. n \in 0 .. n /\ n - n = 0
      OBVIOUS
    <3> QED
      BY <3>1, <1>6
  <2>1. PICK k \in Bad : \A l \in Bad : k <= l
    <3>1. Bad \subseteq Nat
      OBVIOUS
    <3> HIDE DEF Bad
    <3> QED
      BY <3>1, LeastNat
  <2>2. v[0] = 0 /\ \A l \in 1 .. n : v[l] = v[l - 1] * ByteValues + b[l]
    <3>1. \A l \in 0 .. n : v[l] = IF l = 0 THEN 0 ELSE v[l - 1] * ByteValues + b[l]
      BY <1>8
    <3>2. 0 \in 0 .. n /\ \A l \in 1 .. n : l \in 0 .. n /\ l # 0
      OBVIOUS
    <3> QED
      BY <3>1, <3>2
  <2>3. k \in 1 .. n
    BY <2>1, <2>2, <1>6
  <2>4. v[k - 1] = f[n - (k - 1)]
    BY <2>1, <2>3
  <2> QED
    BY <2>1, <2>2, <2>3, <2>4, <1>5
<1>9. IsValue(CHOOSE v : IsValue(v))
  <2> HIDE DEF g, IsValue
  <2> QED
    BY <1>7
<1> QED
  <2> HIDE DEF IsValue
  <2> QED
    BY <1>2, <1>4, <1>8, <1>9

\* Where the bytes of two ids part, the smaller id has the smaller byte.
LEMMA IdsPart ==
  ASSUME NEW i \in Ids, NEW j \in Ids, i < j
  PROVE  \E n \in 1 .. IdBytes :
            /\ BigEndian(i)[n] < BigEndian(j)[n]
            /\ \A k \in 1 .. n - 1 : BigEndian(i)[k] = BigEndian(j)[k]
<1>1. PICK m \in Nat \ {0} : m = IdBytes
  BY WidthAssumption
<1>2. i \in Nat /\ j \in Nat
  BY DEF Ids
<1>3. PICK f \in [0 .. m -> Nat] :
        f = Shifted(i) /\ f[0] = i /\ \A l \in 1 .. m : f[l] = f[l - 1] \div ByteValues
  BY <1>1, <1>2, ShiftedIs, Zenon
<1>4. PICK g \in [0 .. m -> Nat] :
        g = Shifted(j) /\ g[0] = j /\ \A l \in 1 .. m : g[l] = g[l - 1] \div ByteValues
  BY <1>1, <1>2, ShiftedIs, Zenon
<1> DEFINE T == {k \in 0 .. m : f[k] # g[k]}
<1>5. 0 \in T /\ m \notin T
  BY <1>1, <1>2, <1>3, <1>4 DEF Ids
<1>6. PICK k \in T : \A l \in T : l <= k
  <2>1. T \subseteq Nat /\ T # {} /\ \A l \in T : l <= m
    BY <1>5
  <2> HIDE DEF T
  <2> QED
    BY <2>1, GreatestNat
<1>7. k \in 0 .. m - 1 /\ f[k] # g[k] /\ \A l \in k + 1 .. m : f[l] = g[l]
  BY <1>5, <1>6
<1>8. f[k] < g[k]
  <2>1. k \in 0 .. m /\ i <= j
    BY <1>2, <1>7
  <2>2. f[k] <= g[k]
    BY <2>1, <1>1, <1>2, <1>3, <1>4, ShiftedInOrder
  <2> QED
    BY <2>1, <2>2, <1>7
<1>9. f[k] \div ByteValues = g[k] \div ByteValues
  <2>1. k + 1 \in 1 .. m /\ (k + 1) - 1 = k /\ f[k + 1] = g[k + 1]
    BY <1>7
  <2> QED
    BY <2>1, <1>3, <1>4
<1>10. f[k] % ByteValues < g[k] % ByteValues
  BY <1>7, <1>8, <1>9, RemaindersInOrder
<1>11. m - k \in 1 .. m /\ m - (m - k) = k
  BY <1>7
<1>12. BigEndian(i)[m - k] < BigEndian(j)[m - k]
  <2>1. /\ BigEndian(i)[m - k] = f[k] % ByteValues
        /\ BigEndian(j)[m - k] = g[k] % ByteValues
    <3>1. BigEndian(i)[m - k] = f[m - (m - k)] % ByteValues
      BY <1>1, <1>2, <1>3, <1>11, BigEndianIs
    <3>2. BigEndian(j)[m - k] = g[m - (m - k)] % ByteValues
      BY <1>1, <1>2, <1>4, <1>11, BigEndianIs
    <3> QED
      BY <3>1, <3>2, <1>11
  <2> QED
    BY <2>1, <1>10
<1>13. ASSUME NEW l \in 1 .. (m - k) - 1 PROVE BigEndian(i)[l] = BigEndian(j)[l]
  <2>1. l \in 1 .. m /\ m - l \in k + 1 .. m
    BY <1>7
  <2>2. f[m - l] = g[m - l]
    BY <2>1, <1>7
  <2>3. /\ BigEndian(i)[l] = f[m - l] % ByteValues
        /\ BigEndian(j)[l] = g[m - l] % ByteValues
    BY <2>1, <1>1, <1>2, <1>3, <1>4, BigEndianIs
  <2> QED
    BY <2>2, <2>3
<1> QED
  BY <1>1, <1>11, <1>12, <1>13


-----------------------------------------------------------------------------
(* Keys *)

\* What the comparator looks at: a C string's bytes are above Nul, a valid
\* name's above the separator too.
LEMMA NameBytes ==
  ASSUME NEW s \in CStrings
  PROVE  /\ s \in Seq(Int) /\ Len(s) \in Nat
         /\ \A k \in 1 .. Len(s) : s[k] \in Int /\ s[k] > Nul
         /\ ValidName(s) => Len(s) > 0 /\ \A k \in 1 .. Len(s) : s[k] > Sep
<1>1. PICK n \in 0 .. MaxNameLen + 1 : s \in [1 .. n -> Bytes \ {Nul}]
  BY DEF CStrings
<1>2. n \in Nat /\ s \in Seq(Int) /\ Len(s) = n
  BY <1>1, WidthAssumption DEF Bytes
<1>3. \A k \in 1 .. n : s[k] \in Int /\ s[k] > Nul
  BY <1>1, <1>2, ByteAssumption DEF Bytes, Nul
<1>4. ASSUME ValidName(s), NEW k \in 1 .. n PROVE s[k] > Sep
  BY <1>2, <1>3, <1>4 DEF ValidName, Contains, Nul, Sep
<1> QED
  BY <1>2, <1>3, <1>4 DEF ValidName

\* A key is the name, the separator and as many bytes as an id has.
LEMMA KeyParts ==
  ASSUME NEW s \in CStrings, NEW id
  PROVE  LET key == EncodeKey(s, id)
         IN /\ Len(key) = Len(s) + 1 + IdBytes
            /\ DOMAIN key = 1 .. Len(key)
            /\ \A k \in 1 .. Len(s) : key[k] = s[k]
            /\ key[Len(s) + 1] = Sep
            /\ \A k \in 1 .. IdBytes : key[Len(s) + 1 + k] = BigEndian(id)[k]
            /\ SubSeq(key, 1, Len(s) + 1) = RangeBegin(s)
            /\ SubSeq(key, Len(s) + 2, Len(key)) = BigEndian(id)
<1> DEFINE digit(k) == Shifted(id)[IdBytes - k] % ByteValues
           All == {digit(k) : k \in 1 .. IdBytes} \cup Int
<1>1. BigEndian(id) \in [1 .. IdBytes -> All]
  BY DEF BigEndian
<1> HIDE DEF digit, All
<1>2. BigEndian(id) \in Seq(All) /\ Len(BigEndian(id)) = IdBytes
  <2>1. PICK b \in [1 .. IdBytes -> All] : b = BigEndian(id)
    BY <1>1
  <2> QED
    BY <2>1, WidthAssumption
<1>3. s \in Seq(All) /\ Len(s) \in Nat /\ Sep \in All
  BY NameBytes DEF Sep, All
<1>4. PICK tail \in Seq(All) : tail = BigEndian(id)
  BY <1>2
<1>5. PICK begin \in Seq(All) : begin = s \o <<Sep>>
  <2>1. s \o <<Sep>> \in Seq(All)
    BY <1>3
  <2> QED
    BY <2>1, Zenon
<1>6. Len(begin) = Len(s) + 1 /\ begin[Len(s) + 1] = Sep /\ \A k \in 1 .. Len(s) : begin[k] = s[k]
  BY <1>3, <1>5
<1>7. EncodeKey(s, id) = begin \o tail
  BY <1>4, <1>5 DEF EncodeKey
<1>8. SubSeq(begin \o tail, 1, Len(begin)) = begin
  BY SubSeqOfConcat1, SubSeqFull
<1>9. SubSeq(begin \o tail, Len(begin) + 1, Len(begin) + Len(tail)) = tail
  BY SubSeqOfConcat2, SubSeqFull
<1> QED
  <2>1. Len(tail) = IdBytes /\ IdBytes \in Nat \ {0}
    BY <1>2, <1>4, WidthAssumption
  <2>2. PICK key : key = begin \o tail
    OBVIOUS
  <2>3. Len(key) = Len(s) + 1 + IdBytes /\ DOMAIN key = 1 .. Len(key)
    <3>1. key \in Seq(All) /\ Len(key) = Len(begin) + Len(tail)
      BY <2>2
    <3> QED
      BY <3>1, <2>1, <1>3, <1>6
  <2>4. \A k \in 1 .. Len(s) + 1 : key[k] = begin[k]
    BY <2>2, <1>3, <1>6
  <2>5. SubSeq(key, 1, Len(s) + 1) = RangeBegin(s)
    BY <2>2, <1>5, <1>6, <1>8 DEF RangeBegin
  <2>6. \A k \in 1 .. IdBytes : key[Len(s) + 1 + k] = tail[k]
    BY <2>1, <2>2, <1>3, <1>6
  <2>7. SubSeq(key, Len(s) + 2, Len(key)) = tail
    <3>1. Len(begin) + 1 = Len(s) + 2 /\ Len(begin) + Len(tail) = Len(key)
      BY <2>1, <2>3, <1>3, <1>6
    <3> QED
      BY <3>1, <2>2, <1>9
  <2>8. (\A k \in 1 .. Len(s) : key[k] = s[k]) /\ key[Len(s) + 1] = Sep
    BY <2>4, <1>3, <1>6
  <2>9. key = EncodeKey(s, id) /\ tail = BigEndian(id)
    BY <2>2, <1>4, <1>7
  <2> QED
    BY <2>3, <2>5, <2>6, <2>7, <2>8, <2>9, Zenon

\* A range ends with the byte after the separator.
LEMMA RangeParts ==
  ASSUME NEW s \in CStrings
  PROVE  /\ Len(RangeBegin(s)) = Len(s) + 1 /\ Len(RangeEnd(s)) = Len(s) + 1
         /\ DOMAIN RangeBegin(s) = 1 .. Len(s) + 1 /\ DOMAIN RangeEnd(s) = 1 .. Len(s) + 1
         /\ \A k \in 1 .. Len(s) : RangeBegin(s)[k] = s[k] /\ RangeEnd(s)[k] = s[k]
         /\ RangeBegin(s)[Len(s) + 1] = Sep /\ RangeEnd(s)[Len(s) + 1] = Sep + 1
BY NameBytes DEF RangeBegin, RangeEnd, Sep

\* Where two names part: at a byte both have, or where the shorter one ends.
LEMMA NamesPart ==
  ASSUME NEW r \in CStrings, NEW s \in CStrings, r # s
  PROVE  \E n \in Nat \ {0} :
            /\ n <= Len(r) + 1 /\ n <= Len(s) + 1 /\ (n <= Len(r) \/ n <= Len(s))
            /\ \A k \in 1 .. n - 1 : r[k] = s[k]
            /\ n <= Len(r) /\ n <= Len(s) => r[n] # s[n]
<1> DEFINE T == {n \in Nat \ {0} : n > Len(r) \/ n > Len(s) \/ r[n] # s[n]}
<1>1. r \in Seq(Int) /\ s \in Seq(Int) /\ Len(r) \in Nat /\ Len(s) \in Nat
  BY NameBytes
<1>2. Len(r) + 1 \in T
  BY <1>1
<1>3. PICK n \in T : \A m \in T : n <= m
  <2>1. T \subseteq Nat
    OBVIOUS
  <2> HIDE DEF T
  <2> QED
    BY <1>2, <2>1, LeastNat
<1>4. n \in Nat \ {0} /\ (n > Len(r) \/ n > Len(s) \/ r[n] # s[n])
  BY <1>3
<1>5. \A k \in 1 .. n - 1 : k <= Len(r) /\ k <= Len(s) /\ r[k] = s[k]
  BY <1>1, <1>3
<1>6. n <= Len(r) + 1 /\ n <= Len(s) + 1
  BY <1>1, <1>4, <1>5
<1>7. n <= Len(r) \/ n <= Len(s)
  <2> SUFFICES ASSUME n > Len(r), n > Len(s) PROVE FALSE
    BY <1>1, <1>4
  <2>1. Len(r) = n - 1 /\ Len(s) = n - 1
    BY <1>1, <1>4, <1>6
  <2> QED
    BY <2>1, <1>1, <1>5, SeqEqual
<1> QED
  BY <1>1, <1>4, <1>5, <1>6, <1>7

\* A key that has another byte at some place, and the same ones before, comes
\* before or after accordingly.
LEMMA DecidedAt ==
  ASSUME NEW a, NEW b, NEW n \in Nat \ {0}, n \in DOMAIN a, n \in DOMAIN b,
         DOMAIN a = 1 .. Len(a), DOMAIN b = 1 .. Len(b), Len(a) \in Nat, Len(b) \in Nat,
         \A k \in 1 .. n - 1 : a[k] = b[k], \A k \in 1 .. n : a[k] \in Int,
         a[n] \in Int, b[n] \in Int
  PROVE  /\ a[n] < b[n] => Before(a, b)
         /\ a[n] > b[n] => ~Before(a, b)
<1>1. ASSUME a[n] > b[n], Before(a, b) PROVE FALSE
  <2>1. CASE Len(a) < Len(b) /\ SubSeq(b, 1, Len(a)) = a
    <3>1. SubSeq(b, 1, Len(a))[n] = b[n]
      BY SubSeqProperties, <2>1
    <3> QED
      BY <1>1, <2>1, <3>1
  <2>2. ASSUME NEW m \in DOMAIN a \cap DOMAIN b,
               a[m] < b[m], \A k \in 1 .. m - 1 : a[k] = b[k]
        PROVE  FALSE
    <3>1. m \in Nat \ {0}
      BY <2>2
    <3>2. ~(m < n)
      BY <3>1, <2>2
    <3>3. ~(n < m)
      BY <3>1, <2>2, <1>1
    <3> QED
      BY <3>1, <3>2, <3>3, <2>2, <1>1
  <2> QED
    BY <1>1, <2>1, <2>2 DEF Before
<1> QED
  BY <1>1 DEF Before

\* A key with the beginning of the range is in it.
LEMMA OwnKeysInRange ==
  ASSUME NEW s \in CStrings, NEW id
  PROVE  InRange(s, EncodeKey(s, id))
<1>1. PICK key : key = EncodeKey(s, id)
  OBVIOUS
<1>2. PICK n \in Nat : n = Len(s) + 1
  BY NameBytes
<1>3. /\ Len(key) \in Nat /\ Len(key) > n - 1 /\ Len(key) >= n /\ DOMAIN key = 1 .. Len(key)
      /\ \A k \in 1 .. n - 1 : key[k] = s[k] /\ s[k] \in Int
      /\ key[n] = Sep
  BY <1>1, <1>2, KeyParts, NameBytes, WidthAssumption
<1>4. PICK begin : begin = RangeBegin(s)
  OBVIOUS
<1>5. PICK end : end = RangeEnd(s)
  OBVIOUS
<1>6. /\ Len(begin) = n /\ Len(end) = n /\ DOMAIN begin = 1 .. n /\ DOMAIN end = 1 .. n
      /\ \A k \in 1 .. n - 1 : begin[k] = s[k] /\ end[k] = s[k]
      /\ begin[n] = Sep /\ end[n] = Sep + 1
  BY <1>2, <1>4, <1>5, RangeParts
<1>7. n \in Nat \ {0} /\ Sep \in Int
  BY <1>2, NameBytes DEF Sep
<1>8. Before(key, end)
  <2>1. key[n] < end[n] /\ n \in DOMAIN key \cap DOMAIN end
    BY <1>3, <1>6, <1>7 DEF Sep
  <2>2. \A k \in 1 .. n - 1 : key[k] = end[k]
    BY <1>3, <1>6
  <2> QED
    BY <2>1, <2>2 DEF Before
<1>9. ~Before(key, begin)
  <2>1. ~(Len(key) < Len(begin))
    BY <1>3, <1>6, <1>7
  <2>2. ASSUME NEW m \in DOMAIN key \cap DOMAIN begin, key[m] < begin[m] PROVE FALSE
    BY <2>2, <1>3, <1>6, <1>7
  <2> QED
    BY <2>1, <2>2 DEF Before
<1> QED
  BY <1>1, <1>4, <1>5, <1>8, <1>9 DEF InRange

\* No key of another sensor is in it.
LEMMA OtherKeysNotInRange ==
  ASSUME NEW r \in CStrings, NEW s \in CStrings, ValidName(r), ValidName(s), r # s, NEW id
  PROVE  ~InRange(s, EncodeKey(r, id))
<1>1. PICK n \in Nat \ {0} :
        /\ n <= Len(r) + 1 /\ n <= Len(s) + 1 /\ (n <= Len(r) \/ n <= Len(s))
        /\ \A k \in 1 .. n - 1 : r[k] = s[k]
        /\ n <= Len(r) /\ n <= Len(s) => r[n] # s[n]
  BY NamesPart
<1>2. PICK key : key = EncodeKey(r, id)
  OBVIOUS
<1>3. PICK begin : begin = RangeBegin(s)
  OBVIOUS
<1>4. PICK end : end = RangeEnd(s)
  OBVIOUS
<1>5. /\ Len(r) \in Nat /\ \A k \in 1 .. Len(r) : r[k] \in Int /\ r[k] > 1
      /\ Len(s) \in Nat /\ \A k \in 1 .. Len(s) : s[k] \in Int /\ s[k] > 1
  BY NameBytes DEF Sep
<1>6. /\ Len(key) \in Nat /\ Len(key) > Len(r) + 1 /\ DOMAIN key = 1 .. Len(key)
      /\ \A k \in 1 .. Len(r) : key[k] = r[k]
      /\ key[Len(r) + 1] = 1
  BY <1>2, <1>5, KeyParts, WidthAssumption, SMTT(30) DEF Sep
<1>7. /\ Len(begin) = Len(s) + 1 /\ Len(end) = Len(s) + 1
      /\ DOMAIN begin = 1 .. Len(s) + 1 /\ DOMAIN end = 1 .. Len(s) + 1
      /\ \A k \in 1 .. Len(s) : begin[k] = s[k] /\ end[k] = s[k]
      /\ begin[Len(s) + 1] = 1 /\ end[Len(s) + 1] = 2
  BY <1>3, <1>4, RangeParts DEF Sep
<1>8. /\ n \in DOMAIN key /\ n \in DOMAIN begin /\ n \in DOMAIN end
      /\ \A k \in 1 .. n - 1 : key[k] = begin[k] /\ key[k] = end[k]
      /\ \A k \in 1 .. n : key[k] \in Int
      /\ begin[n] \in Int /\ end[n] \in Int
  <2>1. n \in DOMAIN key /\ n \in DOMAIN begin /\ n \in DOMAIN end
    BY <1>1, <1>5, <1>6, <1>7
  <2>2. ASSUME NEW k \in 1 .. n - 1
        PROVE  key[k] = begin[k] /\ key[k] = end[k] /\ key[k] \in Int
    <3>1. k \in 1 .. Len(r) /\ k \in 1 .. Len(s) /\ r[k] = s[k]
      BY <1>1, <1>5
    <3> QED
      BY <3>1, <1>5, <1>6, <1>7
  <2>3. key[n] \in Int
    <3>1. CASE n <= Len(r)
      BY <3>1, <1>5, <1>6
    <3>2. CASE n = Len(r) + 1
      BY <3>2, <1>6
    <3> QED
      BY <1>1, <1>5, <3>1, <3>2
  <2>4. begin[n] \in Int /\ end[n] \in Int
    <3>1. CASE n <= Len(s)
      BY <3>1, <1>5, <1>7
    <3>2. CASE n = Len(s) + 1
      BY <3>2, <1>7
    <3> QED
      BY <1>1, <1>5, <3>1, <3>2
  <2>5. \A k \in 1 .. n : k \in 1 .. n - 1 \/ k = n
    OBVIOUS
  <2> QED
    BY <2>1, <2>2, <2>3, <2>4, <2>5
<1>9. \/ key[n] < begin[n]
      \/ key[n] > end[n]
      \/ n = Len(s) + 1 /\ key[n] = end[n]
  <2>1. CASE n <= Len(s)
    <3>1. begin[n] = s[n] /\ end[n] = s[n] /\ s[n] \in Int /\ s[n] > 1
      BY <2>1, <1>5, <1>7
    <3>2. CASE n <= Len(r)
      BY <3>1, <3>2, <2>1, <1>1, <1>5, <1>6
    <3>3. CASE n = Len(r) + 1
      BY <3>1, <3>3, <1>6
    <3> QED
      BY <1>1, <1>5, <3>2, <3>3
  <2>2. CASE n = Len(s) + 1
    <3>1. end[n] = 2 /\ n <= Len(r)
      BY <2>2, <1>1, <1>5, <1>7
    <3>2. key[n] = r[n] /\ r[n] > 1 /\ r[n] \in Int
      BY <3>1, <1>5, <1>6
    <3> QED
      BY <3>1, <3>2, <2>2
  <2> QED
    BY <1>1, <1>5, <2>1, <2>2
<1>10. CASE key[n] < begin[n]
  <2>1. Before(key, begin)
    <3>1. Len(key) \in Nat /\ Len(begin) \in Nat /\ DOMAIN begin = 1 .. Len(begin)
      BY <1>5, <1>6, <1>7
    <3>2. n \in Nat \ {0} /\ n \in DOMAIN key /\ n \in DOMAIN begin
      BY <1>8
    <3>3. key[n] \in Int /\ begin[n] \in Int /\ \A k \in 1 .. n - 1 : key[k] = begin[k]
      BY <1>8
    <3> QED
      BY <3>1, <3>2, <3>3, <1>6, <1>8, <1>10, DecidedAt
  <2> QED
    BY <2>1, <1>2, <1>3 DEF InRange
<1>11. CASE key[n] > end[n]
  <2>1. ~Before(key, end)
    <3>1. Len(key) \in Nat /\ Len(end) \in Nat /\ DOMAIN end = 1 .. Len(end)
      BY <1>5, <1>6, <1>7
    <3>2. n \in Nat \ {0} /\ n \in DOMAIN key /\ n \in DOMAIN end
      BY <1>8
    <3>3. key[n] \in Int /\ end[n] \in Int /\ \A k \in 1 .. n - 1 : key[k] = end[k]
      BY <1>8
    <3> QED
      BY <3>1, <3>2, <3>3, <1>6, <1>8, <1>11, DecidedAt
  <2> QED
    BY <2>1, <1>2, <1>4 DEF InRange
<1>12. CASE n = Len(s) + 1 /\ key[n] = end[n]
  <2>1. ~(Len(key) < Len(end))
    BY <1>1, <1>5, <1>6, <1>7, <1>12
  <2>2. \A m \in DOMAIN key \cap DOMAIN end : ~(key[m] < end[m])
    BY <1>5, <1>7, <1>8, <1>12
  <2>3. ~Before(key, end)
    BY <2>1, <2>2 DEF Before
  <2> QED
    BY <2>3, <1>2, <1>4 DEF InRange
<1> QED
  BY <1>9, <1>10, <1>11, <1>12

\* The metadata key comes before every range.
LEMMA MetadataNotInRange ==
  ASSUME NEW s \in CStrings
  PROVE  ~InRange(s, MetadataKey)
<1>1. PICK begin : begin = RangeBegin(s)
  OBVIOUS
<1>2. DOMAIN begin = 1 .. Len(s) + 1 /\ Len(s) \in Nat /\ begin[1] > 0
  <2>1. CASE Len(s) = 0
    <3>1. begin[Len(s) + 1] = 1 /\ DOMAIN begin = 1 .. Len(s) + 1
      BY <1>1, RangeParts DEF Sep
    <3>2. Len(s) + 1 = 1
      BY <2>1
    <3> QED
      BY <2>1, <3>1, <3>2
  <2>2. CASE Len(s) # 0
    BY <2>2, <1>1, RangeParts, NameBytes DEF Nul
  <2> QED
    BY <2>1, <2>2, <1>1, RangeParts, NameBytes
<1>3. Before(MetadataKey, begin)
  <2>1. MetadataKey[1] = 0 /\ 1 \in DOMAIN MetadataKey /\ 1 \in DOMAIN begin
    BY <1>2 DEF MetadataKey, Nul
  <2> QED
    BY <2>1, <1>2 DEF Before
<1> QED
  BY <1>1, <1>3 DEF InRange

\* Nor is it the key of a block.
LEMMA MetadataIsNoBlock ==
  ASSUME NEW s \in CStrings, ValidName(s), NEW id
  PROVE  EncodeKey(s, id) # MetadataKey
<1>1. EncodeKey(s, id)[1] = s[1] /\ s[1] > Nul
  BY KeyParts, NameBytes
<1> QED
  BY <1>1 DEF MetadataKey, Nul

\* The keys of a sensor's blocks are in its range, and no other sensor's and no
\* metadata (storage_rocksdb.cpp:67-90): whatever the names, as long as they are
\* valid, and whatever the ids.
THEOREM RangesAreSeparate ==
  ASSUME NEW r \in CStrings, ValidName(r), NEW s \in CStrings, ValidName(s), NEW id
  PROVE  /\ InRange(s, EncodeKey(r, id)) <=> r = s
         /\ ~InRange(s, MetadataKey)
BY OwnKeysInRange, OtherKeysNotInRange, MetadataNotInRange

-----------------------------------------------------------------------------
(* Listings *)

\* A key is a sequence of bytes.
LEMMA KeyBytes ==
  ASSUME NEW s \in CStrings, NEW id \in Nat
  PROVE  /\ EncodeKey(s, id) \in Seq(Int)
         /\ Len(EncodeKey(s, id)) \in Nat /\ Len(s) \in Nat
         /\ \A k \in 1 .. Len(EncodeKey(s, id)) : EncodeKey(s, id)[k] \in Int
<1>1. s \in Seq(Int) /\ BigEndian(id) \in Seq(Int) /\ <<Sep>> \in Seq(Int) /\ Len(s) \in Nat
  BY NameBytes, BigEndianIs DEF Sep
<1>2. PICK key \in Seq(Int) : key = EncodeKey(s, id)
  <2>1. PICK tail \in Seq(Int) : tail = BigEndian(id)
    BY <1>1
  <2>2. s \o <<Sep>> \in Seq(Int)
    BY <1>1
  <2>3. (s \o <<Sep>>) \o tail \in Seq(Int)
    BY <2>2
  <2> QED
    BY <2>1, <2>3 DEF EncodeKey
<1> QED
  BY <1>1, <1>2

\* Of one sensor's keys that of the smaller id comes first.
LEMMA KeysInOrder ==
  ASSUME NEW s \in CStrings, NEW i \in Ids, NEW j \in Ids, i < j
  PROVE  Before(EncodeKey(s, i), EncodeKey(s, j)) /\ ~Before(EncodeKey(s, j), EncodeKey(s, i))
<1>1. i \in Nat /\ j \in Nat
  BY DEF Ids
<1>2. PICK m \in 1 .. IdBytes :
        /\ BigEndian(i)[m] < BigEndian(j)[m]
        /\ \A k \in 1 .. m - 1 : BigEndian(i)[k] = BigEndian(j)[k]
  BY IdsPart
<1>3. PICK a : a = EncodeKey(s, i)
  OBVIOUS
<1>4. PICK b : b = EncodeKey(s, j)
  OBVIOUS
<1>5. PICK l \in Nat : l = Len(s)
  BY <1>1, KeyBytes
<1>6. PICK w \in Nat \ {0} : w = IdBytes
  BY WidthAssumption
<1>7. /\ Len(a) = l + 1 + w /\ DOMAIN a = 1 .. Len(a)
      /\ \A k \in 1 .. l : a[k] = s[k]
      /\ a[l + 1] = Sep
      /\ \A k \in 1 .. w : a[l + 1 + k] = BigEndian(i)[k]
      /\ \A k \in 1 .. Len(a) : a[k] \in Int
  BY <1>1, <1>3, <1>5, <1>6, KeyParts, KeyBytes
<1>8. /\ Len(b) = l + 1 + w /\ DOMAIN b = 1 .. Len(b)
      /\ \A k \in 1 .. l : b[k] = s[k]
      /\ b[l + 1] = Sep
      /\ \A k \in 1 .. w : b[l + 1 + k] = BigEndian(j)[k]
      /\ \A k \in 1 .. Len(b) : b[k] \in Int
  BY <1>1, <1>4, <1>5, <1>6, KeyParts, KeyBytes
<1>9. PICK n \in Nat \ {0} : n = l + 1 + m /\ n <= l + 1 + w
  BY <1>6
<1>10. a[n] < b[n]
  BY <1>2, <1>6, <1>7, <1>8, <1>9
<1>11. ASSUME NEW k \in 1 .. n - 1 PROVE a[k] = b[k]
  <2>1. k \in 1 .. l \/ k = l + 1 \/ \E h \in 1 .. m - 1 : k = l + 1 + h
    <3>1. k > l + 1 => k - (l + 1) \in 1 .. m - 1 /\ k = l + 1 + (k - (l + 1))
      BY <1>6, <1>9
    <3> QED
      BY <3>1
  <2>2. CASE \E h \in 1 .. m - 1 : k = l + 1 + h
    <3>1. PICK h \in 1 .. m - 1 : k = l + 1 + h
      BY <2>2
    <3>2. h \in 1 .. w
      BY <1>6
    <3> QED
      BY <3>1, <3>2, <1>2, <1>7, <1>8
  <2> QED
    BY <2>1, <2>2, <1>7, <1>8
<1>12. /\ n \in DOMAIN a /\ n \in DOMAIN b /\ Len(a) \in Nat /\ Len(b) \in Nat
       /\ a[n] \in Int /\ b[n] \in Int
       /\ \A k \in 1 .. n : a[k] \in Int /\ b[k] \in Int
  BY <1>6, <1>7, <1>8, <1>9
<1>13. Before(a, b)
  BY <1>7, <1>8, <1>10, <1>11, <1>12, DecidedAt
<1>14. ~Before(b, a)
  <2>1. b[n] > a[n] /\ \A k \in 1 .. n - 1 : b[k] = a[k]
    BY <1>10, <1>11, <1>12
  <2> QED
    BY <2>1, <1>7, <1>8, <1>12, DecidedAt
<1> QED
  BY <1>3, <1>4, <1>13, <1>14

\* No key comes before itself.
LEMMA NotBeforeItself ==
  ASSUME NEW s \in CStrings, NEW id \in Nat
  PROVE  ~Before(EncodeKey(s, id), EncodeKey(s, id))
<1>1. PICK a : a = EncodeKey(s, id)
  OBVIOUS
<1>2. DOMAIN a = 1 .. Len(a) /\ Len(a) \in Nat /\ \A k \in 1 .. Len(a) : a[k] \in Int
  BY <1>1, KeyParts, KeyBytes
<1> QED
  BY <1>1, <1>2 DEF Before

\* A name and an id are told from the key.
LEMMA KeysApart ==
  ASSUME NEW r \in CStrings, ValidName(r), NEW i \in Ids,
         NEW s \in CStrings, ValidName(s), NEW j \in Ids,
         EncodeKey(r, i) = EncodeKey(s, j)
  PROVE  r = s /\ i = j
<1>1. r = s
  BY OwnKeysInRange, OtherKeysNotInRange
<1>2. BigEndian(i) = BigEndian(j)
  BY <1>1, KeyParts
<1> QED
  BY <1>1, <1>2, IdRoundTrip

\* The keys of blocks of these sensors, with ids that fit.
KeysFor(names, ids) == {EncodeKey(r, id) : r \in names, id \in ids}

\* What a store may hold.
IsStore(keys, names, ids) ==
    /\ names \subseteq CStrings /\ \A r \in names : ValidName(r)
    /\ ids \subseteq Ids
    /\ keys \subseteq KeysFor(names, ids) \cup {MetadataKey}

\* A sensor's range holds the keys of its blocks.
LEMMA KeysOfAre ==
  ASSUME NEW names, NEW ids, NEW keys, IsStore(keys, names, ids),
         NEW s \in CStrings, ValidName(s)
  PROVE  KeysOf(keys, s) = {EncodeKey(s, id) : id \in {i \in ids : EncodeKey(s, i) \in keys}}
<1>1. ASSUME NEW key \in KeysOf(keys, s)
      PROVE  \E id \in ids : key = EncodeKey(s, id) /\ EncodeKey(s, id) \in keys
  <2>1. key \in keys /\ InRange(s, key)
    BY DEF KeysOf
  <2>2. key # MetadataKey
    BY <2>1, MetadataNotInRange
  <2>3. PICK r \in names, id \in ids : key = EncodeKey(r, id)
    BY <2>1, <2>2 DEF IsStore, KeysFor
  <2>4. r = s
    BY <2>1, <2>3, OtherKeysNotInRange DEF IsStore
  <2> QED
    BY <2>1, <2>3, <2>4
<1>2. ASSUME NEW id \in ids, EncodeKey(s, id) \in keys PROVE EncodeKey(s, id) \in KeysOf(keys, s)
  BY <1>2, OwnKeysInRange, KeyParts DEF KeysOf
<1> QED
  BY <1>1, <1>2

\* The id in a key.
LEMMA IdInKey ==
  ASSUME NEW s \in CStrings, NEW id \in Ids
  PROVE  IdIn(s, EncodeKey(s, id)) = id
BY KeyParts, IdRoundTrip DEF IdIn

\* ListBlocks lists what is stored of a sensor, and nothing else
\* (storage_rocksdb.cpp:315-349).
THEOREM ListBlocksIs ==
  ASSUME NEW names, NEW ids, NEW keys, IsStore(keys, names, ids),
         NEW s \in CStrings, ValidName(s)
  PROVE  ListBlocks(keys, s) = {id \in ids : EncodeKey(s, id) \in keys}
<1>1. KeysOf(keys, s) = {EncodeKey(s, id) : id \in {i \in ids : EncodeKey(s, i) \in keys}}
  BY KeysOfAre
<1>2. \A id \in ids : IdIn(s, EncodeKey(s, id)) = id
  BY IdInKey DEF IsStore
<1> QED
  BY <1>1, <1>2 DEF ListBlocks

\* The listing ends with the greatest id: the order of the keys is that of the
\* ids (storage_rocksdb.cpp:36-45), as Open takes it to be (engine.cpp:375-377).
THEOREM LastListedIsGreatest ==
  ASSUME NEW names, NEW ids, NEW keys, IsStore(keys, names, ids),
         NEW s \in CStrings, ValidName(s),
         ListBlocks(keys, s) # {}, NEW bound \in Nat, \A id \in ids : id <= bound
  PROVE  /\ LastListed(keys, s) \in ListBlocks(keys, s)
         /\ \A id \in ListBlocks(keys, s) : id <= LastListed(keys, s)
<1> DEFINE listed == ListBlocks(keys, s)
           last == CHOOSE key \in KeysOf(keys, s) :
                      \A other \in KeysOf(keys, s) : ~Before(key, other)
<1>1. listed = {id \in ids : EncodeKey(s, id) \in keys}
  BY ListBlocksIs
<1>2. KeysOf(keys, s) = {EncodeKey(s, id) : id \in listed}
  BY <1>1, KeysOfAre
<1>3. listed \subseteq Ids /\ listed \subseteq Nat /\ \A id \in listed : id <= bound
  BY <1>1 DEF IsStore, Ids
<1>4. PICK m \in listed : \A id \in listed : id <= m
  <2> HIDE DEF listed
  <2> QED
    BY <1>3, GreatestNat DEF listed
<1> HIDE DEF listed
<1>5. ASSUME NEW id \in listed PROVE ~Before(EncodeKey(s, m), EncodeKey(s, id))
  <2>1. id \in Ids /\ m \in Ids /\ id \in Nat /\ m \in Nat /\ id <= m
    BY <1>3, <1>4
  <2>2. CASE id = m
    BY <2>1, <2>2, NotBeforeItself
  <2>3. CASE id < m
    BY <2>1, <2>3, KeysInOrder
  <2> QED
    BY <2>1, <2>2, <2>3
<1>6. last \in KeysOf(keys, s) /\ \A other \in KeysOf(keys, s) : ~Before(last, other)
  <2>1. \E key \in KeysOf(keys, s) : \A other \in KeysOf(keys, s) : ~Before(key, other)
    BY <1>2, <1>5
  <2> QED
    BY <2>1
<1>7. PICK id \in listed : last = EncodeKey(s, id)
  BY <1>2, <1>6
<1>8. id = m
  <2>1. ~Before(EncodeKey(s, id), EncodeKey(s, m))
    BY <1>2, <1>6, <1>7
  <2>2. id \in Ids /\ m \in Ids /\ id \in Nat /\ m \in Nat /\ id <= m
    BY <1>3, <1>4
  <2>3. ~(id < m)
    BY <2>1, <2>2, KeysInOrder
  <2> QED
    BY <2>2, <2>3
<1>9. LastListed(keys, s) = m
  BY <1>3, <1>7, <1>8, IdInKey DEF LastListed
<1> QED
  BY <1>4, <1>9 DEF listed

\* The name in a key.
LEMMA NameInKey ==
  ASSUME NEW s \in CStrings, ValidName(s), NEW id \in Nat
  PROVE  NameIn(EncodeKey(s, id)) = s /\ Contains(EncodeKey(s, id), Sep)
<1>1. PICK key : key = EncodeKey(s, id)
  OBVIOUS
<1>2. PICK n \in Nat : n = Len(s)
  BY KeyBytes
<1>3. /\ key \in Seq(Int) /\ Len(key) = n + 1 + IdBytes /\ DOMAIN key = 1 .. Len(key)
      /\ key[n + 1] = Sep
      /\ \A k \in 1 .. n : key[k] = s[k]
  BY <1>1, <1>2, KeyParts, KeyBytes
<1>4. n + 1 \in DOMAIN key /\ n <= Len(key)
  BY <1>3, WidthAssumption
<1>5. s \in Seq(Int) /\ \A k \in 1 .. n : s[k] \in Int /\ s[k] > Sep
  BY <1>2, NameBytes DEF Nul
<1> DEFINE seps == {k \in DOMAIN key : key[k] = Sep}
<1>6. n + 1 \in seps /\ \A k \in seps : k \in Nat /\ n + 1 <= k
  <2>1. \A k \in 1 .. n : key[k] # Sep
    BY <1>3, <1>5 DEF Sep
  <2> QED
    BY <2>1, <1>3, <1>4
<1>7. Min(seps) = n + 1
  <2> HIDE DEF seps
  <2> QED
    BY <1>6 DEF Min
<1>8. NameIn(key) = SubSeq(key, 1, n)
  BY <1>7 DEF NameIn
<1>9. SubSeq(key, 1, n) = s
  <2>1. PICK sub : sub = SubSeq(key, 1, n)
    OBVIOUS
  <2>2. sub \in Seq(Int) /\ Len(sub) = n /\ \A k \in 1 .. n : sub[k] = key[k]
    BY <2>1, <1>3, <1>4, SubSeqProperties
  <2> QED
    BY <2>1, <2>2, <1>2, <1>3, <1>5, SeqEqual
<1> QED
  BY <1>1, <1>3, <1>4, <1>8, <1>9 DEF Contains

\* ListSensors lists the sensors that have a block (storage_rocksdb.cpp:355-388),
\* and takes the metadata for none.
THEOREM ListSensorsIs ==
  ASSUME NEW names, NEW ids, NEW keys, IsStore(keys, names, ids)
  PROVE  ListSensors(keys) = {s \in names : \E id \in ids : EncodeKey(s, id) \in keys}
<1>1. ~Contains(MetadataKey, Sep)
  BY ByteAssumption DEF Contains, MetadataKey, Nul, Sep
<1>2. ASSUME NEW s \in names, NEW id \in ids
      PROVE  NameIn(EncodeKey(s, id)) = s /\ Contains(EncodeKey(s, id), Sep)
  BY NameInKey DEF IsStore, Ids
<1>3. ASSUME NEW key \in keys, Contains(key, Sep)
      PROVE  \E s \in names, id \in ids : key = EncodeKey(s, id)
  BY <1>1, <1>3 DEF IsStore, KeysFor
<1> QED
  BY <1>2, <1>3 DEF ListSensors

=============================================================================
