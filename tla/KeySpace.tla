------------------------------- MODULE KeySpace -------------------------------
(***************************************************************************)
(* The keys of RocksDBStorageBackend (src/storage_rocksdb.cpp):             *)
(*     sensor name, separator byte, block id (big-endian)                   *)
(* their order in RocksDB, and what ListBlocks, ListSensors and              *)
(* DeleteSensor take out of a set of keys.  Of a listing the models need    *)
(* what is in it and what comes last.                                       *)
(*                                                                          *)
(* A byte has ByteValues values (256) and an id IdBytes bytes (8).          *)
(***************************************************************************)
EXTENDS Integers, Sequences, SequencesExt, FiniteSetsExt

CONSTANTS
    ByteValues,     \* the number of values of a byte
    IdBytes,        \* the bytes of a block id
    MaxNameLen      \* kMaxSensorIdLen

\* The separator and the byte after it must be bytes.
ASSUME ByteAssumption == ByteValues \in Nat /\ ByteValues > 2
ASSUME WidthAssumption == {IdBytes, MaxNameLen} \subseteq Nat \ {0}

Nul == 0
Sep == 1
Bytes == 0 .. ByteValues - 1

\* An id shifted to the right by 0, 1, .. bytes.
Shifted(id) ==
    LET shift[k \in 0 .. IdBytes] == IF k = 0 THEN id ELSE shift[k - 1] \div ByteValues
    IN shift

\* What fits into IdBytes bytes.
Ids == {id \in Nat : Shifted(id)[IdBytes] = 0}

\* Starts with a byte no C string holds; the code's four letters are one here.
MetadataKey == <<Nul, ByteValues - 1>>

\* What a caller may pass as a sensor id: a C string.
CStrings == UNION {[1 .. n -> Bytes \ {Nul}] : n \in 0 .. MaxNameLen + 1}

ValidName(s) == Len(s) \in 1 .. MaxNameLen /\ ~Contains(s, Sep)

-----------------------------------------------------------------------------
(* Keys *)

BigEndian(id) == [k \in 1 .. IdBytes |-> Shifted(id)[IdBytes - k] % ByteValues]

FromBigEndian(bytes) ==
    LET value[k \in 0 .. Len(bytes)] ==
            IF k = 0 THEN 0 ELSE value[k - 1] * ByteValues + bytes[k]
    IN value[Len(bytes)]

EncodeKey(s, id) == s \o <<Sep>> \o BigEndian(id)

\* RocksDB's default comparator: bytewise, a prefix first.
Before(a, b) ==
    \/ Len(a) < Len(b) /\ SubSeq(b, 1, Len(a)) = a
    \/ \E n \in DOMAIN a \cap DOMAIN b :
        a[n] < b[n] /\ \A k \in 1 .. n - 1 : a[k] = b[k]

RangeBegin(s) == s \o <<Sep>>
RangeEnd_PastEveryName(s) == s \o <<ByteValues>>
RangeEnd(s) == s \o <<Sep + 1>>

\* DeleteSensor's range and ListBlocks': from begin, up to but without end.
InRange(s, key) == ~Before(key, RangeBegin(s)) /\ Before(key, RangeEnd(s))

-----------------------------------------------------------------------------
(* Listings *)

\* A key of another size in the range is skipped.
KeysOf(keys, s) == {key \in keys : InRange(s, key) /\ Len(key) = Len(s) + 1 + IdBytes}

IdIn(s, key) == FromBigEndian(SubSeq(key, Len(s) + 2, Len(key)))

ListBlocks(keys, s) == {IdIn(s, key) : key \in KeysOf(keys, s)}

\* The id the listing ends with: the one in the key after which no other comes.
LastListed(keys, s) ==
    IdIn(s, CHOOSE key \in KeysOf(keys, s) : \A other \in KeysOf(keys, s) : ~Before(key, other))

\* Everything before the first separator.
NameIn(key) ==
    SubSeq(key, 1, Min({k \in DOMAIN key : key[k] = Sep}) - 1)

\* One pass over all keys; a key without a separator is skipped. That a name is
\* told only from the last one is enough in this order, and Open would not mind.
ListSensors(keys) == {NameIn(key) : key \in {k \in keys : Contains(k, Sep)}}

=============================================================================
