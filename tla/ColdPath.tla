------------------------------- MODULE ColdPath -------------------------------
(***************************************************************************)
(* One cold_path over the lives of several engines: what Create, Open,      *)
(* WriteBlock, drop_sensor and damage on disk do to the keys and values of  *)
(* the store (src/engine.cpp, src/storage_rocksdb.cpp, src/block_codec.cpp),*)
(* and that the store read back through its listings is a BlockMap.         *)
(*                                                                          *)
(* Calls are whole and every write takes effect: ColdTier interleaves them, *)
(* lets them fail and crashes between them, over a store that is a set of   *)
(* blocks.  Which rows a block has is HotWindow's subject.                  *)
(***************************************************************************)
EXTENDS KeySpace, EngineConfig

CONSTANTS
    Callers,        \* the sensor ids callers use: C strings
    Requests,       \* the configurations given to Create
    GivenUuids,     \* the uuids a caller may put into one
    Windows,        \* the windows given to MaintainSlidingWindow
    BlockCounts,    \* the numbers of entries in a block
    Noise,          \* what a damaged field may hold
    MaxBlockId,     \* bound on the ids of a sensor's blocks
    MaxKeys,        \* bound on the keys of the store
    MaxStarts,      \* bound on successful Create and Open calls
    MaxDamages      \* bound on damaged values

ASSUME CallersAssumption == Callers \subseteq CStrings
ASSUME RequestsAssumption == Requests \subseteq Configs /\ GivenUuids \subseteq Nat \ {0}
ASSUME WindowsAssumption == Windows \subseteq Int
ASSUME BlockCountsAssumption == BlockCounts \subseteq Nat \ {0} /\ Noise \subseteq Nat
ASSUME PathBoundsAssumption == MaxBlockId \in Ids /\ {MaxKeys, MaxStarts, MaxDamages} \subseteq Nat

VARIABLES
    kv,             \* the store: values by key
    running,        \* an engine is open on the path
    cfg, uuid,      \* the running engine's configuration and identity
    next,           \* next_block_id by sensor in its map
    given,          \* the configuration the last Create put on the path
    starts, damages,
    misled,         \* an engine has opened the path without its metadata, or
                    \* the metadata has been damaged
    seen            \* what the listings and ReadBlock answer: SeenIn(kv)

engineVars == <<running, cfg, uuid, next>>
vars == <<kv, engineVars, given, starts, damages, misled, seen>>

NoConfig == PlainConfig(0)
Keys == DOMAIN kv
HasMetadata == MetadataKey \in Keys
Metadata == kv[MetadataKey]

Put(map, key, value) ==
    [k \in DOMAIN map \cup {key} |-> IF k = key THEN value ELSE map[k]]

Init ==
    /\ kv = <<>>
    /\ running = FALSE /\ cfg = NoConfig /\ uuid = 0 /\ next = <<>>
    /\ given = NoConfig
    /\ starts = 0 /\ damages = 0
    /\ misled = FALSE
    /\ seen = <<>>

-----------------------------------------------------------------------------
(* Engines come and go. *)

\* generate_uuid_v4: never one seen before.
FreshUuid == starts + 1

CanCreate_PayloadUnchecked(request) ==
    /\ Validate(request) = "OK"
    /\ HasMetadata =>
        /\ MetadataReadable(Metadata)
        /\ [SchemaOf(DeserializeMetadata(Metadata, NoConfig)) EXCEPT !.payload = request.payload]
                = SchemaOf(Defaulted(request))

\* What is on the path must be metadata, of the same schema.
CanCreate(request) ==
    /\ Validate(request) = "OK"
    /\ HasMetadata =>
        /\ MetadataReadable(Metadata)
        /\ SchemaOf(DeserializeMetadata(Metadata, NoConfig)) = SchemaOf(Defaulted(request))

Create_NewUuid(request, id) ==
    /\ ~running /\ starts < MaxStarts
    /\ CanCreate(request)
    /\ starts' = starts + 1
    /\ running' = TRUE
    /\ cfg' = Defaulted(request) /\ given' = cfg'
    /\ uuid' = id
    /\ next' = <<>>
    /\ kv' = Put(kv, MetadataKey, SerializeMetadata(cfg', uuid'))
    /\ UNCHANGED <<damages, misled>>

\* The identity on the path is adopted, over the caller's or a generated one, and
\* the metadata written again with the new window and interval. The map starts
\* out empty whatever the store holds. A refused Create changes nothing.
Create(request, id) ==
    /\ ~running /\ starts < MaxStarts
    /\ CanCreate(request)
    /\ starts' = starts + 1
    /\ running' = TRUE
    /\ cfg' = Defaulted(request) /\ given' = cfg'
    /\ uuid' = IF HasMetadata THEN UuidIn(Metadata) ELSE id
    /\ next' = <<>>
    /\ kv' = Put(kv, MetadataKey, SerializeMetadata(cfg', uuid'))
    /\ UNCHANGED <<damages, misled>>

\* Without metadata the placeholder is used as it is.
FoundConfig ==
    IF HasMetadata THEN DeserializeMetadata(Metadata, PlainConfig(DefaultDim))
                   ELSE PlainConfig(DefaultDim)

CanOpen_Unvalidated == HasMetadata => MetadataReadable(Metadata)

CanOpen ==
    /\ HasMetadata => MetadataReadable(Metadata)
    /\ Validate(FoundConfig) = "OK"

SeededId_Skips(s) ==
    IF ListBlocks(Keys, s) = {} THEN 0 ELSE LastListed(Keys, s) + 2

SeededId(s) ==
    IF ListBlocks(Keys, s) = {} THEN 0 ELSE LastListed(Keys, s) + 1

\* Every stored sensor gets a slot. Nothing is written.
Open ==
    /\ ~running /\ starts < MaxStarts
    /\ CanOpen
    /\ starts' = starts + 1
    /\ running' = TRUE
    /\ cfg' = Defaulted(FoundConfig)
    /\ uuid' = IF HasMetadata THEN UuidIn(Metadata) ELSE FreshUuid
    /\ next' = [s \in ListSensors(Keys) |-> SeededId(s)]
    /\ misled' = (misled \/ ~HasMetadata)
    /\ UNCHANGED <<kv, given, damages>>

Close ==
    /\ running
    /\ running' = FALSE /\ cfg' = NoConfig /\ uuid' = 0 /\ next' = <<>>
    /\ UNCHANGED <<kv, given, starts, damages, misled>>

\* Only the engine's own configuration gets the new window, 0 included, and no
\* metadata is written. Its eviction pass is StoreBlock.
MaintainSlidingWindow(window) ==
    /\ running
    /\ window >= 0
    /\ cfg' = [cfg EXCEPT !.window = window]
    /\ UNCHANGED <<kv, running, uuid, next, given, starts, damages, misled>>

-----------------------------------------------------------------------------
(* Blocks *)

\* The block EvictSensor makes of n entries: rows told apart by their section,
\* their block and their place in it.
NewBlock(c, id, n) ==
    LET rows(section) == [k \in 1 .. n |-> 100 * section + 10 * id + k]
        dtype == DtypeOf(c.dtype)
    IN [dim |-> c.dim, count |-> n, dtype |-> dtype, payloadSize |-> c.payload,
        tStart |-> rows(1)[1], tEnd |-> rows(1)[n],
        timestamps |-> rows(1), vectors |-> rows(2),
        scales |-> IF dtype = Int8 THEN rows(3) ELSE <<>>,
        payloads |-> IF c.payload > 0 THEN rows(4) ELSE <<>>]

NextId(s) == IF s \in DOMAIN next THEN next[s] ELSE 0

\* An Append, which refuses an invalid name and makes the slot, and the pass
\* that stores what was appended.
StoreBlock(s, n) ==
    /\ running
    /\ ValidName(s)
    /\ NextId(s) <= MaxBlockId
    /\ Cardinality(Keys) < MaxKeys
    /\ kv' = Put(kv, EncodeKey(s, NextId(s)), Serialize(NewBlock(cfg, NextId(s), n)))
    /\ next' = Put(next, s, NextId(s) + 1)
    /\ UNCHANGED <<running, cfg, uuid, given, starts, damages, misled>>

\* DropSensor, DeleteSensor
DropSensor(s) ==
    /\ running
    /\ s \in DOMAIN next
    /\ next' = RestrictDomain(next, LAMBDA r : r # s)
    /\ kv' = RestrictDomain(kv, LAMBDA key : ~InRange(s, key))
    /\ UNCHANGED <<running, cfg, uuid, given, starts, damages, misled>>

\* A field is changed, the last one lost, or something added at the end.
DamagedFields(field) ==
    IF "over" \in DOMAIN field THEN {CrcField(<<>>)}
    ELSE {Field(field.width, value) : value \in Noise \ {field.value}}

Damaged(bytes) ==
    {FirstBytes(bytes, Max(DOMAIN bytes)), Joined(bytes, [o \in {Size(bytes)} |-> Field(4, 0)])}
    \cup UNION {{[bytes EXCEPT ![o] = f] : f \in DamagedFields(bytes[o])} : o \in DOMAIN bytes}

\* A block that cannot be read any more is left alone: a change that undoes
\* another is left out.
Damage(key) ==
    /\ damages < MaxDamages
    /\ key # MetadataKey => Decode(kv[key]) # Corrupt
    /\ damages' = damages + 1
    /\ \E bytes \in Damaged(kv[key]) : kv' = [kv EXCEPT ![key] = bytes]
    /\ misled' = (misled \/ key = MetadataKey)
    /\ UNCHANGED <<engineVars, given, starts>>

-----------------------------------------------------------------------------

\* The store as Open, ListBlocks and ReadBlock see it.
SeenIn(store) ==
    LET keys == DOMAIN store
        blocks == UNION {{<<s, id>> : id \in ListBlocks(keys, s)} : s \in ListSensors(keys)}
    IN [p \in blocks |-> Decode(store[EncodeKey(p[1], p[2])])]

Call ==
    \/ \E request \in Requests : \E id \in {FreshUuid} \cup GivenUuids : Create(request, id)
    \/ Open
    \/ Close
    \/ \E window \in Windows : MaintainSlidingWindow(window)
    \/ \E s \in Callers : \E n \in BlockCounts : StoreBlock(s, n)
    \/ \E s \in Callers : DropSensor(s)
    \/ \E key \in Keys : Damage(key)

Next == Call /\ seen' = SeenIn(kv')

Spec == Init /\ [][Next]_vars

-----------------------------------------------------------------------------
(* Properties *)

BlockKeys == {EncodeKey(s, id) : s \in {c \in Callers : ValidName(c)}, id \in 0 .. MaxBlockId}

\* The store holds metadata and blocks, and the engine's map valid names.
TypeOK ==
    /\ Keys \subseteq BlockKeys \cup {MetadataKey}
    /\ running \in BOOLEAN
    /\ {SchemaOf(cfg), SchemaOf(given)} \subseteq
            [dim : Nat, dtype : {0, 1}, metric : {0, 1}, payload : Nat, capacity : Nat]
    /\ uuid \in Nat
    /\ \A s \in DOMAIN next : ValidName(s) /\ next[s] \in 0 .. MaxBlockId + 1
    /\ starts \in 0 .. MaxStarts /\ damages \in 0 .. MaxDamages
    /\ misled \in BOOLEAN

\* Every block some engine may write, those with damaged metadata included.
Guesses == Noise \cup {0, Junk}
Shapes ==
    {[PlainConfig(dim) EXCEPT !.dtype = dtype, !.payload = payload] :
        dim \in {r.dim : r \in Requests} \cup {DefaultDim} \cup Guesses,
        dtype \in {0, 1},
        payload \in {r.payload : r \in Requests} \cup Guesses}
WritableBlocks == {NewBlock(c, id, n) : c \in Shapes, id \in 0 .. MaxBlockId, n \in BlockCounts}

Map == INSTANCE BlockMap WITH
    blocks <- seen,
    next <- next,
    Contents <- WritableBlocks,
    Unreadable <- Corrupt

\* The listings and ReadBlock show every block as it was written or as corrupt,
\* WriteBlock adds one, DeleteSensor takes all of one sensor's, and Open goes on
\* after the last one: no key falls into another sensor's range
\* (storage_rocksdb.cpp:67-90), no metadata into a listing (436-441), and a
\* changed field never passes decode_block (block_codec.cpp:196-245).
ImplementsBlockMap == Map!Spec

\* Every block that can be read has the schema of the engine that reads it: rows
\* are copied with its dim (engine.cpp:1276-1312), so Create must refuse any
\* other schema (416-427); unless an engine had to guess (316-318).
BlocksMatchSchema ==
    running /\ ~misled =>
        \A p \in DOMAIN seen :
            seen[p] = Corrupt \/ /\ seen[p].dim = cfg.dim
                                 /\ seen[p].dtype = DtypeOf(cfg.dtype)
                                 /\ seen[p].payloadSize = cfg.payload

\* "engine identity is stable across close/reopen" (engine.cpp:419-420): once on
\* the path, the uuid and the schema stay.
IdentityIsStable ==
    [][HasMetadata /\ ~misled' =>
        /\ UuidIn(Metadata') = UuidIn(Metadata)
        /\ SchemaOf(DeserializeMetadata(Metadata', NoConfig))
             = SchemaOf(DeserializeMetadata(Metadata, NoConfig))]_vars

\* What is on disk is what the last Create was given, field by field, however
\* many engines have been opened on it, and all that a running one may have changed
\* since is its window (engine.cpp:111-164, 892): Open brings back what Create was
\* given, and not what maintain_sliding_window made of it.
MetadataIsTheConfig ==
    ~misled =>
        /\ HasMetadata => DeserializeMetadata(Metadata, NoConfig) = given
        /\ running => /\ HasMetadata /\ UuidIn(Metadata) = uuid
                      /\ cfg = [given EXCEPT !.window = cfg.window]

\* No engine runs with a configuration validate_and_default refuses, whatever the
\* metadata says, which has no checksum (engine.cpp:352-354), and whatever windows
\* it was given since; nor with a default left to fill in but a window of 0, which
\* only maintain_sliding_window takes as it is (887-892).
RunningConfigIsValid ==
    running => /\ Validate(cfg) = "OK"
               /\ Defaulted(cfg) = [cfg EXCEPT !.window = IfZero(@, DefaultWindow)]

=============================================================================
