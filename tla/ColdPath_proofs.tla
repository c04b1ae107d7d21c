----------------------------- MODULE ColdPath_proofs -----------------------------
(***************************************************************************)
(* Proofs about ColdPath and the values it stores, for any names,           *)
(* configurations and rows; KeySpace_proofs has those about its keys.       *)
(*                                                                          *)
(* What is written into the metadata is what is read out of it, and PathInv *)
(* says that, until an engine had to guess, the metadata on disk is the     *)
(* serialization of what the last Create was given, its defaults filled in, *)
(* and the running engine's configuration that up to the window.  TypeInv   *)
(* says what the keys, the counters and the numbers in the metadata are,    *)
(* whatever was damaged.                                                    *)
(*                                                                          *)
(* A block's sections lie one after the other up to its checksum, so that   *)
(* what decode_block reads is what serialize_block was given, and a damaged *)
(* block is that or corrupt.  BlockInv says so of every stored block, and   *)
(* that those that can be read have the schema of the path.  From the three *)
(* and the listings follows that the path implements BlockMap.              *)
(***************************************************************************)
EXTENDS ColdPath, KeySpace_proofs

-----------------------------------------------------------------------------
(* Configurations *)

\* A record with the fields of chronosv_config_t.
Fields == {"abi", "dim", "dtype", "metric", "payload", "capacity", "window", "interval", "recover"}
IsConfig(c) == c = [f \in Fields |-> c[f]]

\* What an engine starts with.
Accepted(c) == IsConfig(c) /\ Validate(c) = "OK" /\ Defaulted(c) = c

\* What one may run with: a window of 0 too.
Usable(c) ==
    /\ IsConfig(c)
    /\ Validate(c) = "OK"
    /\ Defaulted(c) = [c EXCEPT !.window = IfZero(@, DefaultWindow)]

\* Two configurations are told apart by some field.
LEMMA SameFields ==
  ASSUME NEW c, IsConfig(c), NEW d, IsConfig(d),
         c.abi = d.abi, c.dim = d.dim, c.dtype = d.dtype, c.metric = d.metric,
         c.payload = d.payload, c.capacity = d.capacity, c.window = d.window,
         c.interval = d.interval, c.recover = d.recover
  PROVE  c = d
BY DEF IsConfig, Fields

\* Field by field.
LEMMA DefaultedIs ==
  ASSUME NEW c, IsConfig(c)
  PROVE  /\ IsConfig(Defaulted(c))
         /\ Defaulted(c).abi = c.abi /\ Defaulted(c).dim = c.dim /\ Defaulted(c).dtype = c.dtype
         /\ Defaulted(c).metric = c.metric /\ Defaulted(c).payload = c.payload
         /\ Defaulted(c).recover = c.recover
         /\ Defaulted(c).capacity = IfZero(c.capacity, DefaultRingCapacity)
         /\ Defaulted(c).window = IfZero(c.window, DefaultWindow)
         /\ Defaulted(c).interval = IfZero(c.interval, DefaultInterval)
BY DEF IsConfig, Defaulted, Fields

\* Defaults are filled in once, and what they make of a configuration is as
\* acceptable as it was.
LEMMA DefaultsAreFinal ==
  ASSUME NEW c, IsConfig(c)
  PROVE  /\ Defaulted(Defaulted(c)) = Defaulted(c)
         /\ Validate(Defaulted(c)) = Validate(c)
<1>1. \A v, d : d # 0 => IfZero(IfZero(v, d), d) = IfZero(v, d)
  BY DEF IfZero
<1>2. DefaultRingCapacity # 0 /\ DefaultWindow # 0 /\ DefaultInterval # 0
  BY DEF DefaultRingCapacity, DefaultWindow, DefaultInterval
<1> DEFINE d == Defaulted(c)
<1>3. IsConfig(d) /\ IsConfig(Defaulted(d))
  BY DefaultedIs
<1>4. Defaulted(d) = d
  <2> HIDE DEF d
  <2>1. /\ d.capacity = IfZero(c.capacity, DefaultRingCapacity)
        /\ d.window = IfZero(c.window, DefaultWindow)
        /\ d.interval = IfZero(c.interval, DefaultInterval)
    BY DefaultedIs DEF d
  <2>2. /\ Defaulted(d).capacity = d.capacity
        /\ Defaulted(d).window = d.window
        /\ Defaulted(d).interval = d.interval
    BY <1>1, <1>2, <1>3, <2>1, DefaultedIs
  <2> QED
    BY <1>3, <2>2, DefaultedIs, SameFields
<1>5. /\ d.abi = c.abi /\ d.dim = c.dim /\ d.dtype = c.dtype
      /\ d.metric = c.metric /\ d.payload = c.payload
  BY DefaultedIs
<1>6. Validate(d) = Validate(c)
  BY <1>4, <1>5 DEF Validate
<1> QED
  BY <1>4, <1>6

\* What Create is given is accepted as it is put into the engine.
LEMMA RequestsAreAccepted ==
  ASSUME NEW c, IsConfig(c), Validate(c) = "OK"
  PROVE  Accepted(Defaulted(c))
BY DefaultedIs, DefaultsAreFinal DEF Accepted

\* An engine starts with what it may run with.
LEMMA AcceptedIsUsable == \A c : Accepted(c) => Usable(c)
<1> SUFFICES ASSUME NEW c, Accepted(c) PROVE Usable(c)
  OBVIOUS
<1>1. IsConfig(c) /\ c = Defaulted(c) /\ Validate(c) = "OK"
  BY DEF Accepted
<1>2. c.window = IfZero(c.window, DefaultWindow)
  BY <1>1, DefaultedIs
<1>3. [c EXCEPT !.window = IfZero(@, DefaultWindow)] = c
  BY <1>1, <1>2 DEF IsConfig, Fields
<1> QED
  BY <1>1, <1>3 DEF Usable

\* Any window that is not negative may replace the one it runs with.
LEMMA WindowsAreUsable ==
  ASSUME NEW c, Usable(c), NEW w \in Int, w >= 0
  PROVE  Usable([c EXCEPT !.window = w])
<1>1. PICK d : d = [c EXCEPT !.window = w]
  OBVIOUS
<1>2. /\ IsConfig(c) /\ IsConfig(d) /\ d.window = w
      /\ d.abi = c.abi /\ d.dim = c.dim /\ d.dtype = c.dtype /\ d.metric = c.metric
      /\ d.payload = c.payload /\ d.capacity = c.capacity /\ d.interval = c.interval
      /\ d.recover = c.recover
  BY <1>1 DEF Usable, IsConfig, Fields
<1>3. Defaulted(c).capacity = c.capacity /\ Defaulted(c).interval = c.interval
  BY DEF Usable, IsConfig, Fields
<1>4. /\ Defaulted(d).capacity = c.capacity /\ Defaulted(d).interval = c.interval
      /\ Defaulted(d).window = IfZero(w, DefaultWindow)
  BY <1>2, <1>3, DefaultedIs
<1>5. Defaulted(d) = [d EXCEPT !.window = IfZero(@, DefaultWindow)]
  <2>1. PICK e : e = [d EXCEPT !.window = IfZero(@, DefaultWindow)]
    OBVIOUS
  <2>2. /\ IsConfig(e) /\ e.window = IfZero(w, DefaultWindow)
        /\ e.abi = d.abi /\ e.dim = d.dim /\ e.dtype = d.dtype /\ e.metric = d.metric
        /\ e.payload = d.payload /\ e.capacity = d.capacity /\ e.interval = d.interval
        /\ e.recover = d.recover
    BY <1>2, <2>1 DEF IsConfig, Fields
  <2>3. /\ IsConfig(Defaulted(d)) /\ Defaulted(d).abi = d.abi /\ Defaulted(d).dim = d.dim
        /\ Defaulted(d).dtype = d.dtype /\ Defaulted(d).metric = d.metric
        /\ Defaulted(d).payload = d.payload /\ Defaulted(d).recover = d.recover
    BY <1>2, DefaultedIs
  <2>4. Defaulted(d) = e
    BY <1>2, <1>4, <2>2, <2>3, SameFields
  <2> QED
    BY <2>1, <2>4
<1>6. IfZero(w, DefaultWindow) \in Int /\ ~(IfZero(w, DefaultWindow) < 0)
  BY DEF IfZero, DefaultWindow
<1>7. Validate(d) = "OK"
  <2>1. Validate(c) = "OK"
    BY DEF Usable
  <2> QED
    BY <1>2, <1>3, <1>4, <1>6, <2>1 DEF Validate
<1> QED
  BY <1>1, <1>2, <1>5, <1>7 DEF Usable

\* The configuration Open starts from has all fields.
LEMMA PlainIsConfig == \A n : IsConfig(PlainConfig(n))
BY DEF IsConfig, PlainConfig, Fields

\* deserialize_engine_metadata sets fields and leaves abi_version alone.
LEMMA DeserializedIsConfig ==
  ASSUME NEW c, IsConfig(c), NEW bytes
  PROVE  /\ IsConfig(DeserializeMetadata(bytes, c))
         /\ DeserializeMetadata(bytes, c).abi = c.abi
BY DEF IsConfig, DeserializeMetadata, Fields

-----------------------------------------------------------------------------
(* The metadata blob *)

\* The fields that are read again, at their offsets.
LEMMA MetadataFields ==
  ASSUME NEW c, NEW id
  PROVE  LET bytes == SerializeMetadata(c, id)
         IN /\ {8, 12, 13, 14, 18, 26, 34, 42, 58} \subseteq DOMAIN bytes
            /\ bytes[8] = Field(4, c.dim) /\ bytes[12] = Field(1, c.dtype)
            /\ bytes[13] = Field(1, c.metric) /\ bytes[14] = Field(4, c.payload)
            /\ bytes[18] = Field(8, c.capacity) /\ bytes[26] = Field(8, c.window)
            /\ bytes[34] = Field(8, c.interval) /\ bytes[42] = Field(16, id)
            /\ bytes[58] = Field(1, c.recover)
BY DEF SerializeMetadata, MetaOffsets

\* A field that is where it was put reads as what was put there.
LEMMA FieldIsRead ==
  ASSUME NEW bytes, NEW o \in DOMAIN bytes, NEW w, NEW v, bytes[o] = Field(w, v)
  PROVE  ReadAt(bytes, o, w) = v
BY DEF ReadAt, Field

\* What Create writes Open reads: every field, and the uuid.
LEMMA MetadataRoundTrip ==
  ASSUME NEW c, IsConfig(c), NEW base, IsConfig(base), base.abi = c.abi, NEW id
  PROVE  /\ DeserializeMetadata(SerializeMetadata(c, id), base) = c
         /\ UuidIn(SerializeMetadata(c, id)) = id
<1>1. PICK bytes : bytes = SerializeMetadata(c, id)
  OBVIOUS
<1>2. /\ ReadAt(bytes, 8, 4) = c.dim /\ ReadAt(bytes, 12, 1) = c.dtype
      /\ ReadAt(bytes, 13, 1) = c.metric /\ ReadAt(bytes, 14, 4) = c.payload
      /\ ReadAt(bytes, 18, 8) = c.capacity /\ ReadAt(bytes, 26, 8) = c.window
      /\ ReadAt(bytes, 34, 8) = c.interval /\ ReadAt(bytes, 42, 16) = id
      /\ ReadAt(bytes, 58, 1) = c.recover
  BY <1>1, MetadataFields, FieldIsRead
<1>3. PICK d : d = DeserializeMetadata(bytes, base)
  OBVIOUS
<1>4. IsConfig(d) /\ d.abi = c.abi
  BY <1>3, DeserializedIsConfig
<1>5. /\ d.dim = c.dim /\ d.dtype = c.dtype /\ d.metric = c.metric
      /\ d.payload = c.payload /\ d.capacity = c.capacity /\ d.window = c.window
      /\ d.interval = c.interval /\ d.recover = c.recover
  BY <1>2, <1>3 DEF DeserializeMetadata, IsConfig, Fields
<1>6. d = c
  BY <1>4, <1>5, SameFields
<1> QED
  BY <1>1, <1>2, <1>3, <1>6 DEF UuidIn

-----------------------------------------------------------------------------
(* Engines on one path *)

\* The inductive invariant. An engine is what validate_and_default let through,
\* or has another window; and until one had to guess, what is on disk is what the
\* last Create was given, and the running engine has that but for its window.
PathInv ==
    /\ starts \in Nat /\ misled \in BOOLEAN
    /\ running => Usable(cfg)
    /\ ~misled =>
        /\ HasMetadata => Accepted(given) /\ \E id : Metadata = SerializeMetadata(given, id)
        /\ running => /\ HasMetadata
                      /\ Metadata = SerializeMetadata(given, uuid)
                      /\ cfg = [given EXCEPT !.window = cfg.window]

\* On an empty path nothing runs and there is no metadata.
LEMMA PathInit == Init => PathInv
<1> SUFFICES ASSUME Init PROVE PathInv
  OBVIOUS
<1>1. DOMAIN kv = {}
  BY DEF Init
<1>2. ~HasMetadata
  BY <1>1 DEF HasMetadata, Keys
<1>3. starts \in Nat /\ misled \in BOOLEAN /\ ~running
  BY DEF Init
<1> QED
  BY <1>2, <1>3 DEF PathInv

\* What Create is asked for has all fields.
LEMMA RequestIsConfig == \A request \in Requests : IsConfig(request)
BY RequestsAssumption DEF Configs, IsConfig, Fields

\* validate_and_default accepts one abi_version only.
LEMMA AcceptedAbi == \A c : Accepted(c) => c.abi = AbiVersion
BY DEF Accepted, Validate, Defaulted

\* Metadata that no engine misread gives back what it was made of.
LEMMA MetadataGivesBack ==
  ASSUME NEW c, Accepted(c), NEW id, NEW n
  PROVE  /\ DeserializeMetadata(SerializeMetadata(c, id), PlainConfig(n)) = c
         /\ UuidIn(SerializeMetadata(c, id)) = id
<1>1. IsConfig(c) /\ c.abi = AbiVersion
  BY AcceptedAbi DEF Accepted
<1>2. IsConfig(PlainConfig(n)) /\ PlainConfig(n).abi = AbiVersion
  BY PlainIsConfig DEF PlainConfig
<1> QED
  BY <1>1, <1>2, MetadataRoundTrip

\* No Create, Open, Close, block, drop or damage breaks PathInv.
LEMMA PathStep == PathInv /\ [Next]_vars => PathInv'
<1> SUFFICES ASSUME PathInv, [Next]_vars PROVE PathInv'
  OBVIOUS
<1>1. /\ starts \in Nat /\ misled \in BOOLEAN
      /\ running => Usable(cfg)
      /\ ~misled =>
          /\ HasMetadata => Accepted(given) /\ \E id : Metadata = SerializeMetadata(given, id)
          /\ running => /\ HasMetadata
                        /\ Metadata = SerializeMetadata(given, uuid)
                        /\ cfg = [given EXCEPT !.window = cfg.window]
  BY DEF PathInv
<1>2. ASSUME NEW request \in Requests, NEW id, Create(request, id) PROVE PathInv'
  <2>1. /\ Accepted(cfg') /\ given' = cfg'
        /\ running' /\ starts' \in Nat /\ misled' \in BOOLEAN
    BY <1>1, <1>2, RequestIsConfig, RequestsAreAccepted DEF Create, CanCreate
  <2>2. HasMetadata' /\ Metadata' = SerializeMetadata(cfg', uuid')
    <3>1. kv' = Put(kv, MetadataKey, SerializeMetadata(cfg', uuid'))
      BY <1>2 DEF Create
    <3> QED
      BY <3>1 DEF Put, HasMetadata, Metadata, Keys
  <2>3. Usable(cfg') /\ cfg' = [given' EXCEPT !.window = cfg'.window]
    BY <2>1, AcceptedIsUsable DEF Accepted, IsConfig, Fields
  <2> QED
    BY <2>1, <2>2, <2>3 DEF PathInv
<1>3. CASE Open
  <2>1. /\ running' /\ starts' \in Nat /\ misled' \in BOOLEAN /\ UNCHANGED <<kv, given>>
        /\ cfg' = Defaulted(FoundConfig)
    BY <1>1, <1>3 DEF Open
  <2>2. IsConfig(FoundConfig) /\ Validate(FoundConfig) = "OK"
    BY <1>3, PlainIsConfig, DeserializedIsConfig DEF Open, CanOpen, FoundConfig
  <2>3. Usable(cfg')
    BY <2>1, <2>2, RequestsAreAccepted, AcceptedIsUsable
  <2>4. ASSUME ~misled'
        PROVE  /\ HasMetadata' /\ Accepted(given') /\ Metadata' = SerializeMetadata(given', uuid')
               /\ cfg' = [given' EXCEPT !.window = cfg'.window]
    <3>1. ~misled /\ HasMetadata /\ HasMetadata' /\ Metadata' = Metadata
      BY <1>3, <2>1, <2>4 DEF Open, HasMetadata, Keys, Metadata
    <3>2. PICK id : Accepted(given) /\ Metadata = SerializeMetadata(given, id)
      BY <1>1, <3>1
    <3>3. FoundConfig = given /\ uuid' = id
      BY <1>3, <3>1, <3>2, MetadataGivesBack DEF Open, FoundConfig
    <3>4. cfg' = given
      BY <2>1, <3>2, <3>3 DEF Accepted
    <3>5. given = [given EXCEPT !.window = given.window]
      BY <3>2 DEF Accepted, IsConfig, Fields
    <3> QED
      BY <2>1, <3>1, <3>2, <3>3, <3>4, <3>5
  <2> QED
    BY <2>1, <2>3, <2>4 DEF PathInv
<1>4. CASE Close
  BY <1>1, <1>4 DEF Close, PathInv, HasMetadata, Keys, Metadata
<1>5. ASSUME UNCHANGED <<running, cfg, uuid, given, starts, misled>>,
             MetadataKey \in DOMAIN kv' <=> MetadataKey \in DOMAIN kv,
             MetadataKey \in DOMAIN kv => kv'[MetadataKey] = kv[MetadataKey]
      PROVE  PathInv'
  BY <1>1, <1>5 DEF PathInv, HasMetadata, Keys, Metadata
<1>6. ASSUME NEW s \in Callers, NEW n \in BlockCounts, StoreBlock(s, n) PROVE PathInv'
  <2>1. MetadataKey # EncodeKey(s, NextId(s))
    BY <1>6, CallersAssumption, MetadataIsNoBlock DEF StoreBlock
  <2> QED
    <3>1. PICK key, v : key # MetadataKey /\ kv' = Put(kv, key, v)
      BY <1>6, <2>1 DEF StoreBlock
    <3>2. /\ MetadataKey \in DOMAIN kv' <=> MetadataKey \in DOMAIN kv
          /\ MetadataKey \in DOMAIN kv => kv'[MetadataKey] = kv[MetadataKey]
      BY <3>1 DEF Put
    <3> QED
      BY <1>5, <1>6, <3>2 DEF StoreBlock
<1>7. ASSUME NEW s \in Callers, DropSensor(s) PROVE PathInv'
  <2>1. ~InRange(s, MetadataKey)
    BY CallersAssumption, MetadataNotInRange
  <2>2. kv' = [key \in {k \in DOMAIN kv : ~InRange(s, k)} |-> kv[key]]
    BY <1>7 DEF DropSensor, RestrictDomain, Restrict
  <2>3. /\ MetadataKey \in DOMAIN kv' <=> MetadataKey \in DOMAIN kv
        /\ MetadataKey \in DOMAIN kv => kv'[MetadataKey] = kv[MetadataKey]
    BY <2>1, <2>2
  <2> QED
    BY <1>5, <1>7, <2>3 DEF DropSensor
<1>8. ASSUME NEW key \in Keys, Damage(key) PROVE PathInv'
  <2>1. PICK bytes : kv' = [kv EXCEPT ![key] = bytes]
    BY <1>8 DEF Damage
  <2>2. /\ UNCHANGED <<running, cfg, uuid, given, starts>>
        /\ misled' = (misled \/ key = MetadataKey)
    BY <1>8 DEF Damage, engineVars
  <2>3. CASE key = MetadataKey
    BY <1>1, <2>2, <2>3 DEF PathInv
  <2>4. CASE key # MetadataKey
    BY <1>1, <1>5, <2>1, <2>2, <2>4
  <2> QED
    BY <2>3, <2>4
<1>9. CASE UNCHANGED vars
  BY <1>5, <1>9 DEF vars, engineVars
<1>10. ASSUME NEW window \in Windows, MaintainSlidingWindow(window) PROVE PathInv'
  <2>1. /\ running /\ window \in Int /\ window >= 0
        /\ cfg' = [cfg EXCEPT !.window = window]
        /\ UNCHANGED <<kv, running, uuid, given, starts, misled>>
    BY <1>10, WindowsAssumption DEF MaintainSlidingWindow
  <2>2. Usable(cfg')
    BY <1>1, <2>1, WindowsAreUsable
  <2>3. ASSUME ~misled PROVE cfg' = [given' EXCEPT !.window = cfg'.window]
    <3>1. IsConfig(given) /\ cfg = [given EXCEPT !.window = cfg.window]
      BY <1>1, <2>1, <2>3 DEF Accepted
    <3>2. cfg' = [given EXCEPT !.window = window] /\ cfg'.window = window
      BY <2>1, <3>1 DEF IsConfig, Fields
    <3> QED
      BY <2>1, <3>2
  <2> QED
    BY <1>1, <2>1, <2>2, <2>3 DEF PathInv, HasMetadata, Keys, Metadata
<1> QED
  BY <1>2, <1>3, <1>4, <1>6, <1>7, <1>8, <1>9, <1>10 DEF Next, Call

-----------------------------------------------------------------------------
(* What the variables are *)

Names == {c \in Callers : ValidName(c)}
BlockIds == 0 .. MaxBlockId

\* What is read out of the metadata is a number, whatever was damaged, but for
\* the window and the interval, which are signed.
NumbersIn(bytes) ==
    \A o \in DOMAIN bytes \ {26, 34} : "value" \in DOMAIN bytes[o] => bytes[o].value \in Nat

Schemas == [dim : Nat, dtype : {0, 1}, metric : {0, 1}, payload : Nat, capacity : Nat]

\* The inductive invariant under TypeOK.
TypeInv ==
    /\ TypeOK
    /\ DOMAIN next \subseteq Names
    /\ HasMetadata => NumbersIn(Metadata)

\* A name is a valid C string.
LEMMA NamesAre == Names \subseteq CStrings /\ \A s \in Names : s \in Callers /\ ValidName(s)
BY CallersAssumption DEF Names

\* Every id up to the bound fits into a key.
LEMMA BlockIdsAre ==
  /\ BlockIds \subseteq Ids /\ BlockIds \subseteq Nat /\ MaxBlockId \in Nat
  /\ \A id \in BlockIds : id <= MaxBlockId
<1>1. MaxBlockId \in Ids /\ MaxBlockId \in Nat
  BY PathBoundsAssumption DEF Ids
<1> QED
  BY <1>1, IdsBelow DEF BlockIds

\* The store is one of Names and BlockIds.
LEMMA StoreIs == TypeOK => IsStore(Keys, Names, BlockIds)
BY NamesAre, BlockIdsAre DEF TypeOK, IsStore, KeysFor, BlockKeys, Names, BlockIds

\* Any number read where no window and no interval is.
LEMMA NumberRead ==
  ASSUME NEW bytes, NumbersIn(bytes), NEW o, o \notin {26, 34}, NEW width
  PROVE  ReadAt(bytes, o, width) \in Nat
BY JunkAssumption DEF NumbersIn, ReadAt

\* What validate_and_default accepts has a schema, if its fields are numbers.
LEMMA AcceptedSchema ==
  ASSUME NEW c, IsConfig(c), Validate(c) = "OK",
         c.dim \in Nat, c.dtype \in Nat, c.metric \in Nat, c.payload \in Nat, c.capacity \in Nat
  PROVE  SchemaOf(Defaulted(c)) \in Schemas
<1>1. c.dtype \in {0, 1} /\ c.metric \in {0, 1}
  BY DEF Validate, LastMetric
<1>2. Defaulted(c).capacity \in Nat
  BY DefaultedIs DEF IfZero, DefaultRingCapacity
<1> QED
  BY <1>1, <1>2, DefaultedIs DEF SchemaOf, Schemas

\* Numbers are written as numbers.
LEMMA NumbersWritten ==
  ASSUME NEW c, NEW id \in Nat, c.dim \in Nat, c.dtype \in Nat, c.metric \in Nat,
         c.payload \in Nat, c.capacity \in Nat, c.recover \in Nat
  PROVE  NumbersIn(SerializeMetadata(c, id))
BY DEF NumbersIn, SerializeMetadata, MetaOffsets, Field, MetaMagic, MetaVersion

\* Damage leaves numbers.
LEMMA NumbersDamaged ==
  ASSUME NEW bytes, NumbersIn(bytes), NEW worse \in Damaged(bytes)
  PROVE  NumbersIn(worse)
<1>1. CASE worse = FirstBytes(bytes, Max(DOMAIN bytes))
  BY <1>1 DEF NumbersIn, FirstBytes, RestrictDomain, Restrict
<1>2. CASE worse = Joined(bytes, [o \in {Size(bytes)} |-> Field(4, 0)])
  BY <1>2 DEF NumbersIn, Joined, Field
<1>3. ASSUME NEW o \in DOMAIN bytes, NEW f \in DamagedFields(bytes[o]),
             worse = [bytes EXCEPT ![o] = f]
      PROVE  NumbersIn(worse)
  <2>1. "value" \in DOMAIN f => f.value \in Nat
    BY BlockCountsAssumption DEF DamagedFields, CrcField, Field
  <2> QED
    BY <1>3, <2>1 DEF NumbersIn
<1> QED
  BY <1>1, <1>2, <1>3 DEF Damaged

\* An empty path.
LEMMA TypeInit == Init => TypeInv
<1> SUFFICES ASSUME Init PROVE TypeInv
  OBVIOUS
<1>1. Keys = {} /\ DOMAIN next = {} /\ ~HasMetadata
  BY DEF Init, Keys, HasMetadata
<1>2. SchemaOf(cfg) \in Schemas /\ SchemaOf(given) \in Schemas
  BY DEF Init, NoConfig, PlainConfig, SchemaOf, Schemas
<1>3. 0 \in 0 .. MaxStarts /\ 0 \in 0 .. MaxDamages
  BY PathBoundsAssumption
<1> QED
  BY <1>1, <1>2, <1>3 DEF Init, TypeInv, TypeOK, Schemas

\* The id Open goes on with is within the bound.
LEMMA SeededIds ==
  ASSUME TypeOK, NEW s \in Names
  PROVE  SeededId(s) \in 0 .. MaxBlockId + 1
<1>1. IsStore(Keys, Names, BlockIds) /\ s \in CStrings /\ ValidName(s)
  BY StoreIs, NamesAre
<1>2. ListBlocks(Keys, s) \subseteq BlockIds
  BY <1>1, ListBlocksIs
<1>3. ListBlocks(Keys, s) # {} => LastListed(Keys, s) \in BlockIds
  BY <1>1, <1>2, BlockIdsAre, LastListedIsGreatest
<1> QED
  BY <1>3, BlockIdsAre DEF SeededId, BlockIds

\* No Create, Open, Close, block, drop or damage breaks TypeInv.
LEMMA TypeStep == TypeInv /\ [Next]_vars => TypeInv'
<1> SUFFICES ASSUME TypeInv, [Next]_vars PROVE TypeInv'
  OBVIOUS
<1>1. /\ Keys \subseteq BlockKeys \cup {MetadataKey}
      /\ running \in BOOLEAN /\ uuid \in Nat
      /\ SchemaOf(cfg) \in Schemas /\ SchemaOf(given) \in Schemas
      /\ \A s \in DOMAIN next : ValidName(s) /\ next[s] \in 0 .. MaxBlockId + 1
      /\ starts \in 0 .. MaxStarts /\ damages \in 0 .. MaxDamages /\ misled \in BOOLEAN
      /\ DOMAIN next \subseteq Names
      /\ HasMetadata => NumbersIn(Metadata)
  BY DEF TypeInv, TypeOK, Schemas
<1>2. MaxStarts \in Nat /\ MaxDamages \in Nat
  BY PathBoundsAssumption
<1>3. HasMetadata => UuidIn(Metadata) \in Nat
  BY <1>1, NumberRead DEF UuidIn
<1>4. ASSUME NEW request \in Requests, NEW id \in {FreshUuid} \cup GivenUuids, Create(request, id)
      PROVE  TypeInv'
  <2>1. /\ IsConfig(request) /\ Validate(request) = "OK"
        /\ request.dim \in Nat /\ request.dtype \in Nat /\ request.metric \in Nat
        /\ request.payload \in Nat /\ request.capacity \in Nat /\ request.recover \in Nat
    <3>1. request \in Configs
      BY RequestsAssumption
    <3> QED
      BY <3>1, <1>4, RequestIsConfig DEF Configs, Create, CanCreate
  <2>2. cfg' = Defaulted(request) /\ given' = cfg' /\ SchemaOf(cfg') \in Schemas
    BY <2>1, <1>4, AcceptedSchema DEF Create
  <2>3. uuid' \in Nat /\ starts' \in 0 .. MaxStarts
    BY <1>1, <1>2, <1>3, <1>4, RequestsAssumption DEF Create, FreshUuid
  <2>4. kv' = Put(kv, MetadataKey, SerializeMetadata(cfg', uuid'))
    BY <1>4 DEF Create
  <2>5. /\ HasMetadata' /\ Metadata' = SerializeMetadata(cfg', uuid')
        /\ Keys' \subseteq BlockKeys \cup {MetadataKey}
    BY <1>1, <2>4 DEF Put, HasMetadata, Metadata, Keys
  <2>6. NumbersIn(Metadata')
    <3>1. Defaulted(request).recover = request.recover
      BY <2>1, DefaultedIs
    <3> QED
      BY <2>1, <2>2, <2>3, <2>5, <3>1, NumbersWritten DEF Schemas, SchemaOf
  <2>7. running' = TRUE /\ next' = <<>> /\ UNCHANGED <<damages, misled>>
    BY <1>4 DEF Create
  <2> QED
    BY <1>1, <2>2, <2>3, <2>5, <2>6, <2>7 DEF TypeInv, TypeOK, Schemas
<1>5. CASE Open
  <2>1. IsConfig(FoundConfig) /\ Validate(FoundConfig) = "OK"
    BY <1>5, PlainIsConfig, DeserializedIsConfig DEF Open, CanOpen, FoundConfig
  <2>2. /\ FoundConfig.dim \in Nat /\ FoundConfig.dtype \in Nat /\ FoundConfig.metric \in Nat
        /\ FoundConfig.payload \in Nat /\ FoundConfig.capacity \in Nat
    <3>1. CASE HasMetadata
      <4>1. PICK d : d = PlainConfig(DefaultDim) /\ IsConfig(d)
        BY PlainIsConfig
      <4>2. PICK bytes : bytes = Metadata /\ NumbersIn(bytes)
        BY <1>1, <3>1
      <4>3. /\ ReadAt(bytes, 8, 4) \in Nat /\ ReadAt(bytes, 12, 1) \in Nat
            /\ ReadAt(bytes, 13, 1) \in Nat /\ ReadAt(bytes, 14, 4) \in Nat
            /\ ReadAt(bytes, 18, 8) \in Nat
        BY <4>2, NumberRead
      <4>4. FoundConfig = DeserializeMetadata(bytes, d)
        BY <3>1, <4>1, <4>2 DEF FoundConfig
      <4> QED
        BY <4>1, <4>3, <4>4 DEF DeserializeMetadata, IsConfig, Fields
    <3>2. CASE ~HasMetadata
      BY <3>2 DEF FoundConfig, PlainConfig, DefaultDim
    <3> QED
      BY <3>1, <3>2
  <2>3. cfg' = Defaulted(FoundConfig) /\ SchemaOf(cfg') \in Schemas
    BY <2>1, <2>2, <1>5, AcceptedSchema DEF Open
  <2>4. uuid' \in Nat /\ starts' \in 0 .. MaxStarts
    BY <1>1, <1>2, <1>3, <1>5 DEF Open, FreshUuid
  <2>5. ListSensors(Keys) \subseteq Names
    BY StoreIs, ListSensorsIs DEF TypeInv
  <2>6. \A s \in DOMAIN next' : s \in Names /\ ValidName(s) /\ next'[s] \in 0 .. MaxBlockId + 1
    BY <1>5, <2>5, SeededIds, NamesAre DEF Open, TypeInv
  <2>7. running' = TRUE /\ misled' \in BOOLEAN /\ UNCHANGED <<kv, given, damages>>
    BY <1>1, <1>5 DEF Open
  <2> QED
    BY <1>1, <2>3, <2>4, <2>6, <2>7 DEF TypeInv, TypeOK, Schemas, Keys, HasMetadata, Metadata
<1>6. CASE Close
  <2>1. SchemaOf(cfg') \in Schemas
    BY <1>6 DEF Close, NoConfig, PlainConfig, SchemaOf, Schemas
  <2>2. /\ DOMAIN next' = {} /\ uuid' = 0 /\ running' = FALSE
        /\ UNCHANGED <<kv, given, starts, damages, misled>>
    BY <1>6 DEF Close
  <2>3. /\ Keys' \subseteq BlockKeys \cup {MetadataKey}
        /\ HasMetadata' => NumbersIn(Metadata')
    BY <1>1, <2>2 DEF Keys, HasMetadata, Metadata
  <2> QED
    BY <1>1, <2>1, <2>2, <2>3 DEF TypeInv, TypeOK, Schemas
<1>7. ASSUME UNCHANGED <<running, cfg, uuid, given, starts, misled>>,
             damages' \in 0 .. MaxDamages,
             Keys' \subseteq BlockKeys \cup {MetadataKey},
             \A s \in DOMAIN next' : s \in Names /\ next'[s] \in 0 .. MaxBlockId + 1,
             HasMetadata' => NumbersIn(Metadata')
      PROVE  TypeInv'
  BY <1>1, <1>7, NamesAre DEF TypeInv, TypeOK, Schemas
<1>8. ASSUME NEW s \in Callers, NEW n \in BlockCounts, StoreBlock(s, n) PROVE TypeInv'
  <2>1. s \in Names /\ NextId(s) \in BlockIds /\ NextId(s) + 1 \in 0 .. MaxBlockId + 1
    <3>1. NextId(s) \in 0 .. MaxBlockId + 1
      BY <1>1, BlockIdsAre DEF NextId
    <3> QED
      BY <3>1, <1>8, BlockIdsAre DEF StoreBlock, Names, BlockIds
  <2>2. EncodeKey(s, NextId(s)) \in BlockKeys /\ EncodeKey(s, NextId(s)) # MetadataKey
    BY <2>1, NamesAre, MetadataIsNoBlock DEF BlockKeys, Names, BlockIds
  <2>3. PICK key, bytes : key \in BlockKeys /\ key # MetadataKey /\ kv' = Put(kv, key, bytes)
    BY <1>8, <2>2 DEF StoreBlock
  <2>4. /\ Keys' \subseteq BlockKeys \cup {MetadataKey}
        /\ HasMetadata' => HasMetadata /\ Metadata' = Metadata
    BY <1>1, <2>3 DEF Put, Keys, HasMetadata, Metadata
  <2>5. \A r \in DOMAIN next' : r \in Names /\ next'[r] \in 0 .. MaxBlockId + 1
    <3>1. next' = Put(next, s, NextId(s) + 1)
      BY <1>8 DEF StoreBlock
    <3> QED
      BY <1>1, <2>1, <3>1 DEF Put
  <2> QED
    BY <1>1, <1>7, <1>8, <2>4, <2>5 DEF StoreBlock
<1>9. ASSUME NEW s \in Callers, DropSensor(s) PROVE TypeInv'
  <2>1. /\ kv' = [key \in {k \in DOMAIN kv : ~InRange(s, k)} |-> kv[key]]
        /\ next' = [r \in {q \in DOMAIN next : q # s} |-> next[r]]
    BY <1>9 DEF DropSensor, RestrictDomain, Restrict
  <2>2. /\ Keys' \subseteq BlockKeys \cup {MetadataKey}
        /\ HasMetadata' => HasMetadata /\ Metadata' = Metadata
    BY <1>1, <2>1 DEF Keys, HasMetadata, Metadata
  <2>3. \A r \in DOMAIN next' : r \in Names /\ next'[r] \in 0 .. MaxBlockId + 1
    BY <1>1, <2>1
  <2> QED
    BY <1>1, <1>7, <1>9, <2>2, <2>3 DEF DropSensor
<1>10. ASSUME NEW key \in Keys, Damage(key) PROVE TypeInv'
  <2>1. PICK bytes \in Damaged(kv[key]) : kv' = [kv EXCEPT ![key] = bytes]
    BY <1>10 DEF Damage
  <2>2. /\ UNCHANGED <<running, cfg, uuid, next, given, starts>>
        /\ misled' = (misled \/ key = MetadataKey) /\ damages' \in 0 .. MaxDamages
    BY <1>1, <1>2, <1>10 DEF Damage, engineVars
  <2>3. Keys' = Keys /\ misled' \in BOOLEAN
    BY <1>1, <2>1, <2>2 DEF Keys
  <2>4. HasMetadata' => NumbersIn(Metadata')
    <3>1. CASE key = MetadataKey
      <4>1. HasMetadata /\ Metadata' = bytes /\ bytes \in Damaged(Metadata)
        BY <3>1, <2>1 DEF Keys, HasMetadata, Metadata
      <4> QED
        BY <4>1, <1>1, NumbersDamaged
    <3>2. CASE key # MetadataKey
      BY <1>1, <2>1, <3>2 DEF Keys, HasMetadata, Metadata
    <3> QED
      BY <3>1, <3>2
  <2> QED
    BY <1>1, <2>2, <2>3, <2>4 DEF TypeInv, TypeOK, Schemas
<1>11. CASE UNCHANGED vars
  BY <1>1, <1>7, <1>11 DEF vars, engineVars, Keys, HasMetadata, Metadata
<1>12. ASSUME NEW window \in Windows, MaintainSlidingWindow(window) PROVE TypeInv'
  <2>1. /\ cfg' = [cfg EXCEPT !.window = window]
        /\ UNCHANGED <<kv, running, uuid, next, given, starts, damages, misled>>
    BY <1>12 DEF MaintainSlidingWindow
  <2>2. SchemaOf(cfg') = SchemaOf(cfg)
    BY <2>1 DEF SchemaOf
  <2> QED
    BY <1>1, <2>1, <2>2 DEF TypeInv, TypeOK, Schemas, Keys, HasMetadata, Metadata
<1> QED
  BY <1>4, <1>5, <1>6, <1>8, <1>9, <1>10, <1>11, <1>12 DEF Next, Call

-----------------------------------------------------------------------------
(* Stored bytes *)

\* Offsets and widths are numbers, and no field ends after some place.
EndBy(bytes, end) ==
    \A o \in DOMAIN bytes : o \in Nat /\ bytes[o].width \in Nat /\ o + bytes[o].width <= end
LaidOut(bytes) == \E end \in Nat : EndBy(bytes, end)

\* No field ends after the end.
LEMMA SizeIs ==
  ASSUME NEW bytes, LaidOut(bytes)
  PROVE  /\ Size(bytes) \in Nat
         /\ \A o \in DOMAIN bytes : o + bytes[o].width <= Size(bytes)
         /\ \A end \in Nat : EndBy(bytes, end) => Size(bytes) <= end
<1> DEFINE ends == {0} \cup {o + bytes[o].width : o \in DOMAIN bytes}
<1>1. PICK end \in Nat : EndBy(bytes, end)
  BY DEF LaidOut
<1>2. ends \subseteq Nat /\ ends # {}
  BY <1>1 DEF EndBy
<1>3. ASSUME NEW e \in Nat, EndBy(bytes, e) PROVE \A n \in ends : n <= e
  BY <1>3 DEF EndBy
<1>4. Size(bytes) = Max(ends)
  BY DEF Size
<1> HIDE DEF ends
<1>5. Size(bytes) \in ends /\ \A n \in ends : n <= Size(bytes)
  BY <1>1, <1>2, <1>3, <1>4, MaxIs
<1> QED
  BY <1>2, <1>3, <1>5 DEF ends

\* Rows one after the other.
LEMMA RowPlaces ==
  ASSUME NEW w \in Nat \ {0}, NEW n \in Nat, NEW k \in 1 .. n
  PROVE  /\ (k - 1) * w \in Nat
         /\ (k - 1) * w + w <= n * w
         /\ ((k - 1) * w) \div w = k - 1
<1>1. (k - 1) * w \in Nat
  OBVIOUS
<1>2. (k - 1) * w + w = k * w
  OBVIOUS
<1>3. k * w <= n * w
  OBVIOUS
<1>4. ((k - 1) * w) \div w = k - 1
  OBVIOUS
<1> QED
  BY <1>1, <1>2, <1>3, <1>4

\* Fields between two places, none of them a checksum.
Within(bytes, from, to) ==
    /\ from \in Nat /\ to \in Nat /\ from <= to
    /\ \A o \in DOMAIN bytes :
        /\ o \in Nat /\ o >= from
        /\ bytes[o].width \in Nat \ {0} /\ o + bytes[o].width <= to
        /\ "over" \notin DOMAIN bytes[o]

HoldsAt(bytes, o, w, value) == o \in DOMAIN bytes /\ bytes[o] = Field(w, value)

\* What follows does not cover what is there.
LEMMA JoinedIs ==
  ASSUME NEW f, NEW g, NEW from, NEW mid, NEW to, Within(f, from, mid), Within(g, mid, to),
         NEW h, h = Joined(f, g)
  PROVE  /\ Within(h, from, to)
         /\ \A o, w, v : HoldsAt(f, o, w, v) \/ HoldsAt(g, o, w, v) => HoldsAt(h, o, w, v)
<1>1. /\ DOMAIN h = DOMAIN f \cup DOMAIN g
      /\ \A o \in DOMAIN f : h[o] = f[o]
      /\ \A o \in DOMAIN g \ DOMAIN f : h[o] = g[o]
  BY DEF Joined
<1>2. DOMAIN f \cap DOMAIN g = {}
  BY DEF Within
<1>3. Within(h, from, to)
  BY <1>1, <1>2 DEF Within
<1> QED
  BY <1>1, <1>2, <1>3 DEF HoldsAt

\* The rows of a section are where they are read; it may have none.
LEMMA SectionIs ==
  ASSUME NEW at \in Nat, NEW w \in Nat, NEW n \in Nat, NEW values,
         IF w = 0 THEN values = <<>> ELSE DOMAIN values = 1 .. n,
         NEW section, section = Section(at, w, values), NEW to, to = at + n * w
  PROVE  /\ Within(section, at, to)
         /\ w # 0 => \A k \in 1 .. n : HoldsAt(section, at + (k - 1) * w, w, values[k])
<1>1. CASE w = 0
  <2>1. DOMAIN section = {}
    BY <1>1 DEF Section
  <2> QED
    BY <1>1, <2>1 DEF Within
<1>2. CASE w # 0
  <2> DEFINE place(k) == at + (k - 1) * w
  <2>1. ASSUME NEW k \in 1 .. n
        PROVE  /\ place(k) \in Nat /\ place(k) >= at /\ place(k) + w <= at + n * w
               /\ (place(k) - at) \div w + 1 = k
    BY <1>2, RowPlaces
  <2>2. DOMAIN section = {place(k) : k \in 1 .. n}
    BY <1>2 DEF Section
  <2>3. \A o \in DOMAIN section : section[o] = Field(w, values[(o - at) \div w + 1])
    BY DEF Section
  <2>4. ASSUME NEW k \in 1 .. n
        PROVE  place(k) \in DOMAIN section /\ section[place(k)] = Field(w, values[k])
    BY <2>1, <2>2, <2>3
  <2>5. ASSUME NEW o \in DOMAIN section
        PROVE  /\ o \in Nat /\ o >= at /\ o + w <= at + n * w
               /\ section[o].width = w /\ "over" \notin DOMAIN section[o]
    <3>1. PICK k \in 1 .. n : o = place(k)
      BY <2>2
    <3>2. place(k) \in Nat /\ place(k) >= at /\ place(k) + w <= at + n * w
      BY <2>1
    <3>3. section[o].width = w /\ "over" \notin DOMAIN section[o]
      BY <2>3 DEF Field
    <3> HIDE DEF place
    <3> QED
      BY <3>1, <3>2, <3>3
  <2>6. at + n * w \in Nat /\ at <= at + n * w
    OBVIOUS
  <2>7. Within(section, at, to)
    BY <1>2, <2>5, <2>6 DEF Within
  <2> QED
    BY <2>4, <2>7 DEF HoldsAt
<1> QED
  BY <1>1, <1>2

BlockFields == {"dim", "count", "dtype", "payloadSize", "tStart", "tEnd",
                "timestamps", "vectors", "scales", "payloads"}
Rows(values, n) == values = [k \in 1 .. n |-> values[k]]

\* A block serialize_block is given.
IsBlock(b) ==
    /\ b = [f \in BlockFields |-> b[f]]
    /\ b.dim \in Nat \ {0} /\ b.count \in Nat \ {0} /\ b.payloadSize \in Nat
    /\ b.dtype \in {Float32, Int8}
    /\ Rows(b.timestamps, b.count) /\ Rows(b.vectors, b.count)
    /\ IF b.dtype = Int8 THEN Rows(b.scales, b.count) ELSE b.scales = <<>>
    /\ IF b.payloadSize > 0 THEN Rows(b.payloads, b.count) ELSE b.payloads = <<>>

RowSize(b) == b.dim * SizeOfType(b.dtype)
ScaleSize(b) == IF b.dtype = Int8 THEN 4 ELSE 0
BodySize(b) == SerializedSize(b.count, b.dim, b.payloadSize, b.dtype) - CrcSize

\* The sections follow one another without a gap, up to the checksum.
LEMMA LayoutIs ==
  ASSUME NEW b, IsBlock(b)
  PROVE  /\ RowSize(b) \in Nat \ {0} /\ ScaleSize(b) \in Nat
         /\ VectorsAt(b) = HeaderSize + b.count * 8 /\ VectorsAt(b) \in Nat
         /\ ScalesAt(b) = VectorsAt(b) + b.count * RowSize(b) /\ ScalesAt(b) \in Nat
         /\ PayloadsAt(b) = ScalesAt(b) + b.count * ScaleSize(b) /\ PayloadsAt(b) \in Nat
         /\ BodySize(b) = PayloadsAt(b) + b.count * b.payloadSize /\ BodySize(b) \in Nat
         /\ BodySize(b) >= HeaderSize
<1>1. PICK d \in Nat \ {0} : d = b.dim
  BY DEF IsBlock
<1>2. PICK n \in Nat \ {0} : n = b.count
  BY DEF IsBlock
<1>3. PICK p \in Nat : p = b.payloadSize
  BY DEF IsBlock
<1>4. PICK z \in {1, 4} : z = SizeOfType(b.dtype)
  BY DEF SizeOfType
<1>5. PICK c \in {0, 4} : c = ScaleSize(b)
  BY DEF ScaleSize
<1>6. RowSize(b) = d * z /\ d * z \in Nat \ {0}
  BY <1>1, <1>4 DEF RowSize
<1>7. PICK ts \in Nat : ts = n * 8
  OBVIOUS
<1>8. PICK vs \in Nat : vs = n * (d * z) /\ vs = n * d * z
  BY <1>6
<1>9. PICK ss \in Nat : ss = n * c
  OBVIOUS
<1>10. PICK ps \in Nat : ps = n * p
  OBVIOUS
<1>11. VectorsAt(b) = 40 + ts
  BY <1>2, <1>7 DEF VectorsAt, HeaderSize
<1>12. ScalesAt(b) = 40 + ts + vs
  BY <1>1, <1>2, <1>4, <1>8, <1>11 DEF ScalesAt
<1>13. PayloadsAt(b) = 40 + ts + vs + ss
  <2>1. (IF b.dtype = Int8 THEN b.count * 4 ELSE 0) = ss
    BY <1>2, <1>5, <1>9 DEF ScaleSize
  <2> QED
    BY <2>1, <1>12 DEF PayloadsAt
<1>14. BodySize(b) = 40 + ts + vs + ss + ps
  <2>1. BodySize(b) = 40 + n * (8 + d * z + c + p) + 4 - 4
    BY <1>1, <1>2, <1>3, <1>4, <1>5 DEF BodySize, SerializedSize, ScaleSize, HeaderSize, CrcSize
  <2>2. n * (8 + d * z + c + p) = ts + vs + ss + ps
    BY <1>6, <1>7, <1>8, <1>9, <1>10
  <2> QED
    BY <2>1, <2>2
<1>15. b.count * 8 = ts /\ b.count * RowSize(b) = vs /\ b.count * ScaleSize(b) = ss /\ b.count * b.payloadSize = ps
  BY <1>2, <1>3, <1>5, <1>6, <1>7, <1>8, <1>9, <1>10
<1> QED
  BY <1>5, <1>6, <1>11, <1>12, <1>13, <1>14, <1>15 DEF HeaderSize

\* The header takes the first forty bytes.
LEMMA HeaderIs ==
  ASSUME NEW b, NEW header, header = Header(b)
  PROVE  /\ Within(header, 0, HeaderSize)
         /\ HoldsAt(header, 0, 4, Magic) /\ HoldsAt(header, 4, 2, Version)
         /\ HoldsAt(header, 6, 2, Flags(b)) /\ HoldsAt(header, 8, 4, b.dim)
         /\ HoldsAt(header, 12, 4, b.count) /\ HoldsAt(header, 16, 8, b.tStart)
         /\ HoldsAt(header, 24, 8, b.tEnd) /\ HoldsAt(header, 32, 4, b.payloadSize)
<1>1. DOMAIN header = HeaderOffsets
  BY DEF Header
<1>2. /\ header[0] = Field(4, Magic) /\ header[4] = Field(2, Version)
      /\ header[6] = Field(2, Flags(b)) /\ header[8] = Field(4, b.dim)
      /\ header[12] = Field(4, b.count) /\ header[16] = Field(8, b.tStart)
      /\ header[24] = Field(8, b.tEnd) /\ header[32] = Field(4, b.payloadSize)
      /\ header[36] = Field(4, 0)
  BY DEF Header, HeaderOffsets
<1>3. \A w, v : Field(w, v).width = w /\ "over" \notin DOMAIN Field(w, v)
  BY DEF Field
<1>4. Within(header, 0, HeaderSize)
  <2>1. ASSUME NEW o \in DOMAIN header
        PROVE  /\ o \in Nat /\ o >= 0
               /\ header[o].width \in Nat \ {0} /\ o + header[o].width <= 40
               /\ "over" \notin DOMAIN header[o]
    BY <1>1, <1>2, <1>3 DEF HeaderOffsets
  <2> QED
    BY <2>1 DEF Within, HeaderSize
<1> QED
  BY <1>1, <1>2, <1>4 DEF HoldsAt, HeaderOffsets

\* Everything a block has is where decode_block looks for it
\* (block_codec.cpp:130-173, 252-283).
LEMMA BodyIs ==
  ASSUME NEW b, IsBlock(b), NEW body, body = Body(b)
  PROVE  /\ Within(body, 0, BodySize(b))
         /\ \E o \in DOMAIN body : o + body[o].width = BodySize(b)
         /\ HoldsAt(body, 0, 4, Magic) /\ HoldsAt(body, 4, 2, Version)
         /\ HoldsAt(body, 6, 2, Flags(b)) /\ HoldsAt(body, 8, 4, b.dim)
         /\ HoldsAt(body, 12, 4, b.count) /\ HoldsAt(body, 16, 8, b.tStart)
         /\ HoldsAt(body, 24, 8, b.tEnd) /\ HoldsAt(body, 32, 4, b.payloadSize)
         /\ \A k \in 1 .. b.count :
             /\ HoldsAt(body, HeaderSize + (k - 1) * 8, 8, b.timestamps[k])
             /\ HoldsAt(body, VectorsAt(b) + (k - 1) * RowSize(b), RowSize(b), b.vectors[k])
             /\ b.dtype = Int8 => HoldsAt(body, ScalesAt(b) + (k - 1) * 4, 4, b.scales[k])
             /\ b.payloadSize > 0 =>
                    HoldsAt(body, PayloadsAt(b) + (k - 1) * b.payloadSize, b.payloadSize, b.payloads[k])
<1>1. PICK n \in Nat \ {0} : n = b.count
  BY DEF IsBlock
<1>2. PICK r \in Nat \ {0} : r = RowSize(b)
  BY LayoutIs
<1>3. PICK c \in {0, 4} : c = ScaleSize(b) /\ (c = 4 <=> b.dtype = Int8)
  BY DEF ScaleSize
<1>4. PICK p \in Nat : p = b.payloadSize
  BY DEF IsBlock
<1>5. PICK va \in Nat : va = VectorsAt(b)
  BY LayoutIs
<1>6. PICK sa \in Nat : sa = ScalesAt(b)
  BY LayoutIs
<1>7. PICK pa \in Nat : pa = PayloadsAt(b)
  BY LayoutIs
<1>8. PICK end \in Nat : end = BodySize(b)
  BY LayoutIs
<1>9. va = 40 + n * 8 /\ sa = va + n * r /\ pa = sa + n * c /\ end = pa + n * p
  BY <1>1, <1>2, <1>3, <1>4, <1>5, <1>6, <1>7, <1>8, LayoutIs DEF HeaderSize
<1>10. /\ DOMAIN b.timestamps = 1 .. n /\ DOMAIN b.vectors = 1 .. n
       /\ IF c = 0 THEN b.scales = <<>> ELSE DOMAIN b.scales = 1 .. n
       /\ IF p = 0 THEN b.payloads = <<>> ELSE DOMAIN b.payloads = 1 .. n
  BY <1>1, <1>3, <1>4 DEF IsBlock, Rows
<1>11. PICK header : header = Header(b)
  OBVIOUS
<1>12. PICK times : times = Section(HeaderSize, 8, b.timestamps)
  OBVIOUS
<1>13. PICK vectors : vectors = Section(VectorsAt(b), b.dim * SizeOfType(b.dtype), b.vectors)
  OBVIOUS
<1>14. PICK scales : scales = Section(ScalesAt(b), 4, b.scales)
  OBVIOUS
<1>15. PICK payloads : payloads = Section(PayloadsAt(b), b.payloadSize, b.payloads)
  OBVIOUS
<1>16. /\ Within(times, 40, va)
       /\ \A k \in 1 .. n : HoldsAt(times, 40 + (k - 1) * 8, 8, b.timestamps[k])
  <2>1. 40 \in Nat /\ 8 \in Nat /\ 8 # 0 /\ (IF 8 = 0 THEN b.timestamps = <<>> ELSE DOMAIN b.timestamps = 1 .. n)
    BY <1>10
  <2>2. times = Section(40, 8, b.timestamps)
    BY <1>12 DEF HeaderSize
  <2> QED
    BY <2>1, <2>2, <1>9, SectionIs
<1>17. /\ Within(vectors, va, sa)
       /\ \A k \in 1 .. n : HoldsAt(vectors, va + (k - 1) * r, r, b.vectors[k])
  BY <1>2, <1>5, <1>9, <1>10, <1>13, SectionIs DEF RowSize
<1>18. /\ Within(scales, sa, pa)
       /\ c = 4 => \A k \in 1 .. n : HoldsAt(scales, sa + (k - 1) * 4, 4, b.scales[k])
  <2>1. CASE c = 4
    <3>1. 4 \in Nat /\ 4 # 0 /\ (IF 4 = 0 THEN b.scales = <<>> ELSE DOMAIN b.scales = 1 .. n)
      BY <2>1, <1>10
    <3>2. scales = Section(sa, 4, b.scales) /\ pa = sa + n * 4
      BY <2>1, <1>6, <1>9, <1>14
    <3> QED
      BY <3>1, <3>2, SectionIs
  <2>2. CASE c = 0
    <3>1. DOMAIN scales = {} /\ pa = sa
      BY <2>2, <1>9, <1>10, <1>14 DEF Section
    <3> QED
      BY <2>2, <3>1 DEF Within
  <2> QED
    BY <2>1, <2>2
<1>19. /\ Within(payloads, pa, end)
       /\ p # 0 => \A k \in 1 .. n : HoldsAt(payloads, pa + (k - 1) * p, p, b.payloads[k])
  BY <1>4, <1>7, <1>9, <1>10, <1>15, SectionIs
<1>20. PICK j1 : j1 = Joined(scales, payloads)
  OBVIOUS
<1>21. PICK j2 : j2 = Joined(vectors, j1)
  OBVIOUS
<1>22. PICK j3 : j3 = Joined(times, j2)
  OBVIOUS
<1>23. body = Joined(header, j3)
  BY <1>11, <1>12, <1>13, <1>14, <1>15, <1>20, <1>21, <1>22 DEF Body
<1>24. /\ Within(j1, sa, end)
       /\ \A o, w, v : HoldsAt(scales, o, w, v) \/ HoldsAt(payloads, o, w, v) => HoldsAt(j1, o, w, v)
  BY <1>18, <1>19, <1>20, JoinedIs
<1>25. /\ Within(j2, va, end)
       /\ \A o, w, v : HoldsAt(vectors, o, w, v) \/ HoldsAt(j1, o, w, v) => HoldsAt(j2, o, w, v)
  BY <1>17, <1>21, <1>24, JoinedIs
<1>26. /\ Within(j3, 40, end)
       /\ \A o, w, v : HoldsAt(times, o, w, v) \/ HoldsAt(j2, o, w, v) => HoldsAt(j3, o, w, v)
  BY <1>16, <1>22, <1>25, JoinedIs
<1>27. /\ Within(body, 0, end)
       /\ \A o, w, v : HoldsAt(header, o, w, v) \/ HoldsAt(j3, o, w, v) => HoldsAt(body, o, w, v)
  BY <1>11, <1>23, <1>26, HeaderIs, JoinedIs DEF HeaderSize
<1>28. \E o \in DOMAIN body : o + body[o].width = end
  <2>1. \A m \in Nat \ {0} : m \in 1 .. n => (m - 1) * r + r = m * r /\ (m - 1) * p + p = m * p
    OBVIOUS
  <2>2. n \in 1 .. n /\ (n - 1) * r + r = n * r /\ (n - 1) * p + p = n * p /\ (n - 1) * 4 + 4 = n * 4
    BY <2>1
  <2>3. \A o, w, v : HoldsAt(body, o, w, v) => o \in DOMAIN body /\ body[o].width = w
    BY DEF HoldsAt, Field
  <2>4. CASE p # 0
    <3>1. HoldsAt(body, pa + (n - 1) * p, p, b.payloads[n])
      BY <2>2, <2>4, <1>19, <1>24, <1>25, <1>26, <1>27
    <3>2. pa + (n - 1) * p + p = end
      BY <2>2, <1>9
    <3> QED
      BY <3>1, <3>2, <2>3
  <2>5. CASE p = 0 /\ c = 4
    <3>1. HoldsAt(body, sa + (n - 1) * 4, 4, b.scales[n])
      BY <2>2, <2>5, <1>18, <1>24, <1>25, <1>26, <1>27
    <3>2. sa + (n - 1) * 4 + 4 = end
      BY <2>2, <2>5, <1>9
    <3> QED
      BY <3>1, <3>2, <2>3
  <2>6. CASE p = 0 /\ c = 0
    <3>1. HoldsAt(body, va + (n - 1) * r, r, b.vectors[n])
      BY <2>2, <1>17, <1>25, <1>26, <1>27
    <3>2. va + (n - 1) * r + r = end
      BY <2>2, <2>6, <1>9
    <3> QED
      BY <3>1, <3>2, <2>3
  <2> QED
    BY <2>4, <2>5, <2>6
<1>29. /\ HoldsAt(body, 0, 4, Magic) /\ HoldsAt(body, 4, 2, Version)
       /\ HoldsAt(body, 6, 2, Flags(b)) /\ HoldsAt(body, 8, 4, b.dim)
       /\ HoldsAt(body, 12, 4, b.count) /\ HoldsAt(body, 16, 8, b.tStart)
       /\ HoldsAt(body, 24, 8, b.tEnd) /\ HoldsAt(body, 32, 4, b.payloadSize)
  BY <1>11, <1>27, HeaderIs
<1>30. ASSUME NEW k \in 1 .. n
       PROVE  /\ HoldsAt(body, 40 + (k - 1) * 8, 8, b.timestamps[k])
              /\ HoldsAt(body, va + (k - 1) * r, r, b.vectors[k])
              /\ c = 4 => HoldsAt(body, sa + (k - 1) * 4, 4, b.scales[k])
              /\ p # 0 => HoldsAt(body, pa + (k - 1) * p, p, b.payloads[k])
  BY <1>16, <1>17, <1>18, <1>19, <1>24, <1>25, <1>26, <1>27
<1> QED
  BY <1>1, <1>2, <1>3, <1>4, <1>5, <1>6, <1>7, <1>8, <1>27, <1>28, <1>29, <1>30 DEF HeaderSize

-----------------------------------------------------------------------------
(* What decode_block believes *)

\* The fields before a place, as they are.
LEMMA FirstBytesAre ==
  ASSUME NEW bytes, NEW n
  PROVE  FirstBytes(bytes, n) = [o \in {x \in DOMAIN bytes : x < n} |-> bytes[o]]
BY DEF FirstBytes, RestrictDomain, Restrict

\* Stored bytes that still begin with the block and its checksum, and have no
\* other checksum.
Intact(bytes, b) ==
    /\ LaidOut(bytes)
    /\ BodySize(b) \in DOMAIN bytes
    /\ bytes[BodySize(b)] = CrcField(Body(b))
    /\ FirstBytes(bytes, BodySize(b)) = Body(b)
    /\ \A o \in DOMAIN bytes : "over" \in DOMAIN bytes[o] => o = BodySize(b)

\* The checksum is over everything before it.
LEMMA SizeOfBody ==
  ASSUME NEW b, IsBlock(b)
  PROVE  Size(Body(b)) = BodySize(b)
<1>1. PICK body : body = Body(b)
  OBVIOUS
<1>2. PICK end \in Nat : end = BodySize(b)
  BY LayoutIs
<1>3. Within(body, 0, end) /\ \E o \in DOMAIN body : o + body[o].width = end
  BY <1>1, <1>2, BodyIs
<1>4. EndBy(body, end) /\ LaidOut(body)
  BY <1>3 DEF EndBy, LaidOut, Within
<1>5. Size(body) \in Nat /\ Size(body) <= end /\ end <= Size(body)
  BY <1>3, <1>4, SizeIs
<1> QED
  BY <1>1, <1>2, <1>5

\* What WriteBlock stores is intact.
LEMMA SerializeIntact ==
  ASSUME NEW b, IsBlock(b)
  PROVE  Intact(Serialize(b), b)
<1>1. PICK body : body = Body(b)
  OBVIOUS
<1>2. PICK end \in Nat : end = BodySize(b)
  BY LayoutIs
<1>3. Within(body, 0, end)
  BY <1>1, <1>2, BodyIs
<1>4. PICK bytes : bytes = Serialize(b)
  OBVIOUS
<1>5. PICK crc : crc = [o \in {Size(Body(b))} |-> CrcField(Body(b))]
  OBVIOUS
<1>6. bytes = Joined(body, crc) /\ DOMAIN crc = {end} /\ crc[end] = CrcField(body)
  BY <1>1, <1>2, <1>4, <1>5, SizeOfBody DEF Serialize
<1>7. end \notin DOMAIN body
  BY <1>3 DEF Within
<1>8. /\ DOMAIN bytes = DOMAIN body \cup {end}
      /\ \A o \in DOMAIN body : bytes[o] = body[o]
      /\ bytes[end] = CrcField(body)
  BY <1>6, <1>7 DEF Joined
<1>9. EndBy(bytes, end + 4)
  <2>1. CrcField(body).width = 4
    BY DEF CrcField, CrcSize
  <2> QED
    BY <1>3, <1>8, <2>1 DEF EndBy, Within
<1>10. FirstBytes(bytes, end) = body
  <2>1. {x \in DOMAIN bytes : x < end} = DOMAIN body
    <3>1. \A x \in DOMAIN body : x \in Nat /\ x < end
      BY <1>3 DEF Within
    <3>2. ~(end < end)
      OBVIOUS
    <3> QED
      BY <1>8, <3>1, <3>2
  <2>2. body = [o \in DOMAIN body |-> body[o]]
    BY <1>1 DEF Body, Joined
  <2> QED
    BY <1>8, <2>1, <2>2, FirstBytesAre
<1>11. \A o \in DOMAIN bytes : "over" \in DOMAIN bytes[o] => o = end
  BY <1>3, <1>8 DEF Within
<1>12. LaidOut(bytes)
  BY <1>9 DEF LaidOut
<1> QED
  BY <1>1, <1>2, <1>4, <1>8, <1>10, <1>11, <1>12 DEF Intact

\* What the block has is read.
LEMMA IntactHolds ==
  ASSUME NEW b, IsBlock(b), NEW bytes, Intact(bytes, b)
  PROVE  \A o, w, v : HoldsAt(Body(b), o, w, v) => ReadAt(bytes, o, w) = v
<1> SUFFICES ASSUME NEW o, NEW w, NEW v, HoldsAt(Body(b), o, w, v) PROVE ReadAt(bytes, o, w) = v
  OBVIOUS
<1>1. o \in DOMAIN bytes /\ bytes[o] = Field(w, v)
  BY FirstBytesAre DEF Intact, HoldsAt
<1> QED
  BY <1>1, FieldIsRead

\* The two flags.
LEMMA FlagsAre ==
  ASSUME NEW b, IsBlock(b)
  PROVE  /\ Flags(b) < 4
         /\ Flags(b) % 2 = 1 <=> b.payloadSize > 0
         /\ (Flags(b) \div 2) % 2 = 1 <=> b.dtype = Int8
<1>1. PICK f \in {0, 1} : f = IF b.payloadSize > 0 THEN 1 ELSE 0
  OBVIOUS
<1>2. PICK g \in {0, 2} : g = IF b.dtype = Int8 THEN 2 ELSE 0
  OBVIOUS
<1>3. Flags(b) = f + g
  BY <1>1, <1>2 DEF Flags
<1>4. (f + g) < 4 /\ ((f + g) % 2 = 1 <=> f = 1) /\ (((f + g) \div 2) % 2 = 1 <=> g = 2)
  OBVIOUS
<1> QED
  BY <1>1, <1>2, <1>3, <1>4

\* The fields decode_block goes by.
LEMMA HeaderRead ==
  ASSUME NEW b, IsBlock(b), NEW bytes, Intact(bytes, b)
  PROVE  /\ ReadAt(bytes, 0, 4) = Magic /\ ReadAt(bytes, 4, 2) = Version
         /\ ReadAt(bytes, 6, 2) = Flags(b)
         /\ DecodedHeader(bytes) =
                [dim |-> b.dim, count |-> b.count, tStart |-> b.tStart, tEnd |-> b.tEnd,
                 payloadSize |-> b.payloadSize, dtype |-> b.dtype]
<1>1. PICK body : body = Body(b)
  OBVIOUS
<1>2. \A o, w, v : HoldsAt(body, o, w, v) => ReadAt(bytes, o, w) = v
  BY <1>1, IntactHolds
<1>3. /\ HoldsAt(body, 0, 4, Magic) /\ HoldsAt(body, 4, 2, Version)
      /\ HoldsAt(body, 6, 2, Flags(b)) /\ HoldsAt(body, 8, 4, b.dim)
      /\ HoldsAt(body, 12, 4, b.count) /\ HoldsAt(body, 16, 8, b.tStart)
      /\ HoldsAt(body, 24, 8, b.tEnd) /\ HoldsAt(body, 32, 4, b.payloadSize)
  BY <1>1, BodyIs
<1>4. /\ ReadAt(bytes, 0, 4) = Magic /\ ReadAt(bytes, 4, 2) = Version
      /\ ReadAt(bytes, 6, 2) = Flags(b)
      /\ ReadAt(bytes, 8, 4) = b.dim /\ ReadAt(bytes, 12, 4) = b.count
      /\ ReadAt(bytes, 16, 8) = b.tStart /\ ReadAt(bytes, 24, 8) = b.tEnd
      /\ ReadAt(bytes, 32, 4) = b.payloadSize
  BY <1>2, <1>3
<1>5. (IF (ReadAt(bytes, 6, 2) \div 2) % 2 = 1 THEN Int8 ELSE Float32) = b.dtype
  BY <1>4, FlagsAre DEF IsBlock
<1> QED
  BY <1>4, <1>5 DEF DecodedHeader

\* Intact bytes pass every check.
LEMMA IntactIsWellFormed ==
  ASSUME NEW b, IsBlock(b), NEW bytes, Intact(bytes, b)
  PROVE  WellFormed(bytes)
<1>1. PICK h : h = DecodedHeader(bytes)
  OBVIOUS
<1>2. h.count = b.count /\ h.dim = b.dim /\ h.payloadSize = b.payloadSize /\ h.dtype = b.dtype
  BY <1>1, HeaderRead
<1>3. PICK end \in Nat : end = BodySize(b) /\ end >= 40
  BY LayoutIs DEF HeaderSize
<1>4. PICK expected : expected = SerializedSize(h.count, h.dim, h.payloadSize, h.dtype)
  OBVIOUS
<1>5. expected - CrcSize = end /\ expected = end + 4
  <2>1. expected - CrcSize = end
    BY <1>2, <1>3, <1>4 DEF BodySize
  <2>2. PICK x : x = h.count * (8 + h.dim * SizeOfType(h.dtype) + ScaleSize(b) + h.payloadSize)
    OBVIOUS
  <2>3. expected = 40 + x + 4
    BY <1>2, <1>4, <2>2 DEF SerializedSize, ScaleSize, HeaderSize, CrcSize
  <2>4. x \in Int
    <3>1. RowSize(b) \in Nat /\ ScaleSize(b) \in Nat /\ b.payloadSize \in Nat /\ b.count \in Nat
      BY LayoutIs DEF IsBlock
    <3> QED
      BY <1>2, <2>2, <3>1 DEF RowSize
  <2> QED
    BY <2>1, <2>3, <2>4 DEF CrcSize
<1>6. Size(bytes) \in Nat /\ end + 4 <= Size(bytes)
  <2>1. end \in DOMAIN bytes /\ bytes[end].width = 4 /\ LaidOut(bytes)
    BY <1>3 DEF Intact, CrcField, CrcSize
  <2> QED
    BY <2>1, SizeIs
<1>7. CrcMatches(bytes, end)
  BY <1>3 DEF Intact, CrcMatches
<1>8. /\ ReadAt(bytes, 0, 4) = Magic /\ ReadAt(bytes, 4, 2) = Version
      /\ ReadAt(bytes, 6, 2) < 4
      /\ ReadAt(bytes, 6, 2) % 2 = 1 <=> h.payloadSize > 0
      /\ h.dim # 0
  BY <1>2, HeaderRead, FlagsAre DEF IsBlock
<1>9. Size(bytes) >= HeaderSize + CrcSize /\ Size(bytes) >= expected /\ CrcMatches(bytes, expected - CrcSize)
  BY <1>3, <1>5, <1>6, <1>7 DEF HeaderSize, CrcSize
<1> QED
  BY <1>1, <1>4, <1>8, <1>9 DEF WellFormed

\* decode_block gives back what serialize_block was given, whatever follows it
\* (block_codec.cpp:117-285).
LEMMA DecodeIntact ==
  ASSUME NEW b, IsBlock(b), NEW bytes, Intact(bytes, b)
  PROVE  Decode(bytes) = b
<1>1. PICK h : h = DecodedHeader(bytes)
  OBVIOUS
<1>2. h = [dim |-> b.dim, count |-> b.count, tStart |-> b.tStart, tEnd |-> b.tEnd,
           payloadSize |-> b.payloadSize, dtype |-> b.dtype]
  BY <1>1, HeaderRead
<1>3. PICK s : s = Sections(bytes, h)
  OBVIOUS
<1>4. Decode(bytes) = Joined(h, s)
  BY <1>1, <1>3, IntactIsWellFormed DEF Decode
<1>5. /\ VectorsAt(h) = VectorsAt(b) /\ ScalesAt(h) = ScalesAt(b) /\ PayloadsAt(h) = PayloadsAt(b)
      /\ h.dim * SizeOfType(h.dtype) = RowSize(b)
  BY <1>2 DEF VectorsAt, ScalesAt, PayloadsAt, RowSize
<1>6. PICK n \in Nat : n = b.count
  BY DEF IsBlock
<1>7. ASSUME NEW k \in 1 .. n
      PROVE  /\ ReadAt(bytes, HeaderSize + (k - 1) * 8, 8) = b.timestamps[k]
             /\ ReadAt(bytes, VectorsAt(b) + (k - 1) * RowSize(b), RowSize(b)) = b.vectors[k]
             /\ b.dtype = Int8 => ReadAt(bytes, ScalesAt(b) + (k - 1) * 4, 4) = b.scales[k]
             /\ b.payloadSize > 0 =>
                    ReadAt(bytes, PayloadsAt(b) + (k - 1) * b.payloadSize, b.payloadSize) = b.payloads[k]
  <2>1. PICK body : body = Body(b)
    OBVIOUS
  <2>2. \A o, w, v : HoldsAt(body, o, w, v) => ReadAt(bytes, o, w) = v
    BY <2>1, IntactHolds
  <2> QED
    BY <1>6, <2>1, <2>2, BodyIs
<1>8. ReadSection(bytes, HeaderSize, 8, n) = b.timestamps
  BY <1>6, <1>7 DEF ReadSection, IsBlock, Rows
<1>9. ReadSection(bytes, VectorsAt(b), RowSize(b), n) = b.vectors
  BY <1>6, <1>7 DEF ReadSection, IsBlock, Rows
<1>10. b.dtype = Int8 => ReadSection(bytes, ScalesAt(b), 4, n) = b.scales
  BY <1>6, <1>7 DEF ReadSection, IsBlock, Rows
<1>11. b.payloadSize > 0 => ReadSection(bytes, PayloadsAt(b), b.payloadSize, n) = b.payloads
  BY <1>6, <1>7 DEF ReadSection, IsBlock, Rows
<1>12. h.count = n /\ h.dtype = b.dtype /\ h.payloadSize = b.payloadSize
  BY <1>2, <1>6
<1>13. s = [timestamps |-> b.timestamps, vectors |-> b.vectors,
            scales |-> b.scales, payloads |-> b.payloads]
  <2>1. (IF h.dtype = Int8 THEN ReadSection(bytes, ScalesAt(h), 4, h.count) ELSE <<>>) = b.scales
    BY <1>5, <1>10, <1>12 DEF IsBlock
  <2>2. (IF h.payloadSize > 0 THEN ReadSection(bytes, PayloadsAt(h), h.payloadSize, h.count) ELSE <<>>) = b.payloads
    BY <1>5, <1>11, <1>12 DEF IsBlock
  <2> QED
    BY <1>3, <1>5, <1>8, <1>9, <1>12, <2>1, <2>2 DEF Sections
<1>14. Joined(h, s) = [f \in BlockFields |-> b[f]]
  BY <1>2, <1>13 DEF Joined, BlockFields
<1> QED
  BY <1>4, <1>14 DEF IsBlock

\* decode_block gives back what serialize_block was given
\* (block_codec.cpp:117-285), whatever the rows, the dim, the dtype and the
\* payload size.
THEOREM BlockRoundTrip ==
  ASSUME NEW b, IsBlock(b)
  PROVE  Decode(Serialize(b)) = b
BY SerializeIntact, DecodeIntact

\* What leaves everything up to the checksum as it was leaves the block.
LEMMA StaysIntact ==
  ASSUME NEW b, IsBlock(b), NEW bytes, Intact(bytes, b), NEW worse, LaidOut(worse),
         \A o : o <= BodySize(b) => (o \in DOMAIN worse <=> o \in DOMAIN bytes),
         \A o \in DOMAIN bytes : o <= BodySize(b) => worse[o] = bytes[o],
         \A o \in DOMAIN worse : "over" \in DOMAIN worse[o] => o = BodySize(b)
  PROVE  Intact(worse, b)
<1>1. PICK end \in Nat : end = BodySize(b)
  BY LayoutIs
<1>2. end \in DOMAIN worse /\ worse[end] = bytes[end]
  BY <1>1 DEF Intact
<1>3. FirstBytes(worse, end) = FirstBytes(bytes, end)
  <2>1. ASSUME NEW o, o < end PROVE o \in DOMAIN worse \cup DOMAIN bytes => o <= end
    BY <1>1, <2>1 DEF LaidOut, EndBy, Intact
  <2>2. {x \in DOMAIN worse : x < end} = {x \in DOMAIN bytes : x < end}
    BY <1>1, <2>1
  <2>3. \A x \in {y \in DOMAIN bytes : y < end} : worse[x] = bytes[x]
    BY <1>1, <2>1
  <2> QED
    BY <2>2, <2>3, FirstBytesAre
<1> QED
  BY <1>1, <1>2, <1>3 DEF Intact

\* Without a checksum that matches nothing is decoded.
LEMMA NoMatch ==
  ASSUME NEW bytes, \A end : ~CrcMatches(bytes, end)
  PROVE  Decode(bytes) = Corrupt
<1>1. ~WellFormed(bytes)
  <2>1. WellFormed(bytes) => \E end : CrcMatches(bytes, end)
    BY DEF WellFormed
  <2> QED
    BY <2>1
<1> QED
  BY <1>1 DEF Decode

\* A checksum matches only where there is one.
LEMMA MatchIsOver ==
  ASSUME NEW bytes, NEW end, CrcMatches(bytes, end)
  PROVE  end \in DOMAIN bytes /\ "over" \in DOMAIN bytes[end] /\ bytes[end].over = FirstBytes(bytes, end)
BY DEF CrcMatches, CrcField

\* Changing one field leaves the block or is noticed.
LEMMA FieldDamaged ==
  ASSUME NEW b, IsBlock(b), NEW bytes, Intact(bytes, b),
         NEW x \in DOMAIN bytes, NEW field \in DamagedFields(bytes[x]),
         NEW worse, worse = [bytes EXCEPT ![x] = field]
  PROVE  Intact(worse, b) \/ Decode(worse) = Corrupt
<1>1. PICK end \in Nat : end = BodySize(b)
  BY LayoutIs
<1>2. /\ DOMAIN worse = DOMAIN bytes /\ worse[x] = field
      /\ \A o \in DOMAIN bytes \ {x} : worse[o] = bytes[o]
  OBVIOUS
<1>3. PICK body : body = Body(b)
  OBVIOUS
<1>4. /\ end \in DOMAIN bytes /\ bytes[end] = CrcField(body)
      /\ FirstBytes(bytes, end) = body
      /\ \A o \in DOMAIN bytes : "over" \in DOMAIN bytes[o] => o = end
      /\ LaidOut(bytes)
  BY <1>1, <1>3 DEF Intact
<1>5. x \in Nat
  BY <1>4 DEF LaidOut, EndBy
<1>6. x = end => field = CrcField(<<>>)
  BY <1>4 DEF DamagedFields, CrcField
<1>7. x # end => /\ "over" \notin DOMAIN field /\ field.width = bytes[x].width
                 /\ field # bytes[x]
  BY <1>4 DEF DamagedFields, Field
<1>8. CASE x > end
  <2>1. LaidOut(worse)
    BY <1>2, <1>4, <1>7, <1>8 DEF LaidOut, EndBy
  <2>2. \A o \in DOMAIN bytes : o <= end => worse[o] = bytes[o]
    BY <1>1, <1>2, <1>5, <1>8
  <2>3. \A o \in DOMAIN worse : "over" \in DOMAIN worse[o] => o = end
    BY <1>2, <1>4, <1>7, <1>8
  <2> QED
    BY <1>1, <1>2, <2>1, <2>2, <2>3, StaysIntact
<1>9. CASE x = end
  <2>1. ASSUME NEW e, CrcMatches(worse, e) PROVE FALSE
    <3>1. e \in DOMAIN worse /\ "over" \in DOMAIN worse[e] /\ worse[e].over = FirstBytes(worse, e)
      BY <2>1, MatchIsOver
    <3>2. e = end
      BY <1>2, <1>4, <1>9, <3>1
    <3>3. FirstBytes(worse, end) = <<>>
      BY <1>2, <1>6, <1>9, <3>1, <3>2 DEF CrcField
    <3>4. DOMAIN FirstBytes(worse, end) = {}
      BY <3>3
    <3>5. 0 \in DOMAIN body /\ Within(body, 0, end)
      BY <1>1, <1>3, BodyIs DEF HoldsAt
    <3>6. DOMAIN body = {o \in DOMAIN bytes : o < end}
      BY <1>4, FirstBytesAre
    <3>7. DOMAIN FirstBytes(worse, end) = {o \in DOMAIN worse : o < end}
      BY FirstBytesAre
    <3> QED
      BY <1>2, <3>4, <3>5, <3>6, <3>7
  <2> QED
    BY <2>1, NoMatch
<1>10. CASE x < end
  <2>1. ASSUME NEW e, CrcMatches(worse, e) PROVE FALSE
    <3>1. e \in DOMAIN worse /\ "over" \in DOMAIN worse[e] /\ worse[e].over = FirstBytes(worse, e)
      BY <2>1, MatchIsOver
    <3>2. x # end
      BY <1>5, <1>10
    <3>3. e # x
      BY <1>2, <1>7, <3>1, <3>2
    <3>4. e = end
      BY <1>2, <1>4, <3>1, <3>3
    <3>5. FirstBytes(worse, end) = body
      BY <1>2, <1>4, <3>1, <3>2, <3>4 DEF CrcField
    <3>6. FirstBytes(worse, end)[x] = worse[x] /\ FirstBytes(bytes, end)[x] = bytes[x]
      BY <1>2, <1>10, FirstBytesAre
    <3> QED
      BY <1>2, <1>4, <1>7, <3>2, <3>5, <3>6
  <2> QED
    BY <2>1, NoMatch
<1> QED
  BY <1>5, <1>8, <1>9, <1>10

\* A damaged block is the block it was, or is answered CORRUPTION
\* (block_codec.cpp:175-245).
LEMMA DamagedBlock ==
  ASSUME NEW b, IsBlock(b), NEW bytes, Intact(bytes, b), NEW worse \in Damaged(bytes)
  PROVE  Intact(worse, b) \/ Decode(worse) = Corrupt
<1>1. PICK end \in Nat : end = BodySize(b)
  BY LayoutIs
<1>2. /\ end \in DOMAIN bytes /\ bytes[end] = CrcField(Body(b))
      /\ \A o \in DOMAIN bytes : "over" \in DOMAIN bytes[o] => o = end
      /\ LaidOut(bytes)
  BY <1>1 DEF Intact
<1>3. PICK last \in Nat : EndBy(bytes, last)
  BY <1>2 DEF LaidOut
<1>4. DOMAIN bytes \subseteq Nat /\ \A o \in DOMAIN bytes : bytes[o].width \in Nat /\ o + bytes[o].width <= last
  BY <1>3 DEF EndBy
<1>5. CASE worse = FirstBytes(bytes, Max(DOMAIN bytes))
  <2>1. \A o \in DOMAIN bytes : o <= last
    BY <1>4
  <2>2. PICK m : m = Max(DOMAIN bytes)
    OBVIOUS
  <2>3. m \in DOMAIN bytes /\ m \in Nat /\ end <= m
    BY <1>2, <1>4, <2>1, <2>2, MaxIs
  <2>4. worse = [o \in {o \in DOMAIN bytes : o < m} |-> bytes[o]]
    BY <1>5, <2>2, FirstBytesAre
  <2>5. EndBy(worse, last)
    BY <1>3, <2>4 DEF EndBy
  <2>6. CASE end < m
    <3>1. \A o : o <= end => (o \in DOMAIN worse <=> o \in DOMAIN bytes)
      BY <1>4, <2>3, <2>4, <2>6
    <3>2. \A o \in DOMAIN bytes : o <= end => worse[o] = bytes[o]
      BY <1>4, <2>3, <2>4, <2>6
    <3>3. \A o \in DOMAIN worse : "over" \in DOMAIN worse[o] => o = end
      BY <1>2, <2>4
    <3>4. LaidOut(worse)
      BY <2>5 DEF LaidOut
    <3> QED
      BY <1>1, <3>1, <3>2, <3>3, <3>4, StaysIntact
  <2>7. CASE end = m
    <3>1. ASSUME NEW e, CrcMatches(worse, e) PROVE FALSE
      <4>1. e \in DOMAIN worse /\ "over" \in DOMAIN worse[e]
        BY <3>1, MatchIsOver
      <4> QED
        BY <1>2, <2>3, <2>4, <2>7, <4>1
    <3> QED
      BY <3>1, NoMatch
  <2> QED
    BY <2>3, <2>6, <2>7
<1>6. CASE worse = Joined(bytes, [o \in {Size(bytes)} |-> Field(4, 0)])
  <2>1. PICK size \in Nat : size = Size(bytes)
    BY <1>2, SizeIs
  <2>2. end < size
    <3>1. bytes[end].width = 4
      BY <1>2 DEF CrcField, CrcSize
    <3>2. end + 4 <= size
      BY <1>2, <2>1, <3>1, SizeIs
    <3> QED
      BY <2>1, <3>2
  <2>3. /\ DOMAIN worse = DOMAIN bytes \cup {size}
        /\ \A o \in DOMAIN bytes : worse[o] = bytes[o]
        /\ size \notin DOMAIN bytes => worse[size] = Field(4, 0)
    BY <1>6, <2>1 DEF Joined
  <2>4. LaidOut(worse)
    <3>1. PICK to \in Nat : to >= last /\ to >= size + 4
      <4>1. last + size + 4 \in Nat /\ last + size + 4 >= last /\ last + size + 4 >= size + 4
        BY <1>3, <2>1
      <4> QED
        BY <4>1
    <3>2. Field(4, 0).width = 4
      BY DEF Field
    <3>3. \A o \in DOMAIN worse : o \in Nat /\ worse[o].width \in Nat /\ o + worse[o].width <= to
      BY <1>4, <2>1, <2>3, <3>1, <3>2
    <3> QED
      BY <3>1, <3>3 DEF LaidOut, EndBy
  <2>5. \A o : o <= end => (o \in DOMAIN worse <=> o \in DOMAIN bytes)
    BY <2>1, <2>2, <2>3
  <2>6. \A o \in DOMAIN worse : "over" \in DOMAIN worse[o] => o = end
    BY <1>2, <2>3 DEF Field
  <2> QED
    BY <1>1, <2>3, <2>4, <2>5, <2>6, StaysIntact
<1>7. ASSUME NEW x \in DOMAIN bytes, NEW field \in DamagedFields(bytes[x]),
             worse = [bytes EXCEPT ![x] = field]
      PROVE  Intact(worse, b) \/ Decode(worse) = Corrupt
  BY <1>7, FieldDamaged
<1> QED
  BY <1>5, <1>6, <1>7 DEF Damaged

\* A stored block with a field changed, the last one lost or something added
\* never reads as another block (block_codec.cpp:196-245).
THEOREM DamageIsNoticed ==
  ASSUME NEW b, IsBlock(b), NEW worse \in Damaged(Serialize(b))
  PROVE  Decode(worse) \in {b, Corrupt}
BY SerializeIntact, DamagedBlock, DecodeIntact

-----------------------------------------------------------------------------
(* The blocks of a path *)

Dims == {r.dim : r \in Requests} \cup {DefaultDim} \cup Guesses
Payloads == {r.payload : r \in Requests} \cup Guesses

\* What CopyEntry relies on.
HasShape(b, c) == b.dim = c.dim /\ b.dtype = DtypeOf(c.dtype) /\ b.payloadSize = c.payload

\* A damaged value keeps what it holds at an offset, or a guess is read there.
LEMMA GuessRead ==
  ASSUME NEW bytes, NEW worse \in Damaged(bytes), NEW o, NEW width
  PROVE  ReadAt(worse, o, width) \in {ReadAt(bytes, o, width)} \cup Guesses
<1>1. Junk \in Guesses /\ 0 \in Guesses /\ Noise \subseteq Guesses
  BY DEF Guesses
<1>2. CASE worse = FirstBytes(bytes, Max(DOMAIN bytes))
  <2>1. \A x \in DOMAIN worse : x \in DOMAIN bytes /\ worse[x] = bytes[x]
    BY <1>2, FirstBytesAre
  <2> QED
    BY <1>1, <2>1 DEF ReadAt
<1>3. CASE worse = Joined(bytes, [x \in {Size(bytes)} |-> Field(4, 0)])
  <2>1. /\ \A x \in DOMAIN bytes : x \in DOMAIN worse /\ worse[x] = bytes[x]
        /\ \A x \in DOMAIN worse \ DOMAIN bytes : worse[x] = Field(4, 0)
    BY <1>3 DEF Joined
  <2>2. CASE o \in DOMAIN bytes
    BY <2>1, <2>2 DEF ReadAt
  <2>3. CASE o \notin DOMAIN bytes
    BY <1>1, <2>1, <2>3 DEF ReadAt, Field
  <2> QED
    BY <2>2, <2>3
<1>4. ASSUME NEW x \in DOMAIN bytes, NEW field \in DamagedFields(bytes[x]),
             worse = [bytes EXCEPT ![x] = field]
      PROVE  ReadAt(worse, o, width) \in {ReadAt(bytes, o, width)} \cup Guesses
  <2>1. /\ DOMAIN worse = DOMAIN bytes /\ worse[x] = field
        /\ \A y \in DOMAIN bytes \ {x} : worse[y] = bytes[y]
    BY <1>4
  <2>2. CASE o = x
    <3>1. "value" \in DOMAIN field => field.value \in Noise
      BY DEF DamagedFields, CrcField, Field
    <3> QED
      BY <1>1, <2>1, <2>2, <3>1 DEF ReadAt
  <2>3. CASE o # x
    BY <2>1, <2>3 DEF ReadAt
  <2> QED
    BY <2>2, <2>3
<1> QED
  BY <1>2, <1>3, <1>4 DEF Damaged

\* What EvictSensor makes is a block serialize_block takes, with the engine's
\* shape.
LEMMA NewBlockIs ==
  ASSUME NEW c, c.dim \in Dims, c.dim \in Nat \ {0}, c.dtype \in {0, 1},
         c.payload \in Payloads, c.payload \in Nat,
         NEW id \in BlockIds, NEW n \in BlockCounts,
         NEW b, b = NewBlock(c, id, n)
  PROVE  IsBlock(b) /\ b \in WritableBlocks /\ HasShape(b, c)
<1>1. n \in Nat \ {0}
  BY BlockCountsAssumption
<1> DEFINE shape(d, t, p) == [PlainConfig(d) EXCEPT !.dtype = t, !.payload = p]
<1>2. PICK plain : plain = shape(c.dim, c.dtype, c.payload)
  OBVIOUS
<1>3. plain \in Shapes
  <2>1. Shapes = {shape(d, t, p) : d \in Dims, t \in {0, 1}, p \in Payloads}
    BY DEF Shapes, Dims, Payloads
  <2> HIDE DEF shape
  <2> QED
    BY <1>2, <2>1
<1>4. plain.dim = c.dim /\ plain.dtype = c.dtype /\ plain.payload = c.payload
  BY <1>2 DEF PlainConfig
<1>5. b = NewBlock(plain, id, n)
  BY <1>4 DEF NewBlock
<1>6. b \in WritableBlocks
  BY <1>3, <1>5 DEF WritableBlocks, BlockIds
<1>7. DtypeOf(c.dtype) \in {Float32, Int8}
  BY DEF DtypeOf, DtypeCode
<1>8. /\ b.dim = c.dim /\ b.count = n /\ b.dtype = DtypeOf(c.dtype) /\ b.payloadSize = c.payload
      /\ b = [f \in BlockFields |-> b[f]]
  <2> DEFINE rows(section) == [k \in 1 .. n |-> 100 * section + 10 * id + k]
             scales == IF DtypeOf(c.dtype) = Int8 THEN rows(3) ELSE <<>>
             payloads == IF c.payload > 0 THEN rows(4) ELSE <<>>
  <2>1. b = [dim |-> c.dim, count |-> n, dtype |-> DtypeOf(c.dtype), payloadSize |-> c.payload,
             tStart |-> rows(1)[1], tEnd |-> rows(1)[n], timestamps |-> rows(1),
             vectors |-> rows(2), scales |-> scales, payloads |-> payloads]
    BY Zenon DEF NewBlock
  <2> HIDE DEF rows, scales, payloads
  <2> QED
    BY <2>1 DEF BlockFields
<1>9. /\ Rows(b.timestamps, n) /\ Rows(b.vectors, n)
      /\ IF b.dtype = Int8 THEN Rows(b.scales, n) ELSE b.scales = <<>>
      /\ IF b.payloadSize > 0 THEN Rows(b.payloads, n) ELSE b.payloads = <<>>
  BY DEF NewBlock, Rows
<1>10. IsBlock(b)
  BY <1>1, <1>7, <1>8, <1>9 DEF IsBlock
<1> QED
  BY <1>6, <1>8, <1>10 DEF HasShape

\* The bytes of a block an engine wrote, or of one decode_block refuses.
Known(bytes) ==
    \/ Decode(bytes) = Corrupt
    \/ \E b \in WritableBlocks : IsBlock(b) /\ Intact(bytes, b)

Matches(bytes, c) == Decode(bytes) = Corrupt \/ HasShape(Decode(bytes), c)

StoredKeys == Keys \ {MetadataKey}

\* The inductive invariant, on top of PathInv and TypeInv: every stored block is
\* known, and one of the path's schema unless an engine had to guess.
BlockInv ==
    /\ HasMetadata => ReadAt(Metadata, 8, 4) \in Dims /\ ReadAt(Metadata, 14, 4) \in Payloads
    /\ running => cfg.dim \in Dims /\ cfg.payload \in Payloads
    /\ \A key \in StoredKeys : Known(kv[key])
    /\ ~misled => \A key \in StoredKeys :
                    HasMetadata /\ Matches(kv[key], DeserializeMetadata(Metadata, NoConfig))

\* An empty path.
LEMMA BlockInit == Init => BlockInv
<1> SUFFICES ASSUME Init PROVE BlockInv
  OBVIOUS
<1>1. Keys = {} /\ ~HasMetadata /\ ~running
  BY DEF Init, Keys, HasMetadata
<1> QED
  BY <1>1 DEF BlockInv, StoredKeys

\* Blocks of the one have the shape of the other's.
SameShape(c, d) == c.dim = d.dim /\ c.dtype = d.dtype /\ c.payload = d.payload

\* What matches the one matches the other.
LEMMA MatchesSameShape ==
  ASSUME NEW bytes, NEW c, NEW d, SameShape(c, d)
  PROVE  Matches(bytes, c) <=> Matches(bytes, d)
BY DEF Matches, SameShape, HasShape

\* A running engine writes blocks of its own schema, which is the path's.
LEMMA EngineOf ==
  ASSUME PathInv, TypeOK, BlockInv, running
  PROVE  /\ cfg.dim \in Dims /\ cfg.dim \in Nat \ {0} /\ cfg.dtype \in {0, 1}
         /\ cfg.payload \in Payloads /\ cfg.payload \in Nat
         /\ ~misled => HasMetadata /\ SameShape(DeserializeMetadata(Metadata, NoConfig), cfg)
<1>1. Usable(cfg)
  BY DEF PathInv
<1>2. cfg.dim \in 1 .. MaxDim
  BY <1>1 DEF Usable, Validate
<1>3. cfg.dim \in Nat \ {0}
  <2>1. PICK d \in 1 .. MaxDim : d = cfg.dim
    BY <1>2
  <2>2. d \in Nat \ {0}
    BY SMTT(30) DEF MaxDim
  <2> QED
    BY <2>1, <2>2
<1>4. cfg.dtype \in {0, 1} /\ cfg.payload \in Nat
  BY DEF TypeOK, SchemaOf
<1>5. ASSUME ~misled PROVE HasMetadata /\ SameShape(DeserializeMetadata(Metadata, NoConfig), cfg)
  <2>1. /\ HasMetadata /\ Accepted(given) /\ Metadata = SerializeMetadata(given, uuid)
        /\ cfg = [given EXCEPT !.window = cfg.window]
    BY <1>5 DEF PathInv
  <2>2. DeserializeMetadata(Metadata, NoConfig) = given
    BY <2>1, MetadataGivesBack DEF NoConfig
  <2>3. PICK w : cfg = [given EXCEPT !.window = w]
    BY <2>1
  <2>4. cfg.dim = given.dim /\ cfg.dtype = given.dtype /\ cfg.payload = given.payload
    BY <2>3
  <2> QED
    BY <2>1, <2>2, <2>4 DEF SameShape
<1> QED
  BY <1>3, <1>4, <1>5 DEF BlockInv

\* WriteBlock's value is known and matches.
LEMMA WrittenBlock ==
  ASSUME PathInv, TypeOK, BlockInv, running, NEW id \in BlockIds, NEW n \in BlockCounts,
         NEW b, b = NewBlock(cfg, id, n)
  PROVE  /\ Known(Serialize(b)) /\ Decode(Serialize(b)) = b /\ b \in WritableBlocks
         /\ Matches(Serialize(b), cfg)
<1>1. IsBlock(b) /\ b \in WritableBlocks /\ HasShape(b, cfg)
  BY EngineOf, NewBlockIs
<1>2. Intact(Serialize(b), b)
  BY <1>1, SerializeIntact
<1>3. Decode(Serialize(b)) = b
  BY <1>1, <1>2, DecodeIntact
<1> QED
  BY <1>1, <1>2, <1>3 DEF Known, Matches

\* Damage leaves a block that was known as it reads, or corrupt.
LEMMA KnownDamaged ==
  ASSUME NEW bytes, Known(bytes), Decode(bytes) # Corrupt, NEW worse \in Damaged(bytes)
  PROVE  Known(worse) /\ Decode(worse) \in {Decode(bytes), Corrupt}
<1>1. PICK b \in WritableBlocks : IsBlock(b) /\ Intact(bytes, b)
  BY DEF Known
<1>2. Intact(worse, b) \/ Decode(worse) = Corrupt
  BY <1>1, DamagedBlock
<1>3. Decode(bytes) = b /\ (Intact(worse, b) => Decode(worse) = b)
  BY <1>1, DecodeIntact
<1> QED
  BY <1>1, <1>2, <1>3 DEF Known

\* No Create, Open, Close, block, drop or damage breaks BlockInv.
LEMMA BlockStep == PathInv /\ PathInv' /\ TypeInv /\ BlockInv /\ [Next]_vars => BlockInv'
<1> SUFFICES ASSUME PathInv, PathInv', TypeInv, BlockInv, [Next]_vars PROVE BlockInv'
  OBVIOUS
<1> DEFINE schema == DeserializeMetadata(Metadata, NoConfig)
<1>1. /\ HasMetadata => ReadAt(Metadata, 8, 4) \in Dims /\ ReadAt(Metadata, 14, 4) \in Payloads
      /\ running => cfg.dim \in Dims /\ cfg.payload \in Payloads
      /\ \A key \in StoredKeys : Known(kv[key])
      /\ ~misled => \A key \in StoredKeys : HasMetadata /\ Matches(kv[key], schema)
      /\ TypeOK
  BY DEF BlockInv, TypeInv
<1>2. ASSUME NEW request \in Requests, NEW id, Create(request, id) PROVE BlockInv'
  <2>1. /\ kv' = Put(kv, MetadataKey, SerializeMetadata(cfg', uuid'))
        /\ cfg' = Defaulted(request) /\ running' /\ misled' = misled
    BY <1>2 DEF Create
  <2>2. /\ HasMetadata' /\ Metadata' = SerializeMetadata(cfg', uuid')
        /\ StoredKeys' = StoredKeys /\ \A key \in StoredKeys : kv'[key] = kv[key]
    BY <2>1 DEF Put, HasMetadata, Metadata, Keys, StoredKeys
  <2>3. cfg'.dim = request.dim /\ cfg'.payload = request.payload
    BY <2>1, RequestIsConfig, DefaultedIs
  <2>4. cfg'.dim \in Dims /\ cfg'.payload \in Payloads
    BY <2>3 DEF Dims, Payloads
  <2>5. DeserializeMetadata(Metadata', NoConfig) = cfg'
    <3>1. Accepted(cfg')
      BY <1>2, <2>1, RequestIsConfig, RequestsAreAccepted DEF Create, CanCreate
    <3> QED
      BY <2>2, <3>1, MetadataGivesBack DEF NoConfig
  <2>6. ReadAt(Metadata', 8, 4) = cfg'.dim /\ ReadAt(Metadata', 14, 4) = cfg'.payload
    BY <2>2, MetadataFields, FieldIsRead
  <2>7. ASSUME ~misled', NEW key \in StoredKeys'
        PROVE  Matches(kv'[key], cfg')
    <3>1. HasMetadata /\ Matches(kv[key], schema)
      BY <1>1, <2>1, <2>2, <2>7
    <3>2. SchemaOf(schema) = SchemaOf(cfg')
      BY <1>2, <2>1, <3>1 DEF Create, CanCreate
    <3>3. schema.dim = cfg'.dim /\ schema.dtype = cfg'.dtype /\ schema.payload = cfg'.payload
      BY <3>2 DEF SchemaOf
    <3> QED
      BY <2>2, <2>7, <3>1, <3>3 DEF Matches, HasShape
  <2> QED
    BY <1>1, <2>1, <2>2, <2>4, <2>5, <2>6, <2>7 DEF BlockInv
<1>3. CASE Open
  <2>1. /\ kv' = kv /\ cfg' = Defaulted(FoundConfig) /\ running'
        /\ misled' = (misled \/ ~HasMetadata)
    BY <1>3 DEF Open
  <2>2. IsConfig(FoundConfig)
    BY PlainIsConfig, DeserializedIsConfig DEF FoundConfig
  <2>3. cfg'.dim = FoundConfig.dim /\ cfg'.payload = FoundConfig.payload
    BY <2>1, <2>2, DefaultedIs
  <2>4. FoundConfig.dim \in Dims /\ FoundConfig.payload \in Payloads
    <3>1. CASE HasMetadata
      <4>1. PICK d : d = PlainConfig(DefaultDim) /\ IsConfig(d)
        BY PlainIsConfig
      <4>2. FoundConfig = DeserializeMetadata(Metadata, d)
        BY <3>1, <4>1 DEF FoundConfig
      <4>3. FoundConfig.dim = ReadAt(Metadata, 8, 4) /\ FoundConfig.payload = ReadAt(Metadata, 14, 4)
        BY <4>1, <4>2 DEF DeserializeMetadata, IsConfig, Fields
      <4> QED
        BY <1>1, <3>1, <4>3
    <3>2. CASE ~HasMetadata
      BY <3>2 DEF FoundConfig, PlainConfig, Dims, Payloads, Guesses
    <3> QED
      BY <3>1, <3>2
  <2>5. UNCHANGED <<HasMetadata, Metadata, StoredKeys>>
    BY <2>1 DEF HasMetadata, Metadata, Keys, StoredKeys
  <2> QED
    BY <1>1, <2>1, <2>3, <2>4, <2>5 DEF BlockInv
<1>4. CASE Close
  BY <1>1, <1>4 DEF Close, BlockInv, HasMetadata, Metadata, Keys, StoredKeys
<1>5. ASSUME UNCHANGED <<running, cfg, misled>>,
             HasMetadata' <=> HasMetadata, HasMetadata => Metadata' = Metadata,
             NEW old, old \subseteq StoredKeys' \cap StoredKeys,
             \A key \in old : kv'[key] = kv[key],
             \A key \in StoredKeys' \ old :
                /\ Known(kv'[key])
                /\ ~misled => HasMetadata /\ Matches(kv'[key], schema)
      PROVE  BlockInv'
  BY <1>1, <1>5 DEF BlockInv
<1>6. ASSUME NEW s \in Callers, NEW n \in BlockCounts, StoreBlock(s, n) PROVE BlockInv'
  <2>1. s \in Names /\ s \in CStrings /\ ValidName(s) /\ NextId(s) \in BlockIds /\ running
    <3>1. NextId(s) \in 0 .. MaxBlockId + 1
      BY <1>1, BlockIdsAre DEF NextId, TypeOK
    <3> QED
      BY <3>1, <1>6, BlockIdsAre, CallersAssumption DEF StoreBlock, Names, BlockIds
  <2>2. PICK k : k = EncodeKey(s, NextId(s)) /\ k # MetadataKey
    BY <2>1, MetadataIsNoBlock
  <2>3. PICK bytes : bytes = Serialize(NewBlock(cfg, NextId(s), n))
    OBVIOUS
  <2>4. kv' = Put(kv, k, bytes) /\ UNCHANGED <<running, cfg, misled>>
    BY <1>6, <2>2, <2>3 DEF StoreBlock
  <2>5. Known(bytes) /\ Matches(bytes, cfg)
    BY <1>1, <2>1, <2>3, WrittenBlock
  <2>6. ~misled => HasMetadata /\ Matches(bytes, schema)
    BY <1>1, <2>1, <2>5, EngineOf, MatchesSameShape
  <2>7. /\ HasMetadata' <=> HasMetadata
        /\ HasMetadata => Metadata' = Metadata
        /\ StoredKeys' = StoredKeys \cup {k}
        /\ kv'[k] = bytes
        /\ \A key \in StoredKeys \ {k} : kv'[key] = kv[key]
    BY <2>2, <2>4 DEF Put, HasMetadata, Metadata, Keys, StoredKeys
  <2>8. PICK old : old = StoredKeys \ {k}
    OBVIOUS
  <2>9. /\ old \subseteq StoredKeys' \cap StoredKeys
        /\ \A key \in old : kv'[key] = kv[key]
        /\ StoredKeys' \ old = {k}
    BY <2>7, <2>8
  <2> HIDE DEF schema
  <2> QED
    BY <1>5, <2>4, <2>5, <2>6, <2>7, <2>9
<1>7. ASSUME NEW s \in Callers, DropSensor(s) PROVE BlockInv'
  <2>1. /\ kv' = [key \in {k \in DOMAIN kv : ~InRange(s, k)} |-> kv[key]]
        /\ UNCHANGED <<running, cfg, misled>>
    BY <1>7 DEF DropSensor, RestrictDomain, Restrict
  <2>2. ~InRange(s, MetadataKey)
    BY CallersAssumption, MetadataNotInRange
  <2>3. /\ HasMetadata' <=> HasMetadata
        /\ HasMetadata => Metadata' = Metadata
    BY <2>1, <2>2 DEF HasMetadata, Metadata, Keys
  <2>4. StoredKeys' \subseteq StoredKeys /\ \A key \in StoredKeys' : kv'[key] = kv[key]
    BY <2>1 DEF Keys, StoredKeys
  <2> QED
    BY <1>5, <2>1, <2>3, <2>4
<1>8. ASSUME NEW k \in Keys, Damage(k) PROVE BlockInv'
  <2>1. PICK bytes \in Damaged(kv[k]) : kv' = [kv EXCEPT ![k] = bytes]
    BY <1>8 DEF Damage
  <2>2. UNCHANGED <<running, cfg>> /\ misled' = (misled \/ k = MetadataKey)
    BY <1>8 DEF Damage, engineVars
  <2>3. /\ Keys' = Keys /\ StoredKeys' = StoredKeys /\ kv'[k] = bytes
        /\ \A key \in Keys \ {k} : kv'[key] = kv[key]
        /\ HasMetadata' <=> HasMetadata
    BY <2>1 DEF Keys, StoredKeys, HasMetadata
  <2>4. CASE k = MetadataKey
    <3>1. Metadata' \in Damaged(Metadata) /\ HasMetadata
      BY <2>1, <2>3, <2>4 DEF Metadata, HasMetadata
    <3>2. /\ ReadAt(Metadata', 8, 4) \in {ReadAt(Metadata, 8, 4)} \cup Guesses
          /\ ReadAt(Metadata', 14, 4) \in {ReadAt(Metadata, 14, 4)} \cup Guesses
      BY <3>1, GuessRead
    <3>3. ReadAt(Metadata', 8, 4) \in Dims /\ ReadAt(Metadata', 14, 4) \in Payloads
      BY <1>1, <3>1, <3>2 DEF Dims, Payloads
    <3>4. \A key \in StoredKeys' : Known(kv'[key])
      BY <1>1, <2>3, <2>4 DEF StoredKeys
    <3> QED
      BY <1>1, <2>2, <2>4, <3>3, <3>4 DEF BlockInv
  <2>5. CASE k # MetadataKey
    <3>1. k \in StoredKeys /\ Decode(kv[k]) # Corrupt
      BY <1>8, <2>5 DEF StoredKeys, Damage
    <3>2. Known(bytes) /\ Decode(bytes) \in {Decode(kv[k]), Corrupt}
      BY <1>1, <2>1, <3>1, KnownDamaged
    <3>3. ~misled => HasMetadata /\ Matches(bytes, schema)
      BY <1>1, <3>1, <3>2 DEF Matches
    <3>4. HasMetadata => Metadata' = Metadata
      BY <2>3, <2>5 DEF Metadata, HasMetadata
    <3>5. PICK old : old = StoredKeys \ {k}
      OBVIOUS
    <3>6. /\ old \subseteq StoredKeys' \cap StoredKeys
          /\ \A key \in old : kv'[key] = kv[key]
          /\ StoredKeys' \ old = {k}
      BY <2>3, <3>1, <3>5 DEF StoredKeys
    <3>7. kv'[k] = bytes /\ misled' = misled
      BY <1>1, <2>2, <2>3, <2>5 DEF TypeOK
    <3> HIDE DEF schema
    <3> QED
      BY <1>5, <2>2, <2>3, <3>2, <3>3, <3>4, <3>6, <3>7
  <2> QED
    BY <2>4, <2>5
<1>9. CASE UNCHANGED vars
  BY <1>1, <1>9 DEF vars, engineVars, BlockInv, HasMetadata, Metadata, Keys, StoredKeys
<1>10. ASSUME NEW window \in Windows, MaintainSlidingWindow(window) PROVE BlockInv'
  <2>1. cfg' = [cfg EXCEPT !.window = window] /\ UNCHANGED <<kv, running, misled>>
    BY <1>10 DEF MaintainSlidingWindow
  <2>2. cfg'.dim = cfg.dim /\ cfg'.payload = cfg.payload
    BY <2>1
  <2> QED
    BY <1>1, <2>1, <2>2 DEF BlockInv, HasMetadata, Metadata, Keys, StoredKeys
<1> QED
  BY <1>2, <1>3, <1>4, <1>6, <1>7, <1>8, <1>9, <1>10 DEF Next, Call

\* What the listings and ReadBlock show of a store.
BlocksIn(store) ==
    {p \in Names \X BlockIds : EncodeKey(p[1], p[2]) \in DOMAIN store}

\* Open, ListBlocks and ReadBlock see what is stored.
LEMMA SeenIs ==
  ASSUME NEW store, IsStore(DOMAIN store, Names, BlockIds)
  PROVE  SeenIn(store) = [p \in BlocksIn(store) |-> Decode(store[EncodeKey(p[1], p[2])])]
<1>1. PICK keys : keys = DOMAIN store
  OBVIOUS
<1>2. ListSensors(keys) = {s \in Names : \E id \in BlockIds : EncodeKey(s, id) \in keys}
  BY <1>1, ListSensorsIs
<1>3. \A s \in Names : ListBlocks(keys, s) = {id \in BlockIds : EncodeKey(s, id) \in keys}
  BY <1>1, NamesAre, ListBlocksIs
<1>4. PICK blocks : blocks = UNION {{<<s, id>> : id \in ListBlocks(keys, s)} : s \in ListSensors(keys)}
  OBVIOUS
<1>5. blocks = BlocksIn(store)
  <2>1. ASSUME NEW s \in ListSensors(keys), NEW id \in ListBlocks(keys, s)
        PROVE  <<s, id>> \in BlocksIn(store)
    BY <1>1, <1>2, <1>3, <2>1 DEF BlocksIn
  <2>2. ASSUME NEW s \in Names, NEW id \in BlockIds, EncodeKey(s, id) \in keys
        PROVE  s \in ListSensors(keys) /\ id \in ListBlocks(keys, s)
    BY <1>2, <1>3, <2>2
  <2> QED
    BY <1>1, <1>4, <2>1, <2>2 DEF BlocksIn
<1> QED
  BY <1>1, <1>4, <1>5 DEF SeenIn

\* What the engine sees is what is there.
SeenInv == seen = SeenIn(kv)

\* An empty path.
LEMMA SeenInit == Init => SeenInv
<1> SUFFICES ASSUME Init PROVE SeenInv
  OBVIOUS
<1>1. kv = <<>> /\ seen = <<>>
  BY DEF Init
<1>2. DOMAIN kv = {}
  BY <1>1
<1>3. SeenIn(kv) = [p \in BlocksIn(kv) |-> Decode(kv[EncodeKey(p[1], p[2])])]
  BY <1>2, SeenIs, NamesAre, BlockIdsAre DEF IsStore
<1>4. BlocksIn(kv) = {}
  BY <1>2 DEF BlocksIn
<1> QED
  BY <1>1, <1>3, <1>4 DEF SeenInv

\* Every call looks again.
LEMMA SeenStep == SeenInv /\ [Next]_vars => SeenInv'
BY DEF SeenInv, Next, vars

-----------------------------------------------------------------------------
(* Theorems *)

\* PathInv holds in every reachable state.
LEMMA Invariance == Spec => []PathInv
<1>1. PathInv /\ [Next]_vars => PathInv'
  BY PathStep
<1> QED
  BY PathInit, <1>1, PTL DEF Spec

\* TypeInv holds in every reachable state.
LEMMA Typed == Spec => []TypeInv
<1>1. TypeInv /\ [Next]_vars => TypeInv'
  BY TypeStep
<1> QED
  BY TypeInit, <1>1, PTL DEF Spec

\* BlockInv holds in every reachable state.
LEMMA BlocksKnown == Spec => []BlockInv
<1>1. PathInv /\ PathInv' /\ TypeInv /\ BlockInv /\ [Next]_vars => BlockInv'
  BY BlockStep
<1> QED
  BY Invariance, Typed, BlockInit, <1>1, PTL DEF Spec

\* SeenInv holds in every reachable state.
LEMMA SeenAlways == Spec => []SeenInv
<1>1. SeenInv /\ [Next]_vars => SeenInv'
  BY SeenStep
<1> QED
  BY SeenInit, <1>1, PTL DEF Spec

\* The store never holds a key but the metadata's and those of valid names and
\* ids, and Open's counters are ids to go on with: what a listing returns last,
\* of bytes, is the greatest (engine.cpp:372-377).
THEOREM TypeCorrect == Spec => []TypeOK
<1>1. TypeInv => TypeOK
  BY DEF TypeInv
<1> QED
  BY Typed, <1>1, PTL

\* No engine runs with a configuration validate_and_default refuses, nor with a
\* default left to fill in but a window of 0 (engine.cpp:282-310, 352-354, 885-892):
\* not one that Open put together from damaged metadata either.
THEOREM ConfigIsValid == Spec => []RunningConfigIsValid
<1>1. PathInv => RunningConfigIsValid
  BY DEF PathInv, Usable, RunningConfigIsValid
<1> QED
  BY Invariance, <1>1, PTL

\* serialize_metadata and deserialize_metadata (engine.cpp:111-164) are inverse,
\* field by field: on disk is what the last Create was given, whatever windows the
\* engines since have been given (892), and their uuid.
THEOREM MetadataAgrees == Spec => []MetadataIsTheConfig
<1>1. PathInv => MetadataIsTheConfig
  <2> SUFFICES ASSUME PathInv, ~misled
               PROVE  /\ HasMetadata => DeserializeMetadata(Metadata, NoConfig) = given
                      /\ running => /\ HasMetadata /\ UuidIn(Metadata) = uuid
                                    /\ cfg = [given EXCEPT !.window = cfg.window]
    BY DEF MetadataIsTheConfig
  <2>1. HasMetadata => DeserializeMetadata(Metadata, NoConfig) = given
    BY MetadataGivesBack DEF PathInv, NoConfig
  <2>2. running => HasMetadata /\ Accepted(given) /\ Metadata = SerializeMetadata(given, uuid)
    BY DEF PathInv
  <2>3. running => UuidIn(Metadata) = uuid
    BY <2>2, MetadataGivesBack
  <2>4. running => cfg = [given EXCEPT !.window = cfg.window]
    BY DEF PathInv
  <2> QED
    BY <2>1, <2>2, <2>3, <2>4
<1> QED
  BY Invariance, <1>1, PTL

\* Once on a path, an engine's uuid and schema stay through every Close, Open and
\* Create (engine.cpp:416-427), and nothing but Create writes where they are.
THEOREM IdentityStays == Spec => IdentityIsStable
<1>1. PathInv /\ [Next]_vars =>
        [HasMetadata /\ ~misled' =>
            /\ UuidIn(Metadata') = UuidIn(Metadata)
            /\ SchemaOf(DeserializeMetadata(Metadata', NoConfig))
                 = SchemaOf(DeserializeMetadata(Metadata, NoConfig))]_vars
  <2> SUFFICES ASSUME PathInv, Next, HasMetadata, ~misled'
               PROVE  /\ UuidIn(Metadata') = UuidIn(Metadata)
                      /\ SchemaOf(DeserializeMetadata(Metadata', NoConfig))
                           = SchemaOf(DeserializeMetadata(Metadata, NoConfig))
    OBVIOUS
  <2>1. ASSUME NEW request \in Requests, NEW id, Create(request, id)
        PROVE  /\ UuidIn(Metadata') = UuidIn(Metadata)
               /\ SchemaOf(DeserializeMetadata(Metadata', NoConfig))
                    = SchemaOf(DeserializeMetadata(Metadata, NoConfig))
    <3>1. Metadata' = SerializeMetadata(cfg', uuid') /\ uuid' = UuidIn(Metadata)
      BY <2>1 DEF Create, Put, Metadata, HasMetadata, Keys
    <3>2. Accepted(cfg') /\ cfg' = Defaulted(request)
      BY <2>1, RequestIsConfig, RequestsAreAccepted DEF Create, CanCreate
    <3>3. DeserializeMetadata(Metadata', NoConfig) = cfg' /\ UuidIn(Metadata') = uuid'
      BY <3>1, <3>2, MetadataGivesBack DEF NoConfig
    <3>4. SchemaOf(DeserializeMetadata(Metadata, NoConfig)) = SchemaOf(Defaulted(request))
      BY <2>1 DEF Create, CanCreate
    <3> QED
      BY <3>1, <3>2, <3>3, <3>4
  <2>2. ASSUME NEW s \in Callers, NEW n \in BlockCounts, StoreBlock(s, n)
        PROVE  Metadata' = Metadata
    <3>1. MetadataKey # EncodeKey(s, NextId(s))
      BY <2>2, CallersAssumption, MetadataIsNoBlock DEF StoreBlock
    <3> QED
      BY <2>2, <3>1 DEF StoreBlock, Put, Metadata, HasMetadata, Keys
  <2>3. ASSUME NEW s \in Callers, DropSensor(s) PROVE Metadata' = Metadata
    <3>1. ~InRange(s, MetadataKey)
      BY CallersAssumption, MetadataNotInRange
    <3> QED
      BY <2>3, <3>1 DEF DropSensor, RestrictDomain, Restrict, Metadata, HasMetadata, Keys
  <2>4. ASSUME NEW key \in Keys, Damage(key) PROVE Metadata' = Metadata
    BY <2>4 DEF Damage, Metadata, HasMetadata, Keys, PathInv
  <2>5. CASE Open \/ Close \/ \E window \in Windows : MaintainSlidingWindow(window)
    BY <2>5 DEF Open, Close, MaintainSlidingWindow, Metadata
  <2> QED
    BY <2>1, <2>2, <2>3, <2>4, <2>5 DEF Next, Call
<1> QED
  BY Invariance, <1>1, PTL DEF Spec, IdentityIsStable

\* DropSensor takes every block of the sensor out of the store, whatever its id,
\* and leaves every other sensor's and the metadata as they were
\* (storage_rocksdb.cpp:394-413).
THEOREM DropTakesOneSensor ==
  ASSUME NEW s \in Callers, ValidName(s), DropSensor(s)
  PROVE  /\ \A id : EncodeKey(s, id) \notin DOMAIN kv'
         /\ HasMetadata => HasMetadata' /\ Metadata' = Metadata
         /\ \A r \in CStrings : \A id :
                ValidName(r) /\ r # s /\ EncodeKey(r, id) \in DOMAIN kv =>
                    /\ EncodeKey(r, id) \in DOMAIN kv'
                    /\ kv'[EncodeKey(r, id)] = kv[EncodeKey(r, id)]
<1>1. kv' = [key \in {k \in DOMAIN kv : ~InRange(s, k)} |-> kv[key]]
  BY DEF DropSensor, RestrictDomain, Restrict
<1>2. s \in CStrings
  BY CallersAssumption
<1>3. \A id : EncodeKey(s, id) \notin DOMAIN kv'
  BY <1>1, <1>2, RangesAreSeparate
<1>4. HasMetadata => HasMetadata' /\ Metadata' = Metadata
  BY <1>1, <1>2, MetadataNotInRange DEF HasMetadata, Metadata, Keys
<1>5. ASSUME NEW r \in CStrings, NEW id, ValidName(r), r # s, EncodeKey(r, id) \in DOMAIN kv
      PROVE  /\ EncodeKey(r, id) \in DOMAIN kv'
             /\ kv'[EncodeKey(r, id)] = kv[EncodeKey(r, id)]
  <2>1. ~InRange(s, EncodeKey(r, id))
    BY <1>2, <1>5, RangesAreSeparate
  <2> QED
    BY <1>1, <1>5, <2>1
<1> QED
  BY <1>3, <1>4, <1>5

\* Every block a listing shows can be copied with the running engine's dim,
\* storage dtype and payload size, or is answered CORRUPTION.
THEOREM BlocksHaveTheSchema == Spec => []BlocksMatchSchema
<1>1. PathInv /\ TypeInv /\ BlockInv /\ SeenInv => BlocksMatchSchema
  <2> SUFFICES ASSUME PathInv, TypeInv, BlockInv, SeenInv, running, ~misled,
                      NEW p \in DOMAIN seen, seen[p] # Corrupt
               PROVE  HasShape(seen[p], cfg)
    BY DEF BlocksMatchSchema, HasShape
  <2>1. TypeOK
    BY DEF TypeInv
  <2>2. seen = [q \in BlocksIn(kv) |-> Decode(kv[EncodeKey(q[1], q[2])])]
    BY <2>1, SeenIs, StoreIs DEF SeenInv, Keys
  <2>3. PICK key : key = EncodeKey(p[1], p[2])
    OBVIOUS
  <2>4. key \in Keys /\ seen[p] = Decode(kv[key]) /\ p[1] \in Names /\ p[2] \in BlockIds
    BY <2>2, <2>3 DEF BlocksIn, Keys
  <2>5. key # MetadataKey
    BY <2>3, <2>4, NamesAre, MetadataIsNoBlock
  <2>6. Matches(kv[key], DeserializeMetadata(Metadata, NoConfig))
    BY <2>4, <2>5 DEF BlockInv, StoredKeys
  <2>7. Matches(kv[key], cfg)
    BY <2>1, <2>6, EngineOf, MatchesSameShape
  <2> QED
    BY <2>4, <2>7 DEF Matches
<1> QED
  BY Invariance, Typed, BlocksKnown, SeenAlways, <1>1, PTL

-----------------------------------------------------------------------------
(* The path implements BlockMap. *)

\* The Max BlockMap takes from the library is this one.
LEMMA SameMax == \A S : Map!Max(S) = Max(S)
BY DEF Map!Max, Max

KeyOf(p) == EncodeKey(p[1], p[2])
BlockPairs == Names \X BlockIds

\* A key is of one block.
LEMMA KeyOfOne ==
  /\ \A p, q \in BlockPairs : KeyOf(p) = KeyOf(q) => p = q
  /\ \A p \in BlockPairs : KeyOf(p) # MetadataKey
  /\ \A s \in Names : \A id \in BlockIds : <<s, id>> \in BlockPairs /\ KeyOf(<<s, id>>) = EncodeKey(s, id)
<1>1. ASSUME NEW p \in BlockPairs
      PROVE  /\ p[1] \in CStrings /\ ValidName(p[1]) /\ p[2] \in Ids /\ p = <<p[1], p[2]>>
  <2>1. PICK s \in Names, id \in BlockIds : p = <<s, id>>
    BY DEF BlockPairs
  <2> QED
    BY <2>1, NamesAre, BlockIdsAre
<1>2. \A p, q \in BlockPairs : KeyOf(p) = KeyOf(q) => p = q
  <2> TAKE p, q \in BlockPairs
  <2> HAVE KeyOf(p) = KeyOf(q)
  <2>1. p[1] = q[1] /\ p[2] = q[2]
    BY <1>1, KeysApart DEF KeyOf
  <2> QED
    BY <1>1, <2>1
<1>3. \A p \in BlockPairs : KeyOf(p) # MetadataKey
  BY <1>1, MetadataIsNoBlock DEF KeyOf
<1> QED
  BY <1>2, <1>3 DEF KeyOf, BlockPairs

\* The readable side of a store.
Shown(store) == [p \in {q \in BlockPairs : KeyOf(q) \in DOMAIN store} |-> Decode(store[KeyOf(p)])]

\* What is seen is what the store shows.
LEMMA SeenShown == TypeOK /\ SeenInv => seen = Shown(kv)
<1> SUFFICES ASSUME TypeOK, SeenInv PROVE seen = Shown(kv)
  OBVIOUS
<1>1. seen = [p \in BlocksIn(kv) |-> Decode(kv[EncodeKey(p[1], p[2])])]
  BY SeenIs, StoreIs DEF SeenInv, Keys
<1> QED
  BY <1>1 DEF Shown, BlocksIn, BlockPairs, KeyOf

\* Two stores that agree on the blocks show the same.
LEMMA SameShown ==
  ASSUME NEW old, NEW new,
         \A p \in BlockPairs : /\ KeyOf(p) \in DOMAIN new <=> KeyOf(p) \in DOMAIN old
                               /\ KeyOf(p) \in DOMAIN old => Decode(new[KeyOf(p)]) = Decode(old[KeyOf(p)])
  PROVE  Shown(new) = Shown(old)
BY DEF Shown

\* A reopened engine goes on after the last block of every stored sensor.
LEMMA OpenSeeds ==
  ASSUME TypeOK, SeenInv
  PROVE  [s \in ListSensors(Keys) |-> SeededId(s)]
             = [s \in Map!StoredSensors |-> Map!Max(Map!IdsOf(s)) + 1]
<1>1. IsStore(Keys, Names, BlockIds)
  BY StoreIs
<1>2. DOMAIN seen = {q \in BlockPairs : KeyOf(q) \in Keys}
  BY SeenShown DEF Shown, Keys
<1>3. ASSUME NEW s \in Names
      PROVE  Map!IdsOf(s) = ListBlocks(Keys, s)
  <2>1. ListBlocks(Keys, s) = {id \in BlockIds : EncodeKey(s, id) \in Keys}
    BY <1>1, NamesAre, ListBlocksIs
  <2>2. Map!IdsOf(s) = {p[2] : p \in {q \in DOMAIN seen : q[1] = s}}
    BY DEF Map!IdsOf
  <2>3. ASSUME NEW id \in BlockIds, EncodeKey(s, id) \in Keys PROVE id \in Map!IdsOf(s)
    <3>1. <<s, id>> \in DOMAIN seen /\ <<s, id>>[1] = s /\ <<s, id>>[2] = id
      BY <1>2, <2>3, KeyOfOne
    <3> QED
      BY <2>2, <3>1
  <2>4. ASSUME NEW id \in Map!IdsOf(s) PROVE id \in BlockIds /\ EncodeKey(s, id) \in Keys
    BY <1>2, <2>2, <2>4 DEF BlockPairs, KeyOf
  <2> QED
    BY <2>1, <2>3, <2>4
<1>4. ListSensors(Keys) = {s \in Names : \E id \in BlockIds : EncodeKey(s, id) \in Keys}
  BY <1>1, ListSensorsIs
<1>5. Map!StoredSensors = ListSensors(Keys)
  <2>1. Map!StoredSensors = {p[1] : p \in DOMAIN seen}
    BY DEF Map!StoredSensors
  <2>2. ASSUME NEW s \in Names, NEW id \in BlockIds, EncodeKey(s, id) \in Keys PROVE s \in Map!StoredSensors
    <3>1. <<s, id>> \in DOMAIN seen /\ <<s, id>>[1] = s
      BY <1>2, <2>2, KeyOfOne
    <3> QED
      BY <2>1, <3>1
  <2>3. ASSUME NEW s \in Map!StoredSensors
        PROVE  s \in Names /\ \E id \in BlockIds : EncodeKey(s, id) \in Keys
    BY <1>2, <2>1, <2>3 DEF BlockPairs, KeyOf
  <2> QED
    BY <1>4, <2>2, <2>3
<1>6. ASSUME NEW s \in ListSensors(Keys)
      PROVE  SeededId(s) = Map!Max(Map!IdsOf(s)) + 1
  <2>1. s \in Names /\ ListBlocks(Keys, s) # {} /\ ListBlocks(Keys, s) \subseteq BlockIds
    <3>1. s \in Names /\ \E id \in BlockIds : EncodeKey(s, id) \in Keys
      BY <1>4
    <3>2. ListBlocks(Keys, s) = {id \in BlockIds : EncodeKey(s, id) \in Keys}
      BY <1>1, <3>1, NamesAre, ListBlocksIs
    <3> QED
      BY <3>1, <3>2
  <2>2. PICK listed : listed = ListBlocks(Keys, s)
    OBVIOUS
  <2>3. listed \subseteq Nat /\ listed # {} /\ \A id \in listed : id <= MaxBlockId
    BY <2>1, <2>2, BlockIdsAre
  <2>4. PICK last : last = LastListed(Keys, s)
    OBVIOUS
  <2>5. last \in listed /\ \A id \in listed : id <= last
    BY <1>1, <2>1, <2>2, <2>4, NamesAre, BlockIdsAre, LastListedIsGreatest
  <2>6. Max(listed) \in listed /\ \A id \in listed : id <= Max(listed)
    BY <2>3, BlockIdsAre, MaxIs
  <2>7. Max(listed) = last
    <3>1. last \in Nat /\ Max(listed) \in Nat /\ last <= Max(listed) /\ Max(listed) <= last
      BY <2>3, <2>5, <2>6
    <3> QED
      BY <3>1
  <2>8. SeededId(s) = last + 1
    BY <2>1, <2>4 DEF SeededId
  <2> QED
    BY <1>3, <2>1, <2>2, <2>7, <2>8, SameMax
<1> QED
  BY <1>5, <1>6

\* Every call is what BlockMap says it is, or changes nothing there.
LEMMA MapStep ==
  PathInv /\ TypeInv /\ TypeInv' /\ BlockInv /\ SeenInv /\ SeenInv' /\ [Next]_vars
    => [Map!Next]_<<seen, next>>
<1> SUFFICES ASSUME PathInv, TypeInv, TypeInv', BlockInv, SeenInv, SeenInv', [Next]_vars
             PROVE  [Map!Next]_<<seen, next>>
  OBVIOUS
<1>1. TypeOK /\ seen = Shown(kv) /\ seen' = Shown(kv')
  <2>1. TypeOK' /\ TypeOK
    BY DEF TypeInv
  <2>2. (TypeOK /\ SeenInv => seen = Shown(kv))'
    BY SeenShown, PTL
  <2> QED
    BY <2>1, <2>2, SeenShown
<1>2. ASSUME NEW request \in Requests, NEW id, Create(request, id) PROVE Map!StartEmpty
  <2>1. next' = <<>> /\ kv' = Put(kv, MetadataKey, SerializeMetadata(cfg', uuid'))
    BY <1>2 DEF Create
  <2>2. \A p \in BlockPairs : /\ KeyOf(p) \in DOMAIN kv' <=> KeyOf(p) \in DOMAIN kv
                              /\ KeyOf(p) \in DOMAIN kv => kv'[KeyOf(p)] = kv[KeyOf(p)]
    BY <2>1, KeyOfOne DEF Put
  <2>3. seen' = seen
    BY <1>1, <2>2, SameShown
  <2> QED
    BY <2>1, <2>3 DEF Map!StartEmpty
<1>3. CASE Open
  <2>1. next' = [s \in ListSensors(Keys) |-> SeededId(s)] /\ kv' = kv
    BY <1>3 DEF Open
  <2>2. seen' = seen
    BY <1>1, <2>1
  <2> QED
    BY <1>1, <2>1, <2>2, OpenSeeds DEF Map!StartSeeded, Map!Next
<1>4. CASE Close
  <2>1. next' = <<>> /\ seen' = seen
    BY <1>1, <1>4 DEF Close
  <2> QED
    BY <2>1 DEF Map!StartEmpty, Map!Next
<1>5. ASSUME NEW s \in Callers, NEW n \in BlockCounts, StoreBlock(s, n) PROVE Map!Store
  <2>1. PICK id : id = NextId(s)
    OBVIOUS
  <2>2. s \in Names /\ id \in BlockIds /\ running
    <3>1. NextId(s) \in 0 .. MaxBlockId + 1
      BY <1>1, BlockIdsAre DEF NextId, TypeOK
    <3> QED
      BY <3>1, <1>5, <2>1, BlockIdsAre DEF StoreBlock, Names, BlockIds
  <2>3. PICK b : b = NewBlock(cfg, id, n)
    OBVIOUS
  <2>4. PICK p \in BlockPairs : p = <<s, id>> /\ KeyOf(p) = EncodeKey(s, id)
    BY <2>2, KeyOfOne
  <2>5. kv' = Put(kv, KeyOf(p), Serialize(b)) /\ next' = Put(next, s, id + 1)
    BY <1>5, <2>1, <2>3, <2>4 DEF StoreBlock
  <2>6. /\ DOMAIN kv' = DOMAIN kv \cup {KeyOf(p)}
        /\ kv'[KeyOf(p)] = Serialize(b)
        /\ \A key \in DOMAIN kv \ {KeyOf(p)} : kv'[key] = kv[key]
    BY <2>5 DEF Put
  <2>7. \A q \in BlockPairs \ {p} : KeyOf(q) # KeyOf(p)
    BY <2>4, KeyOfOne
  <2>8. DOMAIN seen' = DOMAIN seen \cup {p}
    BY <1>1, <2>4, <2>6, <2>7 DEF Shown
  <2>9. \A q \in DOMAIN seen' \ {p} : seen'[q] = seen[q]
    <3>1. ASSUME NEW q \in DOMAIN seen', q # p PROVE seen'[q] = seen[q]
      <4>1. q \in BlockPairs /\ KeyOf(q) \in DOMAIN kv \ {KeyOf(p)}
        BY <1>1, <2>6, <2>7, <3>1 DEF Shown
      <4>2. kv'[KeyOf(q)] = kv[KeyOf(q)]
        BY <2>6, <4>1
      <4> QED
        BY <1>1, <2>6, <4>1, <4>2 DEF Shown
    <3> QED
      BY <3>1
  <2>10. seen'[p] \in WritableBlocks
    <3>1. Decode(Serialize(b)) \in WritableBlocks
      BY <1>1, <2>2, <2>3, WrittenBlock
    <3>2. seen'[p] = Decode(kv'[KeyOf(p)])
      BY <1>1, <2>4, <2>6 DEF Shown
    <3> QED
      BY <2>6, <3>1, <3>2
  <2>11. /\ s \in DOMAIN next' /\ Map!NextId(s) = id
         /\ next' = [r \in DOMAIN next \cup {s} |-> IF r = s THEN id + 1 ELSE next[r]]
    BY <2>1, <2>5 DEF Put, NextId, Map!NextId
  <2> QED
    BY <2>4, <2>8, <2>9, <2>10, <2>11 DEF Map!Store
<1>6. ASSUME NEW s \in Callers, DropSensor(s) PROVE Map!Drop
  <2>1. s \in DOMAIN next /\ s \in Names
    BY <1>6 DEF DropSensor, TypeInv
  <2>2. /\ kv' = [key \in {k \in DOMAIN kv : ~InRange(s, k)} |-> kv[key]]
        /\ next' = [r \in {q \in DOMAIN next : q # s} |-> next[r]]
    BY <1>6 DEF DropSensor, RestrictDomain, Restrict
  <2>3. \A p \in BlockPairs : InRange(s, KeyOf(p)) <=> p[1] = s
    BY <2>1, NamesAre, RangesAreSeparate DEF BlockPairs, KeyOf
  <2>4. seen' = [p \in {q \in DOMAIN seen : q[1] # s} |-> seen[p]]
    BY <1>1, <2>2, <2>3 DEF Shown
  <2> QED
    BY <2>1, <2>2, <2>4 DEF Map!Drop, Map!RestrictDomain, Map!Restrict
<1>7. ASSUME NEW key \in Keys, Damage(key) PROVE Map!Spoil \/ UNCHANGED <<seen, next>>
  <2>1. PICK bytes \in Damaged(kv[key]) : kv' = [kv EXCEPT ![key] = bytes]
    BY <1>7 DEF Damage
  <2>2. /\ next' = next /\ key \in DOMAIN kv /\ DOMAIN kv' = DOMAIN kv /\ kv'[key] = bytes
        /\ \A k \in DOMAIN kv \ {key} : kv'[k] = kv[k]
    BY <1>7, <2>1 DEF Damage, engineVars, Keys
  <2>3. CASE key = MetadataKey \/ Decode(bytes) = Decode(kv[key])
    <3>1. \A p \in BlockPairs : KeyOf(p) \in DOMAIN kv => Decode(kv'[KeyOf(p)]) = Decode(kv[KeyOf(p)])
      BY <2>2, <2>3, KeyOfOne
    <3>2. Shown(kv') = Shown(kv)
      BY <2>2, <3>1, SameShown
    <3> QED
      BY <1>1, <2>2, <3>2
  <2>4. CASE key # MetadataKey /\ Decode(bytes) # Decode(kv[key])
    <3>1. Known(kv[key]) /\ Decode(kv[key]) # Corrupt
      BY <1>7, <2>4 DEF BlockInv, StoredKeys, Damage
    <3>2. Decode(bytes) = Corrupt
      BY <2>1, <2>4, <3>1, KnownDamaged
    <3>3. PICK p \in BlockPairs : KeyOf(p) = key
      <4>1. PICK s \in Names, id \in BlockIds : key = EncodeKey(s, id)
        BY <1>1, <2>2, <2>4 DEF TypeOK, BlockKeys, Names, BlockIds, Keys
      <4> QED
        BY <4>1, KeyOfOne
    <3>4. p \in DOMAIN seen
      BY <1>1, <2>2, <3>3 DEF Shown
    <3>5. \A q \in BlockPairs \ {p} : KeyOf(q) # key
      BY <3>3, KeyOfOne
    <3>6. seen' = [seen EXCEPT ![p] = Corrupt]
      <4>1. DOMAIN seen' = DOMAIN seen
        BY <1>1, <2>2 DEF Shown
      <4>2. seen'[p] = Corrupt
        BY <1>1, <2>2, <3>2, <3>3 DEF Shown
      <4>3. \A q \in DOMAIN seen \ {p} : seen'[q] = seen[q]
        BY <1>1, <2>2, <3>5 DEF Shown
      <4>4. seen' = [q \in DOMAIN seen' |-> seen'[q]]
        BY <1>1 DEF Shown
      <4> QED
        BY <4>1, <4>2, <4>3, <4>4
    <3> QED
      BY <2>2, <3>4, <3>6 DEF Map!Spoil
  <2> QED
    BY <2>3, <2>4
<1>8. CASE UNCHANGED vars
  BY <1>8 DEF vars, engineVars
<1>9. ASSUME NEW window \in Windows, MaintainSlidingWindow(window) PROVE UNCHANGED <<seen, next>>
  BY <1>1, <1>9 DEF MaintainSlidingWindow
<1> QED
  BY <1>2, <1>3, <1>4, <1>5, <1>6, <1>7, <1>8, <1>9 DEF Next, Call, Map!Next

\* Whatever sensors are called and whatever is damaged, the listings and
\* ReadBlock show a map of blocks: WriteBlock adds the next one, DeleteSensor
\* takes one sensor's, Open goes on after the last, and damage is noticed.
THEOREM PathImplementsMap == Spec => ImplementsBlockMap
<1>1. Init => Map!Init
  BY DEF Init, Map!Init
<1>2. PathInv /\ TypeInv /\ TypeInv' /\ BlockInv /\ SeenInv /\ SeenInv' /\ [Next]_vars
        => [Map!Next]_(Map!vars)
  BY MapStep DEF Map!vars
<1> QED
  BY <1>1, <1>2, Invariance, Typed, BlocksKnown, SeenAlways, PTL DEF Spec, ImplementsBlockMap, Map!Spec

=============================================================================
