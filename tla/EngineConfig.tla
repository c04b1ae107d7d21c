----------------------------- MODULE EngineConfig -----------------------------
(***************************************************************************)
(* The engine's configuration: validate_and_default and the metadata blob   *)
(* that Create writes and Open reads (src/engine.cpp).                      *)
(*                                                                          *)
(* The blob is stored bytes as BlockCodec has them.  It has no checksum.    *)
(* max_sensors, the sink and the path are not in it.                        *)
(***************************************************************************)
EXTENDS BlockCodec

CONSTANT Int8Enabled    \* built with CHRONOSV_ENABLE_INT8

ASSUME Int8Assumption == Int8Enabled \in BOOLEAN

AbiVersion == 1
MaxDim == 65536
MaxPayloadSize == 4096
MinRingCapacity == 64
MinEvictionInterval == 100
DefaultDim == 128           \* Open's placeholder when there is no metadata
DefaultRingCapacity == 65536
DefaultWindow == 600000
DefaultInterval == 60000
MetaMagic == 9
MetaVersion == 1
MetaSize == 59

\* storage_dtype and distance_metric are bytes.
DtypeCode == <<Float32, Int8>>
DtypeOf(code) == DtypeCode[code + 1]
LastMetric == 1             \* CHRONOSV_METRIC_EUCLIDEAN

\* A zero-initialised chronosv_config_t but for the ABI version and the dim.
PlainConfig(dim) ==
    [abi |-> AbiVersion, dim |-> dim, dtype |-> 0, metric |-> 0, payload |-> 0,
     capacity |-> 0, window |-> 0, interval |-> 0, recover |-> 0]

Configs ==
    [abi : Nat, dim : Nat, dtype : Nat, metric : Nat, payload : Nat,
     capacity : Nat, window : Int, interval : Int, recover : Nat]

SchemaOf(c) == [dim |-> c.dim, dtype |-> c.dtype, metric |-> c.metric,
                payload |-> c.payload, capacity |-> c.capacity]

IfZero(value, default) == IF value = 0 THEN default ELSE value

\* What the configuration becomes if it is accepted.
Defaulted(c) ==
    [c EXCEPT !.capacity = IfZero(@, DefaultRingCapacity),
              !.window = IfZero(@, DefaultWindow),
              !.interval = IfZero(@, DefaultInterval)]

\* has_single_bit, by halving.
PowerOfTwo(n) ==
    LET single[m \in Nat] == m = 1 \/ (m > 1 /\ m % 2 = 0 /\ single[m \div 2])
    IN single[n]

\* The answer of validate_and_default.
Validate(c) ==
    LET d == Defaulted(c)
    IN CASE \/ c.abi # AbiVersion
            \/ c.dim \notin 1 .. MaxDim
            \/ c.payload > MaxPayloadSize
            \/ c.dtype > 1
            \/ c.metric > LastMetric -> "INVALID_ARG"
         [] c.dtype = 1 /\ ~Int8Enabled -> "UNSUPPORTED"
         [] \/ d.capacity < MinRingCapacity \/ ~PowerOfTwo(d.capacity)
            \/ d.window < 0
            \/ d.interval < MinEvictionInterval -> "INVALID_ARG"
         [] OTHER -> "OK"

-----------------------------------------------------------------------------
(* Metadata *)

MetaOffsets == {0, 4, 6, 8, 12, 13, 14, 18, 26, 34, 42, 58}

SerializeMetadata_WindowTwice(c, id) ==
    [o \in MetaOffsets |->
        CASE o = 0  -> Field(4, MetaMagic)  [] o = 4  -> Field(2, MetaVersion)
          [] o = 6  -> Field(2, 0)          [] o = 8  -> Field(4, c.dim)
          [] o = 12 -> Field(1, c.dtype)    [] o = 13 -> Field(1, c.metric)
          [] o = 14 -> Field(4, c.payload)  [] o = 18 -> Field(8, c.capacity)
          [] o = 26 -> Field(8, c.window)   [] o = 34 -> Field(8, c.window)
          [] o = 42 -> Field(16, id)        [] o = 58 -> Field(1, c.recover)]

SerializeMetadata(c, id) ==
    [o \in MetaOffsets |->
        CASE o = 0  -> Field(4, MetaMagic)  [] o = 4  -> Field(2, MetaVersion)
          [] o = 6  -> Field(2, 0)          [] o = 8  -> Field(4, c.dim)
          [] o = 12 -> Field(1, c.dtype)    [] o = 13 -> Field(1, c.metric)
          [] o = 14 -> Field(4, c.payload)  [] o = 18 -> Field(8, c.capacity)
          [] o = 26 -> Field(8, c.window)   [] o = 34 -> Field(8, c.interval)
          [] o = 42 -> Field(16, id)        [] o = 58 -> Field(1, c.recover)]

MetadataReadable(bytes) ==
    /\ Size(bytes) >= MetaSize
    /\ ReadAt(bytes, 0, 4) = MetaMagic
    /\ ReadAt(bytes, 4, 2) = MetaVersion

\* Put over the configuration an engine has so far.
DeserializeMetadata(bytes, c) ==
    [c EXCEPT !.dim = ReadAt(bytes, 8, 4),
              !.dtype = ReadAt(bytes, 12, 1),
              !.metric = ReadAt(bytes, 13, 1),
              !.payload = ReadAt(bytes, 14, 4),
              !.capacity = ReadAt(bytes, 18, 8),
              !.window = ReadAt(bytes, 26, 8),
              !.interval = ReadAt(bytes, 34, 8),
              !.recover = ReadAt(bytes, 58, 1)]

UuidIn(bytes) == ReadAt(bytes, 42, 16)

=============================================================================
