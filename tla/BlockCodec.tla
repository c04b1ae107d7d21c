------------------------------ MODULE BlockCodec ------------------------------
(***************************************************************************)
(* The persisted form of a block (src/block_codec.cpp) and the checks       *)
(* decode_block makes before it believes one.                               *)
(*                                                                          *)
(* Stored bytes are a function from offsets to the fields that start there, *)
(* each with its width in bytes: offsets and sizes are the code's, a value  *)
(* is a number, and the row of a vector or a payload is one field.  The     *)
(* checksum field holds what it was computed over: CRC32 collisions are     *)
(* left out.  serialize_block's refusals (null sections, dim 0) are too: no *)
(* engine makes such a block.                                               *)
(***************************************************************************)
EXTENDS Integers, Sequences, FiniteSetsExt, Functions

CONSTANT Junk           \* what reading across fields yields

ASSUME JunkAssumption == Junk \in Nat

Float32 == "float32"
Int8 == "int8"
SizeOfType(dtype) == IF dtype = Int8 THEN 1 ELSE 4

Magic == 7          \* kBlockMagic
Version == 1
HeaderSize == 40
CrcSize == 4

Field(width, value) == [width |-> width, value |-> value]
CrcField(bytes) == [width |-> CrcSize, over |-> bytes]

Size(bytes) == Max({0} \cup {o + bytes[o].width : o \in DOMAIN bytes})
Joined(f, g) ==
    [x \in DOMAIN f \cup DOMAIN g |-> IF x \in DOMAIN f THEN f[x] ELSE g[x]]
FirstBytes(bytes, n) == RestrictDomain(bytes, LAMBDA o : o < n)

ReadAt(bytes, offset, width) ==
    IF offset \in DOMAIN bytes /\ bytes[offset].width = width /\ "value" \in DOMAIN bytes[offset]
      THEN bytes[offset].value ELSE Junk

-----------------------------------------------------------------------------
(* Layout *)

\* block_serialized_size
SerializedSize(count, dim, payloadSize, dtype) ==
    LET scale == IF dtype = Int8 THEN 4 ELSE 0
    IN HeaderSize + count * (8 + dim * SizeOfType(dtype) + scale + payloadSize) + CrcSize

\* Where the sections of a block with this header start: timestamps, vectors,
\* scales (INT8 only), payloads.
VectorsAt(h) == HeaderSize + h.count * 8
ScalesAt(h) == VectorsAt(h) + h.count * h.dim * SizeOfType(h.dtype)
PayloadsAt(h) == ScalesAt(h) + (IF h.dtype = Int8 THEN h.count * 4 ELSE 0)

-----------------------------------------------------------------------------
(* serialize_block *)

\* bit 0: has_payload, bit 1: is_int8
Flags(b) == (IF b.payloadSize > 0 THEN 1 ELSE 0) + (IF b.dtype = Int8 THEN 2 ELSE 0)

HeaderOffsets == {0, 4, 6, 8, 12, 16, 24, 32, 36}

Header(b) ==
    [o \in HeaderOffsets |->
        CASE o = 0  -> Field(4, Magic)          [] o = 4  -> Field(2, Version)
          [] o = 6  -> Field(2, Flags(b))       [] o = 8  -> Field(4, b.dim)
          [] o = 12 -> Field(4, b.count)        [] o = 16 -> Field(8, b.tStart)
          [] o = 24 -> Field(8, b.tEnd)         [] o = 32 -> Field(4, b.payloadSize)
          [] o = 36 -> Field(4, 0)]

Section(offset, width, values) ==
    [o \in {offset + (k - 1) * width : k \in DOMAIN values} |->
        Field(width, values[(o - offset) \div width + 1])]

Body(b) ==
    LET vectors == Section(VectorsAt(b), b.dim * SizeOfType(b.dtype), b.vectors)
        scales == Section(ScalesAt(b), 4, b.scales)
        payloads == Section(PayloadsAt(b), b.payloadSize, b.payloads)
    IN Joined(Header(b), Joined(Section(HeaderSize, 8, b.timestamps),
              Joined(vectors, Joined(scales, payloads))))

Serialize(b) == Joined(Body(b), [o \in {Size(Body(b))} |-> CrcField(Body(b))])

-----------------------------------------------------------------------------
(* decode_block *)

ReadSection(bytes, offset, width, count) ==
    [k \in 1 .. count |-> ReadAt(bytes, offset + (k - 1) * width, width)]

DecodedHeader(bytes) ==
    [dim |-> ReadAt(bytes, 8, 4), count |-> ReadAt(bytes, 12, 4),
     tStart |-> ReadAt(bytes, 16, 8), tEnd |-> ReadAt(bytes, 24, 8),
     payloadSize |-> ReadAt(bytes, 32, 4),
     dtype |-> IF (ReadAt(bytes, 6, 2) \div 2) % 2 = 1 THEN Int8 ELSE Float32]

\* The checksum of the first bodySize bytes is what the four bytes after them say.
CrcMatches(bytes, bodySize) ==
    /\ bodySize \in DOMAIN bytes
    /\ bytes[bodySize] = CrcField(FirstBytes(bytes, bodySize))

\* Everything decode_block answers CORRUPTION for, in its order. Bytes after
\* the expected size are allowed.
WellFormed(bytes) ==
    /\ Size(bytes) >= HeaderSize + CrcSize
    /\ ReadAt(bytes, 0, 4) = Magic
    /\ ReadAt(bytes, 4, 2) = Version
    /\ LET h == DecodedHeader(bytes)
           flags == ReadAt(bytes, 6, 2)
           expected == SerializedSize(h.count, h.dim, h.payloadSize, h.dtype)
       IN /\ flags < 4
          /\ flags % 2 = 1 <=> h.payloadSize > 0
          /\ h.dim # 0
          /\ Size(bytes) >= expected
          /\ CrcMatches(bytes, expected - CrcSize)

Sections(bytes, h) ==
    [timestamps |-> ReadSection(bytes, HeaderSize, 8, h.count),
     vectors |-> ReadSection(bytes, VectorsAt(h), h.dim * SizeOfType(h.dtype), h.count),
     scales |-> IF h.dtype = Int8 THEN ReadSection(bytes, ScalesAt(h), 4, h.count) ELSE <<>>,
     payloads |-> IF h.payloadSize > 0
                    THEN ReadSection(bytes, PayloadsAt(h), h.payloadSize, h.count) ELSE <<>>]

Corrupt == [status |-> "CORRUPTION"]

Decode(bytes) ==
    IF WellFormed(bytes)
      THEN LET h == DecodedHeader(bytes) IN Joined(h, Sections(bytes, h))
      ELSE Corrupt

=============================================================================
