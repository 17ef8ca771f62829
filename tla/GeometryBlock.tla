--------------------------- MODULE GeometryBlock ---------------------------
(***************************************************************************)
(* The VDO geometry block (src/unnamed/part_003, volume-geometry.c): the   *)
(* first block of a VDO device, which says where the index and the data   *)
(* regions start, which index configuration the device was formatted     *)
(* with, and which release wrote it.  A tool initializes a geometry and  *)
(* writes it in block version 4 or 5, clears it, or loads it; the disk    *)
(* may hold a block written by another release, and a byte of the block   *)
(* may go bad.                                                            *)
(*                                                                         *)
(* The block is modelled byte for byte: little-endian fields, the         *)
(* version-dependent bio_offset, the header check, and the CRC-32 that    *)
(* covers everything before it.  Only the first BlockPrefix bytes of the  *)
(* 4096-byte block are kept: no decode reads past them.                  *)
(***************************************************************************)
EXTENDS Integers, Sequences, SequencesExt, Bitwise

CONSTANTS
  CurrentRelease,      \* VDO_CURRENT_RELEASE_VERSION_NUMBER
  CompatibleReleases,  \* COMPATIBLE_RELEASE_VERSIONS
  Nonces, Uuids,       \* inputs of vdo_initialize_volume_geometry
  Configs,             \* index configurations, [mem, sparse]
  IndexBytes,          \* uds_compute_index_size for each configuration
  BioOffsets,          \* bio offsets a converted volume may carry
  Versions,            \* geometry block versions a tool writes
  Foreign,             \* blocks another release left on the device, [geometry, version]
  FaultPositions,      \* bytes of the block that may go bad
  MaxFaults            \* bad bytes since the last write

Byte == 0 .. 255
BlockSize == 4096                    \* VDO_BLOCK_SIZE
MagicSize == 8                       \* MAGIC_NUMBER_SIZE
Magic == <<100, 109, 118, 100, 111, 48, 48, 49>>   \* "dmvdo001"
DefaultVersion == 5                  \* DEFAULT_GEOMETRY_BLOCK_VERSION
GeometryBlockId == 5                 \* VDO_GEOMETRY_BLOCK
IndexRegion == 0                     \* VDO_INDEX_REGION
DataRegion == 1                      \* VDO_DATA_REGION
RegionCount == 2                     \* VDO_VOLUME_REGION_COUNT

-----------------------------------------------------------------------------
(* Little-endian integers (put_u32_le_into_buffer, get_u64_le_from_buffer *)
(* and their kin), booleans (put_boolean, get_boolean) and the CRC-32.    *)
(* TLC's integers are 32-bit, so the model's field values stay below     *)
(* 2^31 and the CRC is compared as the bytes it is stored as.             *)
RECURSIVE LE(_, _)
LE(x, n) == IF n = 0 THEN <<>> ELSE <<x % 256>> \o LE(x \div 256, n - 1)
FromLE(s) == FoldRight(LAMBDA b, acc : b + 256 * acc, s, 0)
At(b, at, n) == FromLE(SubSeq(b, at, at + n - 1))
EncodeBool(v) == <<IF v THEN 1 ELSE 0>>
DecodeBool(byte) == byte = 1

(* The CRC is kept as its four little-endian bytes; bytes are xored       *)
(* through a table of Bitwise's ^^ computed once.                          *)
ByteXor == [x \in Byte, y \in Byte |-> x ^^ y]
CrcXor(c, d) == [i \in 1 .. 4 |-> ByteXor[c[i], d[i]]]
CrcPoly == <<32, 131, 184, 237>>           \* 0xEDB88320, reflected CRC-32
CrcOnes == <<255, 255, 255, 255>>
CrcHalve(c) == [i \in 1 .. 4 |-> c[i] \div 2 + (IF i < 4 THEN (c[i + 1] % 2) * 128 ELSE 0)]
CrcTable == [x \in Byte |->
               LET bit(c, k) == IF c[1] % 2 = 1 THEN CrcXor(CrcHalve(c), CrcPoly) ELSE CrcHalve(c)
               IN FoldLeft(bit, <<x, 0, 0, 0>>, <<1, 2, 3, 4, 5, 6, 7, 8>>)]
CrcStep[c \in [1 .. 4 -> Byte], b \in Byte] ==
  CrcXor(CrcTable[ByteXor[c[1], b]], <<c[2], c[3], c[4], 0>>)
CrcStep8(c, b) ==
  CrcStep[CrcStep[CrcStep[CrcStep[CrcStep[CrcStep[CrcStep[CrcStep[c, b[1]], b[2]], b[3]], b[4]],
          b[5]], b[6]], b[7]], b[8]]
(* vdo_crc32: the CRC-32 of s, as the four bytes put_u32_le_into_buffer   *)
(* writes.  Whole eight-byte chunks are folded in first, then the rest,   *)
(* which keeps TLC's evaluation stack shallow.                             *)
Crc32(s) ==
  LET full == Len(s) \div 8
      chunks[k \in 0 .. full] ==
        IF k = 0 THEN CrcOnes ELSE CrcStep8(chunks[k - 1], SubSeq(s, 8 * k - 7, 8 * k))
      rest[i \in 8 * full .. Len(s)] ==
        IF i = 8 * full THEN chunks[full] ELSE CrcStep[rest[i - 1], s[i]]
  IN CrcXor(rest[Len(s)], CrcOnes)

(* The block buffer of allocateIOBuffer is zeroed: what an encoding does  *)
(* not cover reads back as zeros.                                          *)
BlockPrefix == MagicSize + 20 + 69 + 4
ZeroFillShort(s) == s \o [i \in 1 .. BlockPrefix - Len(s) - 1 |-> 0]
ZeroFill(s) == s \o [i \in 1 .. BlockPrefix - Len(s) |-> 0]

-----------------------------------------------------------------------------
(* The component header (vdo_encode_header, vdo_decode_header) and the     *)
(* two geometry block headers; a header's size counts the packed block    *)
(* struct (magic, header, checksum) and the packed volume geometry.       *)
HeaderSize == 20
EncodeHeader(h) == LE(h.id, 4) \o LE(h.major, 4) \o LE(h.minor, 4) \o LE(h.size, 8)
DecodeHeader(b, at) ==
  [id |-> At(b, at, 4), major |-> At(b, at + 4, 4), minor |-> At(b, at + 8, 4),
   size |-> At(b, at + 12, 8)]
Header5 == [id |-> GeometryBlockId, major |-> 5, minor |-> 0,
            size |-> (MagicSize + HeaderSize + 4) + 69]
Header4 == [id |-> GeometryBlockId, major |-> 4, minor |-> 0,
            size |-> (MagicSize + HeaderSize + 4) + 61]

(* vdo_validate_header with exact_size. *)
ValidateHeader(expected, actual) ==
  CASE actual.id # expected.id -> "INCORRECT_COMPONENT"
    [] actual.major # expected.major \/ actual.minor # expected.minor -> "UNSUPPORTED_VERSION"
    [] actual.size # expected.size -> "PARAMETER_MISMATCH"
    [] OTHER -> "SUCCESS"

IsLoadableReleaseVersion(v) == v = CurrentRelease \/ v \in CompatibleReleases

-----------------------------------------------------------------------------
EncodeIndexConfig(c) == LE(c.mem, 4) \o LE(0, 4) \o EncodeBool(c.sparse)
DecodeIndexConfig(b, at) == [mem |-> At(b, at, 4), sparse |-> DecodeBool(b[at + 8])]

EncodeVolumeRegion(r) == LE(r.id, 4) \o LE(r.start, 8)
DecodeVolumeRegion(b, at) == [id |-> At(b, at, 4), start |-> At(b, at + 4, 8)]

EncodeVolumeGeometry(g, version) ==
  LE(g.release, 4) \o LE(g.nonce, 8) \o g.uuid
  \o (IF version >= 5 THEN LE(g.bioOffset, 8) ELSE <<>>)
  \o FoldLeft(LAMBDA s, r : s \o EncodeVolumeRegion(r), <<>>, g.regions)
  \o EncodeIndexConfig(g.config)

(* The decoded geometry, and the offset just past it. *)
DecodeVolumeGeometry(b, at, version) ==
  LET bioAt == at + 28
      regionsAt == IF version > 4 THEN bioAt + 8 ELSE bioAt
      configAt == regionsAt + 12 * RegionCount
  IN [geometry |->
        [release |-> At(b, at, 4), nonce |-> At(b, at + 4, 8),
         uuid |-> SubSeq(b, at + 12, at + 27),
         bioOffset |-> IF version > 4 THEN At(b, bioAt, 8) ELSE 0,
         regions |-> [i \in 1 .. RegionCount |-> DecodeVolumeRegion(b, regionsAt + 12 * (i - 1))],
         config |-> DecodeIndexConfig(b, configAt)],
      next |-> configAt + 9]

-----------------------------------------------------------------------------
NoGeometry == [release |-> 0, nonce |-> 0, uuid |-> <<>>, bioOffset |-> 0,
               regions |-> <<>>, config |-> [mem |-> 0, sparse |-> FALSE]]
Failed(r) == [result |-> r, geometry |-> NoGeometry, used |-> 0]

DecodeHeader4Only3(b) ==
  IF SubSeq(b, 1, MagicSize) # Magic THEN Failed("BAD_MAGIC")
  ELSE LET h == DecodeHeader(b, MagicSize + 1)
           check == ValidateHeader(IF h.major < 4 THEN Header4 ELSE Header5, h)
           d == DecodeVolumeGeometry(b, MagicSize + HeaderSize + 1, h.major)
       IN CASE check # "SUCCESS" -> Failed(check)
            [] h.size # (d.next - 1) + 4 -> Failed("ASSERTION_FAILED")
            [] OTHER -> [result |-> "SUCCESS", geometry |-> d.geometry, used |-> d.next - 1]

(* decode_geometry_block: magic, header, geometry, and the assertion that *)
(* the header's size ends where the checksum starts.                       *)
DecodeGeometryBlock(b) ==
  IF SubSeq(b, 1, MagicSize) # Magic THEN Failed("BAD_MAGIC")
  ELSE LET h == DecodeHeader(b, MagicSize + 1)
           check == ValidateHeader(IF h.major <= 4 THEN Header4 ELSE Header5, h)
           d == DecodeVolumeGeometry(b, MagicSize + HeaderSize + 1, h.major)
       IN CASE check # "SUCCESS" -> Failed(check)
            [] h.size # (d.next - 1) + 4 -> Failed("ASSERTION_FAILED")
            [] OTHER -> [result |-> "SUCCESS", geometry |-> d.geometry, used |-> d.next - 1]

ParseNoReleaseCheck(b) ==
  LET d == DecodeGeometryBlock(b)
      checksum == Crc32(SubSeq(b, 1, d.used))
      saved == SubSeq(b, d.used + 1, d.used + 4)
  IN CASE d.result # "SUCCESS" -> d
       [] checksum # saved -> Failed("CHECKSUM_MISMATCH")
       [] OTHER -> d

(* vdo_parse_geometry_block: decode, checksum what was decoded, refuse a  *)
(* release this code cannot load, then compare the checksums.              *)
ParseGeometryBlock(b) ==
  LET d == DecodeGeometryBlock(b)
      checksum == Crc32(SubSeq(b, 1, d.used))
      saved == SubSeq(b, d.used + 1, d.used + 4)
  IN CASE d.result # "SUCCESS" -> d
       [] ~IsLoadableReleaseVersion(d.geometry.release) -> Failed("UNSUPPORTED_VERSION")
       [] checksum # saved -> Failed("CHECKSUM_MISMATCH")
       [] OTHER -> d

(* encode_geometry_block, up to the checksum. *)
EncodeGeometryBlock(g, version) ==
  LET header == IF version <= 4 THEN Header4 ELSE Header5
      content == Magic \o EncodeHeader(header) \o EncodeVolumeGeometry(g, version)
  IN IF header.size # Len(content) + 4
       THEN [result |-> "ASSERTION_FAILED", bytes |-> <<>>]
       ELSE [result |-> "SUCCESS", bytes |-> content]

(* vdo_write_volume_geometry_with_version: the block it writes. *)
WrittenBlock(g, version) ==
  LET e == EncodeGeometryBlock(g, version)
  IN [e EXCEPT !.bytes = ZeroFill(@ \o Crc32(@))]

-----------------------------------------------------------------------------
(* vdo_compute_index_blocks. *)
ComputeIndexBlocks(c) ==
  LET bytes == IndexBytes[c]
      blocks == bytes \div BlockSize
  IN IF blocks * BlockSize # bytes
       THEN [result |-> "PARAMETER_MISMATCH", blocks |-> 0]
       ELSE [result |-> "SUCCESS", blocks |-> blocks]

NoConfig == [mem |-> 0, sparse |-> FALSE]

(* vdo_initialize_volume_geometry: the index region starts at block 1 and *)
(* the data region after the index; without an index, or with an index   *)
(* of no blocks, the configuration stays zero.                            *)
InitializeVolumeGeometry(nonce, uuid, c) ==
  LET size == IF c = NoConfig THEN [result |-> "SUCCESS", blocks |-> 0]
              ELSE ComputeIndexBlocks(c)
  IN [result |-> size.result,
      geometry |->
        [release |-> CurrentRelease, nonce |-> nonce, uuid |-> uuid, bioOffset |-> 0,
         regions |-> <<[id |-> IndexRegion, start |-> 1],
                       [id |-> DataRegion, start |-> 1 + size.blocks]>>,
         config |-> IF size.blocks > 0 THEN c ELSE NoConfig]]

(* The geometries a tool writes: an initialized one, with the bio offset  *)
(* a conversion sets.                                                      *)
Geometries ==
  {[InitializeVolumeGeometry(n, u, c).geometry EXCEPT !.bioOffset = o] :
     n \in Nonces, u \in Uuids, o \in BioOffsets,
     c \in {cc \in Configs \cup {NoConfig} :
              InitializeVolumeGeometry(0, <<>>, cc).result = "SUCCESS"}}

(* Every block a write can produce, computed once (a set, which TLC      *)
(* evaluates when it starts, where a function would be recomputed).      *)
Writes == [geometry : Geometries, version : Versions] \cup Foreign
Images == {[write |-> w, block |-> WrittenBlock(w.geometry, w.version)] : w \in Writes}
Image(w) == (CHOOSE i \in Images : i.write = w).block

(* What a load of a block written with version v returns: version 4      *)
(* blocks have no bio offset.                                              *)
AsRead(w) == IF w.version > 4 THEN w.geometry ELSE [w.geometry EXCEPT !.bioOffset = 0]

-----------------------------------------------------------------------------
VARIABLES
  disk,     \* the first BlockPrefix bytes of the geometry block
  written,  \* the last write: [geometry, version], Cleared or Blank
  faults,   \* bytes gone bad since the last write
  loaded    \* the last load since the last write: its result and the faults it saw

vars == <<disk, written, faults, loaded>>

Cleared == [geometry |-> NoGeometry, version |-> 0]
Blank == [geometry |-> NoGeometry, version |-> -1]
NoLoad == [res |-> Failed("NONE"), faults |-> -1]

(* A fresh device, or one another release formatted. *)
Init ==
  \/ disk = ZeroFill(<<>>) /\ written = Blank
  \/ \E w \in Foreign : disk = Image(w).bytes /\ written = w
  /\ faults = 0
  /\ loaded = NoLoad

(* vdo_write_volume_geometry_with_version (and vdo_write_volume_geometry, *)
(* version 5): encode, checksum, and write the block.                      *)
WriteGeometry(g, version) ==
  LET w == [geometry |-> g, version |-> version]
  IN /\ Image(w).result = "SUCCESS"
     /\ disk' = Image(w).bytes
     /\ written' = w
     /\ faults' = 0
     /\ loaded' = NoLoad

(* vdo_clear_volume_geometry: a zeroed block. *)
ClearGeometry ==
  /\ disk' = ZeroFill(<<>>)
  /\ written' = Cleared
  /\ faults' = 0
  /\ loaded' = NoLoad

(* vdo_load_volume_geometry: read the block and parse it. *)
LoadGeometry ==
  /\ loaded' = [res |-> ParseGeometryBlock(disk), faults |-> faults]
  /\ UNCHANGED <<disk, written, faults>>

(* A byte of the block goes bad on the device. *)
Corrupt(p) ==
  /\ faults < MaxFaults
  /\ disk' = [disk EXCEPT ![p] = (@ + 1) % 256]
  /\ faults' = faults + 1
  /\ loaded' = NoLoad
  /\ UNCHANGED written

Next ==
  \/ \E g \in Geometries, v \in Versions : WriteGeometry(g, v)
  \/ ClearGeometry
  \/ LoadGeometry
  \/ \E p \in FaultPositions : Corrupt(p)

Spec == Init /\ [][Next]_vars

-----------------------------------------------------------------------------
Results == {"SUCCESS", "NONE", "BAD_MAGIC", "INCORRECT_COMPONENT", "UNSUPPORTED_VERSION",
            "PARAMETER_MISMATCH", "ASSERTION_FAILED", "CHECKSUM_MISMATCH"}

TypeOK ==
  /\ disk \in [1 .. BlockPrefix -> Byte]
  /\ written \in Writes \cup {Cleared, Blank}
  /\ faults \in 0 .. MaxFaults
  /\ loaded.res.result \in Results
  /\ loaded.faults \in -1 .. MaxFaults

(* A load that succeeds returns the geometry last written, as its block    *)
(* version stores it, from a release this code can load: the header check, *)
(* the release check and the checksum over everything decoded turn away   *)
(* every block a bad byte changed.                                         *)
LoadedIsWritten ==
  loaded.res.result = "SUCCESS" =>
    /\ written \in Writes
    /\ loaded.res.geometry = AsRead(written)
    /\ IsLoadableReleaseVersion(written.geometry.release)

(* A block that no fault touched loads exactly when a release this code   *)
(* can load wrote it: an encoding of either version decodes, its sizes    *)
(* agree with its header, and its checksum matches; a cleared or blank    *)
(* device reports a bad magic number.                                      *)
IntactBlockLoads ==
  loaded.faults = 0 =>
    CASE written \in Writes ->
           (loaded.res.result = "SUCCESS") = IsLoadableReleaseVersion(written.geometry.release)
      [] OTHER -> loaded.res.result = "BAD_MAGIC"

====
