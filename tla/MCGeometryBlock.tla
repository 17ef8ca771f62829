------------------------- MODULE MCGeometryBlock --------------------------
(* Small instances of GeometryBlock for TLC. *)
EXTENDS GeometryBlock

\* Release numbers stand in for the values of release-versions.h: one
\* current, one older compatible release, and one this code cannot load.
MCCurrentRelease == 3
MCCompatibleReleases == {1}
MCUnsupportedRelease == 7

\* The smallest nonce and the largest TLC represents; one uuid.
MCNonces == {0, 2147483647}
MCUuids == {[i \in 1 .. 16 |-> i]}

\* A dense and a sparse index configuration whose sizes are whole blocks,
\* and one whose size is not (vdo_compute_index_blocks refuses it).
MCDense == [mem |-> 1, sparse |-> FALSE]
MCSparse == [mem |-> 2147483647, sparse |-> TRUE]
MCRagged == [mem |-> 2, sparse |-> FALSE]
MCConfigs == {MCDense, MCSparse, MCRagged}
MCIndexBytes == (MCDense :> 3 * 4096) @@ (MCSparse :> 30 * 4096) @@ (MCRagged :> 6 * 4096 + 512)

MCBioOffsets == {0, 2147483647}
MCVersions == {4, 5}

\* A version 4 block of the compatible release, and a version 5 block of
\* the release this code cannot load.
MCForeignGeometry(r) == [InitializeVolumeGeometry(0, [i \in 1 .. 16 |-> 0], MCDense).geometry
                           EXCEPT !.release = r]
MCForeign == {[geometry |-> MCForeignGeometry(1), version |-> 4],
              [geometry |-> MCForeignGeometry(MCUnsupportedRelease), version |-> 5]}

\* The low byte of each field of a version 5 block (magic, header id, major
\* version, size, release, nonce, bio offset, region start, index memory,
\* sparse flag, checksum); in a version 4 block the same offsets fall on
\* the region ids, the sparse flag and the zeros after the checksum.
MCFaultPositions == {1, 9, 13, 21, 29, 33, 57, 69, 89, 97, 98, 101}
MCMaxFaults == 1

\* Crc32 is the standard CRC-32: its check value on "123456789".
ASSUME Crc32(<<49, 50, 51, 52, 53, 54, 55, 56, 57>>) = <<38, 57, 244, 203>>  \* 0xCBF43926

=============================================================================
