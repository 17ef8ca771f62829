\* Writes of both block versions, clears, loads, blocks of other releases
\* and one bad byte at a time.
CONSTANTS
  CurrentRelease <- MCCurrentRelease
  CompatibleReleases <- MCCompatibleReleases
  Nonces <- MCNonces
  Uuids <- MCUuids
  Configs <- MCConfigs
  IndexBytes <- MCIndexBytes
  BioOffsets <- MCBioOffsets
  Versions <- MCVersions
  Foreign <- MCForeign
  FaultPositions <- MCFaultPositions
  MaxFaults <- MCMaxFaults
SPECIFICATION Spec
INVARIANTS
  TypeOK
  LoadedIsWritten
  IntactBlockLoads
