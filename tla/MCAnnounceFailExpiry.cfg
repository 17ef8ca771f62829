CONSTANTS
  ZoneCount <- MCZoneCount
  Capacity <- MCCapacity
  ChaptersPerVolume <- MCChaptersPerVolume
  MaxChapter <- MCMaxChapter
  AnnounceMayFail = TRUE
  DiscardMayFail = FALSE
  WriteMayFail = FALSE
SPECIFICATION Spec
CHECK_DEADLOCK FALSE
INVARIANT WriterOverwritesOnlyExpired
