\* The close protocol when message allocation, the discard of the saved open
\* chapter and chapter writes may fail. After an announce failure free_index
\* can hang (finding 1 of the README), so terminal states are expected.
CONSTANTS
  ZoneCount <- MCFailZoneCount
  Capacity <- MCCapacity
  ChaptersPerVolume <- MCChaptersPerVolume
  MaxChapter <- MCFailMaxChapter
  AnnounceMayFail = TRUE
  DiscardMayFail = TRUE
  WriteMayFail = TRUE
SPECIFICATION Spec
CHECK_DEADLOCK FALSE
INVARIANTS
  TypeOK
  ZonesWithinOneChapter
  WriterSeesEachZoneOnce
  ChapterClosedMessagesCurrent
