\* The close protocol, save and shutdown with failing chapter writes and no
\* allocation or discard failure.
CONSTANTS
  ZoneCount <- MCZoneCount
  Capacity <- MCCapacity
  ChaptersPerVolume <- MCChaptersPerVolume
  MaxChapter <- MCMaxChapter
  AnnounceMayFail = FALSE
  DiscardMayFail = FALSE
  WriteMayFail = TRUE
SPECIFICATION Spec
\* The index stops for good once free_index has joined the writer thread;
\* a hang before that is caught by ChapterEventuallyCommitted and
\* ShutdownCompletes, not by deadlock detection.
CHECK_DEADLOCK FALSE
INVARIANTS
  TypeOK
  
  WriterSeesEachZoneOnce
  ChapterClosedMessagesCurrent
  WriterOverwritesOnlyExpired
  SavedOpenChapterIsCurrent
PROPERTIES
  ChapterEventuallyCommitted
  ShutdownCompletes
  ImplementsChapterLifecycle
