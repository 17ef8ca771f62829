\* A chapter write fails, the index is saved, and the process crashes:
\* close_chapters advances newest_virtual_chapter whatever the write's result.
CONSTANTS
  n1 = n1
  n2 = n2
  n3 = n3
  Names <- MCNames
  NameAddr <- MCSharedAddr
  ChaptersPerVolume <- MCChaptersPerVolume
  MaxChapter <- MCMaxChapter
  MaxRestarts <- MCMaxRestarts
  DiscardMayFail = FALSE
  WriteMayFail = TRUE
  ReplayMayFail = FALSE
  QuickResuspend = FALSE
SPECIFICATION Spec
\* Clients stop at MaxChapter and restarts are bounded, so the model stops.
CHECK_DEADLOCK FALSE
PROPERTY LoadedWindowOnDisk
