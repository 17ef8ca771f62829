\* Crashes and reopens with every open type, the suspend handshake and
\* failing replays; the discard and the chapter writes succeed.
CONSTANTS
  n1 = n1
  n2 = n2
  n3 = n3
  Names <- MCNames
  NameAddr <- MCSharedAddr
  ChaptersPerVolume <- MCChaptersPerVolume
  MaxChapter <- MCMaxChapter
  MaxRestarts <- MCMaxRestarts
  DiscardMayFail = FALSE
  WriteMayFail = FALSE
  ReplayMayFail = TRUE
  QuickResuspend = FALSE
SPECIFICATION Spec
\* Clients stop at MaxChapter and restarts are bounded, so the model stops.
CHECK_DEADLOCK FALSE
INVARIANT TypeOK
PROPERTIES
  LoadedWindowOnDisk
  RebuildIndexesEveryRecord
  SuspendAnswered
