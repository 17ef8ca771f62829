\* The request path with one client buffer and parked page reads that may
\* fail; every name has its own delta list. No symmetry: it is unsound for
\* the temporal property.
CONSTANTS
  n1 = n1
  n2 = n2
  n3 = n3
  s1 = s1
  s2 = s2
  Names <- MCNames
  NameAddr <- MCDistinctAddr
  Slots <- MCOneSlot
  Capacity <- MCCapacity
  ChaptersPerVolume <- MCChaptersPerVolume
  MaxChapter <- MCMaxChapter
  ReadsQueue = TRUE
  ClientTypes <- MCAllTypes
  ReadMayFail = TRUE
SPECIFICATION Spec
\* Clients stop submitting at MaxChapter, so the index falls idle.
CHECK_DEADLOCK FALSE
INVARIANT TypeOK
PROPERTIES
  RequestsComplete
