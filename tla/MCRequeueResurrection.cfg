\* A QUERY parked on a page read of a record that a DELETE then removes:
\* requeued with RECORD_PAGE_LOOKUP, it counts as found and re-adds the name.
CONSTANTS
  n1 = n1
  n2 = n2
  n3 = n3
  s1 = s1
  s2 = s2
  Names <- MCNames
  NameAddr <- MCDistinctAddr
  Slots <- MCSlots
  Capacity <- MCCapacity
  ChaptersPerVolume <- MCChaptersPerVolume
  MaxChapter <- MCMaxChapter
  ReadsQueue = TRUE
  ClientTypes <- MCAllTypes
  ReadMayFail = FALSE
SPECIFICATION Spec
SYMMETRY MCSymmetry
CHECK_DEADLOCK FALSE
PROPERTIES
  NoResurrection
