\* The request path with two client buffers and parked page reads that may
\* fail: a request parks while the other buffer's requests fill and close
\* chapters, move entries and expire the parked request's chapter. Every
\* name has its own delta list. Symmetry over names and buffers is sound for
\* the action property.
CONSTANTS
  n1 = n1
  n2 = n2
  n3 = n3
  s1 = s1
  s2 = s2
  Names <- MCNames
  NameAddr <- MCDistinctAddr
  Slots <- MCSlots
  Capacity <- MCCapacity
  ChaptersPerVolume <- MCChaptersPerVolume
  MaxChapter <- MCMaxChapter
  ReadsQueue = TRUE
  ClientTypes <- MCAllTypes
  ReadMayFail = TRUE
SPECIFICATION Spec
SYMMETRY MCSymmetry
\* Clients stop submitting at MaxChapter, so the index falls idle.
CHECK_DEADLOCK FALSE
PROPERTIES
  NoFalseNegative
