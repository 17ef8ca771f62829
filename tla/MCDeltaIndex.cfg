\* Two delta lists in a nine-byte zone: two bytes for the lists beside the
\* seven-byte tail guard. Mean delta 3 gives incr_keys 2, min_bits 2 and
\* min_keys 2, so key 2 takes the long code. A list overflows the
\* ListSizeMax stand-in for U16_MAX at its third entry; the zone overflows
\* when the lists' bytes and the growth exceed two bytes.
CONSTANTS
  ListCount = 2
  ZoneBytes = 9
  MeanDelta = 3
  ValueBits = 1
  NameBits = 1
  ListSizeMax = 8
  PageBytes = 35
  Keys <- MCKeys
  Names <- MCNames
SPECIFICATION Spec
VIEW MCView
CONSTRAINT MCRecordBound
INVARIANTS
  ListsInPlace
  PackedPagesReadBack
  RecordCountsMatch
  FittingSaveRestores
  RebalanceMovesEveryList
PROPERTIES
  ImplementsDeltaLists
