\* The zone of MCDeltaIndex.cfg, saved and restored in every state. Two
\* lists of three and seven bits at the reset's bit offset 4 take one and
\* two bytes, which with the seven guard bytes exceed the nine-byte zone.
CONSTANTS
  ListCount = 2
  ZoneBytes = 9
  MeanDelta = 3
  ValueBits = 1
  NameBits = 1
  ListSizeMax = 8
  PageBytes = 35
  Keys <- MCKeys
  Names <- MCNames
SPECIFICATION Spec
VIEW MCView
CONSTRAINT MCRecordBound
INVARIANTS
  SavedIndexRestores
