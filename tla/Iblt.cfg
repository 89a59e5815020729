SPECIFICATION SpecIblt
CONSTANTS
  Rows = {1, 2, 3, 4}
  Bits = {0, 1}
  Subtables = 4
  Samples <- AllSamples
  Modes <- AllModes
  Fixed = 3
  AutoMin = 2
  AutoMax = 4
INVARIANTS NothingMissed KeylessExact
PROPERTY PeelEnds
CHECK_DEADLOCK FALSE
