SPECIFICATION Spec
CONSTANTS
  a = a
  b = b
  Absent = Absent
  MaxInt = 15
  Keys <- MCKeys
  Values <- MCValues
  InitialTables <- MCNearTables
  Modes <- MCResumableModes
  Segments = 2
  Branches = 1
  Factor = 2
  Threshold = 1
  MaxDepth = 16
  PageSize = 2
  RecheckBatch = 1
  MaxWrites = 0
  MaxAborts = 1
INVARIANT IdenticalMeansIdentical
