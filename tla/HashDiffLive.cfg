SPECIFICATION FairSpec
CONSTANTS
  a = a
  b = b
  Absent = Absent
  MaxInt = 5
  Keys <- MCWideKeys
  Values <- MCValues
  InitialTables <- MCWideTables
  Modes <- MCLiveModes
  Segments = 1
  Branches = 1
  Factor = 2
  Threshold = 1
  MaxDepth = 0
  PageSize = 1
  RecheckBatch = 1
  MaxWrites = 1
  MaxAborts = 1
INVARIANT SnapshotExact
PROPERTY Terminates
