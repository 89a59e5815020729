SPECIFICATION Spec
CONSTANTS
  Keys = {1, 2, 3, 4}
  Values = {1, 2}
  Absent = 0
  InitialTables <- SmallTables
  Modes <- AllModes
  FetchAll = 1
  PerBucket = 2
  MaxBuckets = 2
  Skew = 2
  PointMax = 2
  Chunk = 1
  PageSize = 2
  MaxCells = 3
  MaxWrites = 2
INVARIANTS StableReported SnapshotExact CountsAddUp
CHECK_DEADLOCK FALSE
