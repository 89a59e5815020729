SPECIFICATION Spec
CONSTANTS
  Contents = {"a", "b", "c", "d"}
  Null = Null
  Key <- MCKey
  Hash <- MCHash
  InitialTables <- Tables
  Modes <- MCModes
  Estimates = {1, 4}
  CatalogFails = FALSE
  FetchAll = 1
  PerBucket = 2
  MaxBuckets = 2
  Skew = 2
  MaxSmall = 1
  MaxCopies = 2
  MaxWrites = 1
INVARIANTS SnapshotExact OffByWritesOnly NeverPoisoned
CHECK_DEADLOCK FALSE
