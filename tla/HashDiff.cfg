SPECIFICATION Spec
CONSTANTS
  a = a
  b = b
  Absent = Absent
  MaxInt = 15
  Keys <- MCKeys
  Values <- MCValues
  InitialTables <- MCNearTables
  Modes <- MCModes
  Segments = 2
  Branches = 1
  Factor = 2
  Threshold = 2
  MaxDepth = 16
  PageSize = 1
  RecheckBatch = 1
  MaxWrites = 1
  MaxAborts = 2
INVARIANTS StableDifferenceFound NoFalseAlarm TransientDropped SnapshotExact CheckpointSound
PROPERTY ContractSpec
