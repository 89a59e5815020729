SPECIFICATION Spec
CONSTANTS
  Tables <- MCTables
  Files <- MCFiles
  RowsIn <- MCRows
  SelfRefs <- MCSelfRefs
  Requests <- MCRequests
  ForeignKeys <- MCForeignKeys
  MaxRuns = 3
  MaxFaults = 2
INVARIANTS ParentsFirst CyclesRefused ForeignKeysHold AllOrNothing CompletedIsPrefix
CHECK_DEADLOCK FALSE
