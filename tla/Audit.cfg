SPECIFICATION FairSpec
CONSTANTS
  cli = cli
  mcp = mcp
  c1 = c1
  m1 = m1
  m2 = m2
  NoCaller = NoCaller
  NoSession = NoSession
  Sessions <- MCSessions
  Callers <- MCCallers
  Home <- MCHome
  Writers <- MCWriters
  RetentionDays = 1
  Fsync = TRUE
  MaxSeq = 2
  MaxDay = 2
  MaxFaults = 1
INVARIANTS LinesWhole AcceptedOnDisk WritesAudited KeptForRetention
PROPERTY RecordReturns
CHECK_DEADLOCK FALSE
