SPECIFICATION FairSpec
CONSTANTS
  c1 = c1
  c2 = c2
  probe = probe
  Names <- MCNames
  Default = "default"
  Lazy = {"other"}
  Callers <- MCCallers
  Probe = probe
  MaxCalls = 7
  MaxFailures = 2
INVARIANTS PoolsBounded
PROPERTIES FailsOnlyByItself CallsEnd
CHECK_DEADLOCK FALSE
