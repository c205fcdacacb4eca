CONSTANTS
  p1 = p1
  p2 = p2
  Nobody = Nobody
  Window = 2
  MaxEntries = 9
  MaxSkew = 0
  Spans <- MCClocks
  Sinks <- MCSinks
  Rejected = "reject"
  Jobs = {j1}
  Skewed <- MCFast
  Ahead = 9
  RetryHorizon = 1
  MaxLag = 4
  MaxNow = 4
  MaxCopies = 2
  MaxRecords = 3
  MaxFaults = 0
SPECIFICATION Spec
INVARIANTS
  CatchUpDedups
CHECK_DEADLOCK FALSE
