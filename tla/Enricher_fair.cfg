CONSTANTS
  p1 = p1
  p2 = p2
  Nobody = Nobody
  Window = 1
  MaxEntries = 9
  MaxSkew = 0
  Spans <- MCTenants
  Sinks <- MCSinks
  Rejected = "reject"
  Jobs = {j1, j2}
  Skewed <- MCFastTenant
  Ahead = 9
  RetryHorizon = 1
  MaxLag = 0
  MaxNow = 1
  MaxCopies = 2
  MaxRecords = 3
  MaxFaults = 1
SPECIFICATION FairSpec
INVARIANTS
  NothingLost
  OverCountedByAccident
PROPERTIES
  AtLeastOnce
  EventuallyAcknowledged
CHECK_DEADLOCK FALSE
