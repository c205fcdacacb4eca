CONSTANTS
  plain = plain
  gated = gated
  banned = banned
  Calls = {c1, c2, c3}
  Args = {plain, gated, banned}
  Rule <- MCRule
  Cap = 1
  NPre = 1
  NPost = 1
  Handler = "immediate"
  Threaded = FALSE
  MaxParallel = 3
SPECIFICATION HostSpec
INVARIANTS
  TypeOK
  CapExact
  NoUnclearedExecution
  CountersAgree
  OverlapAccounted
PROPERTIES
  OverlapProgresses
CHECK_DEADLOCK FALSE
