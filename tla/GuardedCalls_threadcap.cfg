CONSTANTS
  plain = plain
  gated = gated
  banned = banned
  Calls = {c1, c2}
  Args = {plain, gated, banned}
  Rule <- MCRule
  Cap = 1
  NPre = 0
  NPost = 0
  Handler = "immediate"
  Threaded = TRUE
  MaxParallel = 2
SPECIFICATION Spec
INVARIANTS
  CapExactOnThreads
CHECK_DEADLOCK FALSE
