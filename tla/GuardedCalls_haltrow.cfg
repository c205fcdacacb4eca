CONSTANTS
  plain = plain
  gated = gated
  banned = banned
  Calls = {c1, c2}
  Args = {plain, gated, banned}
  Rule <- MCRule
  Cap = 1
  NPre = 1
  NPost = 0
  Handler = "suspending"
  Threaded = FALSE
  MaxParallel = 1
SPECIFICATION Spec
INVARIANTS
  EveryHaltAudited
CHECK_DEADLOCK FALSE
