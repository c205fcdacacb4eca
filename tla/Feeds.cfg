CONSTANTS
  NoRun = NoRun
  NoTag = NoTag
  Unparseable = Unparseable
  Forged = Forged
  Runs = {r1, r2}
  Wasms = {x1}
  MaxEdits = 2
  MaxFaults = 1
  None = None
  Nobody = Nobody
  VerifyWith = TRUE
  MaxBuilds = 2
  Admins = {m1}
  Agents = {a1, a2}
  Users = {u1}
  Targets = {a2, u1}
  AgentOf <- MCAgentOf
  UserOf <- MCUserOf
  MaxBans = 2
  MaxFailures = 1
  UsageAgents = {a1}
  UsageUsers = {}
  Asked <- MCAsked
  Capacity = 0
  Workers = {w1}
  States <- MCStates
  MinRefresh = 1
  SyncAfter = 2
  MaxStaleness = 2
  RejectedRetry = 2
  Timeout = 1
  a1 = a1
  a2 = a2
  u1 = u1
  r1 = r1
  r2 = r2
SPECIFICATION FeedsSpec
INVARIANTS
  OnlyVerifiedEnforced
  EditsAreServed
  BansBind
PROPERTIES
  SpacedAttempts
  FeedsCatchUp
CHECK_DEADLOCK FALSE
