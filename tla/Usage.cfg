CONSTANTS
  None = None
  Agents = {}
  Users = {u1, u2}
  Asked <- MCUserPaths
  Capacity = 1
  Callers = {t1}
  Workers = {w1}
  States = {1, 2, 3, 4}
  MinRefresh = 1
  SyncAfter = 1
  MaxStaleness = 1
  RejectedRetry = 1
  Timeout = 0
  Runs = {r1, r2}
  Others = {e1}
  RunsCap = 1
  RunsWindow = 2
  Margin = 2
  SnapshotAge = 2
  OnUnavailable = "allow"
  Lag = 1
  ReadTimeout = 0
  MemoTTL = 1
  MaxNow = 3
  Saves <- MCSaves
  Threads = {1, 2}
  Senders = {1, 2}
  Shutdowns = {1}
  MaxQueue = 2
  MaxBatch = 1
  MaxEvents = 3
  MaxTimeouts = 1
  Clients = {1, 2}
  Versions = {1, 2}
  DocumentTTL = 1
  FailureTTL = 1
  MaxStale = 2
  FetchTimeout = 1
  MaxEntries = 1
  Horizon = 5
SPECIFICATION UsageSpec
INVARIANTS
  InFlightHasJob
  NeverUndercounts
  WindowsHold
  NothingForgotten
  RunsSeeTheirPolicy
  ClientsLive
PROPERTIES
  AdmittedBelowCap
SYMMETRY Symmetric
CHECK_DEADLOCK FALSE
