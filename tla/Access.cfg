SPECIFICATION AccessSpec
CONSTANTS
  None = None
  Codes = {c1}
  Tokens = {1, 2, 3}
  Requests = {p1, p2}
  CodeTTL = 1
  TokenTTL = 2
  MaxLoginAge = 3
  ReuseWindow = 1
  CodeRetention = 0
  TokenRetention = 0
  PurgeBatch = 1
  MaxTime = 3
  p1 = p1
  p2 = p2
  Processes = {a1, a2, a3}
  MaxKeys = 3
  Keys = {k1}
  PollInterval = 2
  MaxStaleness = 3
  LoadTimeout = 1
  Horizon = 6
  Turns = {1, 2}
  Calls = {1}
  MaxConnects = 2
  MaxInbox = 2
  MaxReplies = 2
INVARIANTS
  OneLivePerLogin
  NoneAfterRevocation
  TheftIsSeen
  OneSigningKey
  RevocationsReach
  AnswersStand
PROPERTIES
  ImplementsLogins
  AnswersArrive
CHECK_DEADLOCK FALSE
