CONSTANTS
  None = None
  Values = {1, 2}
  Calls = {1, 2}
  Tools = {"pay", "run"}
  Reserved = {"run"}
  BoundaryNames = {b1, b2}
  CapabilityNames = {c1, c2}
  BoundaryForms <- MCBoundaries
  CapabilityForms <- MCCapabilities
  Roles = {r1}
  DefaultRole = default
  Agents = {a}
  AnyAgent = any
  StoredAgents = {a1, a2}
  Caps = {k1}
  Requests = {p1, p2}
  Users = {u1, u2}
  Founder = u1
  AskedRoles = {0, 2}
  Invites = {1}
  Keys = {1}
  Threads = {p1, p2}
  Hashes = {h1, h2}
  Instances = {1, 2, 3}
  Locks = {1, 2, 3}
  MaxEntries = 1
  MaxHeap = 3
  Unknown = Unknown
SPECIFICATION ProjectSpec
INVARIANTS
  EnginesAgreeOnAnyone
CHECK_DEADLOCK FALSE
