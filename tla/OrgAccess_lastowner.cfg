CONSTANTS
  None = None
  Users = {u1, u2}
  Founder = u1
  Roles = {0, 2}
  Invites = {1}
  Keys = {}
  Requests = {p1, p2}
SPECIFICATION Spec
INVARIANTS
  AtLeastOneOwner
CHECK_DEADLOCK FALSE
