CONSTANTS
  NoRun = NoRun
  NoTag = NoTag
  Unparseable = Unparseable
  Forged = Forged
  Runs = {r1, r2}
  Wasms = {w1}
  MaxEdits = 2
  MaxFaults = 0
SPECIFICATION Spec
PROPERTIES
  EnforcerNeverRegresses
CHECK_DEADLOCK FALSE
