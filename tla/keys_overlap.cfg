CONSTANTS
  Proc = {p1, p2}
  MaxOps = 4
  MaxFaults = 1
SPECIFICATION Spec
PROPERTIES
  KeptFromLater
CHECK_DEADLOCK FALSE
