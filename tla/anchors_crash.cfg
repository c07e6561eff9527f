CONSTANTS
  Proc = {p1, p2}
  MaxSize = 2
  MaxAnchors = 5
  MaxFaults = 2
SPECIFICATION Spec
INVARIANTS
  ChainUnbroken
CHECK_DEADLOCK FALSE
