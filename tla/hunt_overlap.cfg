CONSTANTS
  Proc = {p1, p2}
  anna = anna
  ben = ben
  Contact <- MCContact
  Clue <- MCClue
  Suite <- MCSuite
  MaxOps = 7
  MaxFaults = 1
SPECIFICATION Spec
INVARIANTS
  HuntInv
  SeededOnce
  
SYMMETRY Symmetry
CHECK_DEADLOCK FALSE
