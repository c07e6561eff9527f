CONSTANTS
  Proc = {p1}
  anna = anna
  ben = ben
  Contact <- MCContact
  Clue <- MCClue
  Suite <- MCSuite
  MaxOps = 7
  MaxFaults = 0
SPECIFICATION Spec
CHECK_DEADLOCK FALSE
INVARIANTS
  CreatedIsRecorded
