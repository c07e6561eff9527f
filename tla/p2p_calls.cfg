CONSTANTS
  d = d
  noise = noise
  here = here
  there = there
  away = away
  Genuine = {d}
  Cell = {here, there, away}
  target = here
  Home = here
  Ask <- MCAsk
  Initial <- MCInitial
  Payload = {d, noise}
  MaxConns = 2
SPECIFICATION Spec
INVARIANTS
  CallInv
PROPERTIES
  CallsEnd
CHECK_DEADLOCK FALSE
