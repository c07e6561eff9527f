CONSTANTS
  d = d
  noise = noise
  here = here
  there = there
  away = away
  Genuine = {d}
  Cell = {here, there, away}
  target = here
  Home = here
  Ask <- MCAsk
  Initial <- MCInitial
  Payload = {d, noise}
  MaxConns = 2
SPECIFICATION Spec
PROPERTIES
  PublishEnds
CHECK_DEADLOCK FALSE
