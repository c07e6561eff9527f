CONSTANTS
  maker = maker
  other = other
  parcel = parcel
  Node = {maker, other}
  Genuine = {parcel}
  Origin <- MCOrigin
  ChunkCount <- MCChunkCount
  MaxOps = 3
  MaxFaults = 1
SPECIFICATION Spec
INVARIANTS
  ServerInv
  PushedIsHeld
  FirstHandWhole
PROPERTIES
  CommandsEnd
CHECK_DEADLOCK FALSE
