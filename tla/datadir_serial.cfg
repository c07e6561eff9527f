CONSTANTS
  Base = 3
  HeaderLen = 2
  Proc = {p1}
  d1 = d1
  d2 = d2
  r1 = r1
  Local = {d1, d2}
  Remote = {r1}
  Envelope <- MCEnvelope
  ChunkCount <- MCChunkCount
  MaxOps = 5
  MaxFaults = 0
SPECIFICATION Spec
INVARIANTS
  LogIsAcks
