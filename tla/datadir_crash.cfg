CONSTANTS
  Base = 3
  HeaderLen = 2
  Proc = {p1}
  d1 = d1
  d2 = d2
  r1 = r1
  Local = {d1, d2}
  Remote = {r1}
  Envelope <- MCEnvelope
  ChunkCount <- MCChunkCount
  MaxOps = 2
  MaxFaults = 1
SPECIFICATION Spec
INVARIANTS
  EntriesAreEnvelopes
