CONSTANTS
  Entry = {a, b}
  MaxLeaves = 6
SPECIFICATION Spec
INVARIANTS
  GrowthAccepted
  RootsCommit
  InclusionExact
PROPERTIES
  SeenOnlyGrows
