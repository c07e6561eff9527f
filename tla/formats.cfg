CONSTANTS
  Majors = 5
  Immediate = 2
  Widths <- MCWidths
  Reserved = 1
  KeyLen = 2
  NonceLen = 1
  SigLen = 3
  IndexLen = 2
  HeaderLen = 2
  MaxFrame = 20
  MaxRequest = 10
  ChunkSize = 2
  MinTags = 2
  Bits = 3
  Poly = 3
  ByteBits = 2
  Difficulty = 3
  Device = {"d1", "d2", "d3"}
  Witness = {"w1", "w2", "w3"}
SPECIFICATION Spec
INVARIANTS
  CodecExact
  
  AnySegments
  RoutesGuarded
  ParamsFound
  AddresseesOpen
  OpenedIsSigned
  StreamExact
  SealedToOne
  WorkMeetsTarget
  PlaceOpens
  CertExact
CHECK_DEADLOCK FALSE
