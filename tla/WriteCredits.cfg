SPECIFICATION Spec
CONSTANTS
  N_DESTS = 2
  Lens = {6}
  BeatBytes = 2
  PARSE_SIZE = 4
  CntSize = 8
  QDEPTH = 1
  RegDepth = 1
  FifoDepth = 2
  N_OUTSTANDING_REGION = 2
  Ahead = 1
  Backlog = 3
INVARIANTS
  
  BeatsBelongToTheirRequest
PROPERTY
  HeldPiecesAreReleased
