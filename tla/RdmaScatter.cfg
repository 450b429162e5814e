SPECIFICATION Spec
CONSTANTS
  Lens = {2, 3}
  Beat = 2
  Window = 2
  FifoDepth = 2
  SqDepth = 1
INVARIANTS
  StreamsStayApart
  PacedWritesScatterInOrder
  NeverStuck
