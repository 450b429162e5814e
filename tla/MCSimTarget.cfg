SPECIFICATION Spec
CONSTANTS
  b1 = b1
  b2 = b2
  Bufs <- MCBufs
  NoBuf = NoBuf
  MaxOps = 3
  InCap = 1
  OutCap = 1
INVARIANTS TransfersAreCurrent 
PROPERTIES ProgramsEnd
CHECK_DEADLOCK FALSE
