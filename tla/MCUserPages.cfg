SPECIFICATION Spec
CONSTANTS
  Ctids = {"t1"}
  Proc <- MCProc
  Sides = {"rd"}
  Reqs <- MCReqs
  Moves <- MCMoves
  FaultPages = {0}
  DmaPages = {3}
  NBuckets = 2
  NChunks = 3
  MaxOps = 3
  MaxFaults = 1
CHECK_DEADLOCK FALSE
INVARIANTS
  AccessesAreSafe
  MappingsAreCurrent
  UnregisteredIsClean
PROPERTY
  NobodyHangs
