SPECIFICATION Spec
CONSTANTS
  Shells <- MCShells
  NEngines = 2
  MaxFails = 1
  Procs = {"p", "q"}
  MaxOps = 4
CHECK_DEADLOCK FALSE
INVARIANTS
  
  DecouplingFollowsTheWrite
  BuffersAreKept
PROPERTY
  CallsReturn
