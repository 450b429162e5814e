CONSTANTS
  Suites <- MCSuites
  None = None
  InLen = 1
  Outs <- MCOuts
  PIPE = 1
SPECIFICATION Spec
CHECK_DEADLOCK FALSE
INVARIANTS
  
  FailureHasACause
PROPERTY
  TestsEnd
