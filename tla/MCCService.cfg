SPECIFICATION Spec
CONSTANTS
  Clients = {1, 2}
  Fds = {1, 2}
  Requests <- MCRequests
  MaxTasks = 2
CHECK_DEADLOCK FALSE
INVARIANTS
  ResultsAreRight
  ThreadsOutliveTasks
PROPERTIES
  ClientsAreServed
