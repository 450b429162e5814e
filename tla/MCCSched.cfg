SPECIFICATION FairSpec
CONSTANTS
  c1 = c1
  c2 = c2
  f1 = f1
  f2 = f2
  b1 = b1
  b2 = b2
  NoBitstream = NoBitstream
  NoRequest = NoRequest
  Clients = {c1, c2}
  Tids = {1, 2}
  TidsOf <- MCTidsOf
  MayLackCThread = {c2}
  Fids = {f1, f2}
  Bitstreams = {b1, b2}
  BitstreamOf <- MCBitstreamOf
  Preloaded = {b1}
  Given = {NoBitstream, b1}
  Users = {u1}
  Vfid = 0
  Crid = 0
INVARIANTS
  
  EarlyRegistrationIsSafe
PROPERTIES
  PolicyIsKept
  ImplementsTaskQueue
  SubmittedTasksComplete
CHECK_DEADLOCK FALSE
