SPECIFICATION FairSpec
CONSTANTS
  None = None
  CThreads = {a, b}
  Last = 2
INVARIANTS
  DeliveredOnce
PROPERTIES
  NotificationsArrive
  DestructorsFinish
CHECK_DEADLOCK FALSE
