CONSTANTS
  Objs = {o1, o2}
  IDs = {i1, i2}
  None = None
  MaxSessions = 2
  Patchers = {p1, p2}
  ResultCallback = TRUE
  MaxActiveStreams = 1
SPECIFICATION FairSpec
INVARIANTS CoordinatorInv StartedIsReady
PROPERTIES EventuallyReleased
CHECK_DEADLOCK FALSE
