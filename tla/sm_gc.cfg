CONSTANTS
  Objs = {o1, o2}
  IDs = {i1, i2}
  Kinds = {"addr"}
  Keys = {}
  None = None
  MaxSessions = 2
  IdleTimeout = 1
  MaxClock = 3
SPECIFICATION FairSpec
PROPERTIES ImplementsStore IdleCollected
CHECK_DEADLOCK FALSE
