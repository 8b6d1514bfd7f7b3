CONSTANTS
  Objs = {o1, o2}
  IDs = {i1, i2}
  None = None
  MaxSessions = 2
  Patchers = {p1}
  ResultCallback = TRUE
  MaxActiveStreams = 1
SPECIFICATION Spec
INVARIANTS SinksUntilClose
CHECK_DEADLOCK FALSE
