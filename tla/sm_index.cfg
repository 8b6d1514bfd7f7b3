CONSTANTS
  Objs = {o1, o2, o3}
  IDs = {i1, i2, i3}
  Kinds = {"addr", "ssrc"}
  Keys = {k1, k2}
  None = None
  MaxSessions = 2
  IdleTimeout = 1
  MaxClock = 0
SYMMETRY Symmetry
SPECIFICATION Spec
INVARIANTS IInv Counts
PROPERTY EntriesKept
CHECK_DEADLOCK FALSE
