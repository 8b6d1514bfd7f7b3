CONSTANTS
  Objs = {o1, o2, o3}
  Calls = {c1}
  Answers = {a1, a2}
  Deletes = {d1}
  Ports = {p1, p2}
  IDs <- CallLegs
  None = None
  MaxSessions = 2
SPECIFICATION FairSpec
INVARIANTS CallControlInv PortsConserved
PROPERTIES RefusedLeavesNothing
CHECK_DEADLOCK FALSE
