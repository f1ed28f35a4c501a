SPECIFICATION Spec
CONSTANTS
  u1 = u1
  u2 = u2
  p1 = p1
  p2 = p2
  p3 = p3
  Users = {u1, u2}
  Requests = {p1, p2, p3}
  MaxSessions = 2
  MaxStamp = 6
SYMMETRY Symmetry
INVARIANTS
  TypeOK
  RecentSessionsSurvive
  OverflowBound
CHECK_DEADLOCK FALSE
