SPECIFICATION Spec
CONSTANTS
  u1 = u1
  p1 = p1
  p2 = p2
  p3 = p3
  p4 = p4
  Accounts = {u1}
  Calls = {p1, p2, p3, p4}
  NoSecret = NoSecret
  MaxFailed = 2
SYMMETRY Symmetry
INVARIANTS
  TypeOK
  NothingHalfDone
  RefusalsAreRecorded
  
  GateHolds
  ShownSecretIsStored
CHECK_DEADLOCK FALSE
