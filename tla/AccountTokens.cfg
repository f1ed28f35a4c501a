SPECIFICATION Spec
CONSTANTS
  u1 = u1
  u2 = u2
  t1 = t1
  t2 = t2
  t3 = t3
  t4 = t4
  p1 = p1
  p2 = p2
  p3 = p3
  Users = {u1, u2}
  Tokens = {t1, t2, t3, t4}
  NoToken = NoToken
  Requests = {p1, p2, p3}
SYMMETRY Symmetry
INVARIANTS
  TypeOK
  UnverifiedCanVerify
  SpentBound
PROPERTIES
  VerificationIsPermanent
  VerificationSlotSpec
  ResetSlotSpec
CHECK_DEADLOCK FALSE
