SPECIFICATION Spec
CONSTANTS
  u1 = u1
  f1 = f1
  p1 = p1
  p2 = p2
  NoUser = NoUser
  Users = {u1}
  Families = {f1}
  Requests = {p1, p2}
  MaxSerial = 4
  MaxPassword = 2
INVARIANTS
  ReuseRevokesFamily
