SPECIFICATION FairSpec
CONSTANTS
  u1 = u1
  f1 = f1
  p1 = p1
  p2 = p2
  Users = {u1}
  NoUser = NoUser
  Families = {f1}
  Requests = {p1, p2}
  MaxSerial = 4
  MaxPassword = 3
INVARIANTS
  ExchangeBound
  NoCircularWait
PROPERTIES
  ExchangedIsRefused
  RequestsComplete
