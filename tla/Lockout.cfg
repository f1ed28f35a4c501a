SPECIFICATION Spec
CONSTANTS
  p1 = p1
  p2 = p2
  Accounts = {"failed", "lockout"}
  Addresses = {"ip"}
  NoAddress = "none"
  Renamed <- RenamedFailed
  Requests = {p1,p2}
  MaxFailed = 2
  Lifetime = 2
  MaxCount = 3
SYMMETRY Symmetry
INVARIANTS
  TypeOK
  LimitLocks
  LateGuessBound
  NoImmortalCounter
