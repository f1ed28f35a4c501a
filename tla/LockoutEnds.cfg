SPECIFICATION FairFaultySpec
CONSTANTS
  p1 = p1
  p2 = p2
  Accounts = {"a"}
  Addresses = {"ip"}
  NoAddress = "none"
  Renamed <- RenamedNone
  Requests = {p1,p2}
  MaxFailed = 2
  Lifetime = 2
  MaxCount = 2
PROPERTIES
  LockoutEnds
