SPECIFICATION Spec
CONSTANTS
  u1 = u1
  u2 = u2
  i1 = i1
  i2 = i2
  p1 = p1
  p2 = p2
  Users = {u1, u2}
  Names = {"Auditor", "auditor"}
  Lower <- LowerNames
  Ids = {i1, i2}
  NoId = NoId
  Requests = {p1, p2}
INVARIANTS
  TypeOK
  AuditMatchesRows
  NoTwins
  PermissionIffGranted
PROPERTIES
  CatalogueSpec
