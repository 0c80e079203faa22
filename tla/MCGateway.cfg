SPECIFICATION FairSpec
CONSTANTS
  u1 = u1
  Instance = {i1, i2}
  Client = {c1, c2}
  User = {u1, u2}
  Seeded = {u1}
  None = None
  MayFail = TRUE
INVARIANTS
  TypeOK
  OneAppPerInstance
PROPERTIES
  AdminsOnly
  RequestAnswered
