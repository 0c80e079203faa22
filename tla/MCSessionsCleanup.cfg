SPECIFICATION FairSpec
CONSTANTS
  User = {u1}
  SessionId = {s1}
  Token = {t1, t2}
  Client = {c1, c2}
  None = None
  RefreshTTL = 1
  AccessTTL = 1
  MaxTime = 2
  MayFail = TRUE
PROPERTIES
  ExpiredSessionsGo
