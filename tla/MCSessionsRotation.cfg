SPECIFICATION Spec
CONSTANTS
  User = {u1, u2}
  SessionId = {s1, s2}
  Token = {t1, t2, t3}
  Client = {c1, c2}
  None = None
  RefreshTTL = 1
  AccessTTL = 1
  MaxTime = 2
  MayFail = FALSE
SYMMETRY Symmetry
PROPERTIES
  RefreshRotates
