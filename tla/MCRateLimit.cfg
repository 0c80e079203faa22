SPECIFICATION Spec
CONSTANTS
  login = login
  refresh = refresh
  Route = {login, refresh}
  Caller = {p1}
  None = None
  Limit <- LimitOf
  TtlMs <- TtlOf
  MaxTime = 6
  MaxAttempts = 4
CHECK_DEADLOCK FALSE
INVARIANTS
  TypeOK
  FewerThanTwiceTheLimit
PROPERTIES
  RefusedForCause
