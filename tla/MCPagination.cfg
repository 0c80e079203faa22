SPECIFICATION Spec
CONSTANTS
  Id = {1, 2, 3, 4}
  Key = {1, 2}
  DefaultLimit = 2
  MaxLimit = 2
  None = None
CHECK_DEADLOCK FALSE
INVARIANTS
  TypeOK
  ListedOnce
  NoneSkipped
