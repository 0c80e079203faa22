SPECIFICATION FairSpec
CONSTANTS
  e1 = e1
  Email = {e1, e2}
  UserId = {u1, u2}
  c1 = c1
  c2 = c2
  c3 = c3
  Client = {c1, c2, c3}
  Unlucky = {c1}
  None = None
  PoolSize = 2
  AdminEmail = e1
INVARIANTS
  TypeOK
  Onboarded
  EmailsUnique
PROPERTIES
  RegistrationAnswered
  EmailGetsRegistered
  ImplementsContract
