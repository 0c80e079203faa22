SPECIFICATION Spec
CONSTANTS
  User = {u1, u2}
  CategoryId = {k1, k2}
  TransactionId = {x1}
  Name = {n1, n2}
  Income = Income
  Expense = Expense
  Type = {Income, Expense}
  None = None
  Client = {c1, c2}
  CategoryPatches <- CategoryBodies
  TransactionPatches <- TransactionBodies
  MayFail = TRUE
SYMMETRY Symmetry
PROPERTIES
  ValidatedWhenWritten
