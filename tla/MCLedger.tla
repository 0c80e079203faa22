------------------------------ MODULE MCLedger ------------------------------
(* Ledger on small tables, for TLC. *)
EXTENDS Ledger, TLC

CONSTANTS Income, Expense

CategoryBodies    == UpdateCategoryDto
TransactionBodies == UpdateTransactionDto

\* Users, ids, names, types and clients are interchangeable: no definition
\* names one of them.
Symmetry == Permutations(User) \cup Permutations(CategoryId) \cup Permutations(TransactionId)
            \cup Permutations(Name) \cup Permutations(Type) \cup Permutations(Client)
=============================================================================
