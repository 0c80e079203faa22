--------------------------- MODULE LedgerContract ---------------------------
(***************************************************************************)
(* What the categories and transactions services promise, as one atomic    *)
(* operation per request: a request either has no effect or has exactly    *)
(* the effect of one of these actions.  Who asks, how many queries it      *)
(* takes, how requests interleave and how they fail is the business of     *)
(* module Ledger, which implements this one.                               *)
(***************************************************************************)

CONSTANTS User,            \* accounts
          CategoryId,      \* the uuids categories may get
          TransactionId,   \* the uuids transactions may get
          Name,            \* normalized category names
          Type,            \* INCOME, EXPENSE
          None             \* no row

VARIABLES categories,      \* table "Category": id -> row, or None
          transactions,    \* table "Transaction": id -> row, or None
          issued           \* uuids the tables ever held: none is issued twice

tables == <<categories, transactions, issued>>

CategoryRow    == [user : User, name : Name, type : Type]
TransactionRow == [user : User, category : CategoryId, type : Type]

References(x, k)  == transactions[x] # None /\ transactions[x].category = k
Referenced(k)     == \E x \in TransactionId : References(x, k)
NameFree(u, n, k) == \A j \in CategoryId \ {k} :
                       categories[j] # None => categories[j].user # u \/ categories[j].name # n

Init == /\ categories = [k \in CategoryId |-> None]
        /\ transactions = [x \in TransactionId |-> None]
        /\ issued = {}

AddCategory(k, row) ==
  /\ k \notin issued
  /\ NameFree(row.user, row.name, k)
  /\ categories' = [categories EXCEPT ![k] = row]
  /\ issued' = issued \cup {k}
  /\ UNCHANGED transactions

\* A category changes its name and its type, never its owner.
ChangeCategory(k, row) ==
  /\ categories[k] # None
  /\ row.user = categories[k].user
  /\ NameFree(row.user, row.name, k)
  /\ categories' = [categories EXCEPT ![k] = row]
  /\ UNCHANGED <<transactions, issued>>

DropCategory(k) ==
  /\ categories[k] # None
  /\ ~Referenced(k)
  /\ categories' = [categories EXCEPT ![k] = None]
  /\ UNCHANGED <<transactions, issued>>

OwnsCategory(u, k) == categories[k] # None /\ categories[k].user = u

AddTransaction(x, row) ==
  /\ x \notin issued
  /\ OwnsCategory(row.user, row.category)
  /\ transactions' = [transactions EXCEPT ![x] = row]
  /\ issued' = issued \cup {x}
  /\ UNCHANGED categories

\* A transaction changes its category and its type, never its owner.
ChangeTransaction(x, row) ==
  /\ transactions[x] # None
  /\ row.user = transactions[x].user
  /\ OwnsCategory(row.user, row.category)
  /\ transactions' = [transactions EXCEPT ![x] = row]
  /\ UNCHANGED <<categories, issued>>

DropTransaction(x) ==
  /\ transactions[x] # None
  /\ transactions' = [transactions EXCEPT ![x] = None]
  /\ UNCHANGED <<categories, issued>>

Next ==
  \/ \E k \in CategoryId :
       \/ \E row \in CategoryRow : AddCategory(k, row) \/ ChangeCategory(k, row)
       \/ DropCategory(k)
  \/ \E x \in TransactionId :
       \/ \E row \in TransactionRow : AddTransaction(x, row) \/ ChangeTransaction(x, row)
       \/ DropTransaction(x)

Spec == Init /\ [][Next]_tables
=============================================================================
