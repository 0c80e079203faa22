---------------------------- MODULE LedgerProofs ----------------------------
(***************************************************************************)
(* IndInv is inductive, so the invariants of Ledger hold for every number  *)
(* of clients, users, ids and names, and Ledger implements LedgerContract. *)
(*                                                                         *)
(* A step changes one request and at most one table.  A step that changes  *)
(* no table only has to leave a well typed, authorized request             *)
(* (RequestStep).  A step that writes has to preserve the tables'          *)
(* invariants, and what the OTHER requests in flight count on              *)
(* (...KeepsAuthorized).                                                   *)
(***************************************************************************)
EXTENDS Ledger, TLAPS

\* The idle request is well typed and counts on nothing.
LEMMA IdleIsAuthorized ==
  ASSUME NEW reply \in Reply
  PROVE  Idle(reply) \in Request /\ Authorized(Idle(reply))
BY DEF Idle, Request, Optional, Authorized

\* A step that leaves the tables alone preserves IndInv when the request it
\* leaves is well typed and authorized.
LEMMA RequestStep ==
  ASSUME IndInv, UNCHANGED tables,
         NEW c \in Client, NEW r \in Request, Authorized(r),
         req' = [req EXCEPT ![c] = r]
  PROVE  IndInv'
<1> USE DEF IndInv, tables
<1>1. TypeOK'
  BY DEF TypeOK
<1>2. ReferentialIntegrity' /\ OwnershipAgrees' /\ NamesUnique' /\ IdsIssued'
  BY DEF ReferentialIntegrity, OwnershipAgrees, NamesUnique, IdsIssued
<1>3. RequestsStayAuthorized'
  <2>1. ASSUME NEW d \in Client PROVE req'[d] \in {r, req[d]}
    BY DEF TypeOK
  <2>2. ASSUME NEW d \in Client PROVE Authorized(req[d])'
    <3>1. Authorized(r)'
      BY DEF Authorized, HoldsCategory, HoldsTransaction
    <3>2. CASE req'[d] = r
      BY <3>1, <3>2 DEF Authorized, HoldsCategory, HoldsTransaction
    <3>3. CASE req'[d] = req[d]
      BY <3>3 DEF RequestsStayAuthorized, Authorized, HoldsCategory, HoldsTransaction
    <3> QED BY <2>1, <3>2, <3>3
  <2> QED BY <2>2 DEF RequestsStayAuthorized
<1> QED BY <1>1, <1>2, <1>3

\* So does a step that only answers.
LEMMA AnswerStep ==
  ASSUME IndInv, UNCHANGED tables, NEW c \in Client, NEW reply \in Reply, Answer(c, reply)
  PROVE  IndInv'
BY IdleIsAuthorized, RequestStep DEF Answer

\* A uuid handed out before the step keeps its owner, or loses its row for good.
OwnersKept ==
  /\ issued \subseteq issued'
  /\ \A k \in CategoryId \cap issued :
       categories'[k] # None => categories[k] # None /\ categories'[k].user = categories[k].user
  /\ \A x \in TransactionId \cap issued :
       transactions'[x] # None =>
         transactions[x] # None /\ transactions'[x].user = transactions[x].user

\* A writing step that keeps the owners keeps the other requests authorized.
LEMMA WriteKeepsAuthorized ==
  ASSUME IndInv, OwnersKept, NEW c \in Client, Written(c)
  PROVE  RequestsStayAuthorized' /\ req' \in [Client -> Request]
<1>0. PICK reply \in Reply : Answer(c, reply)
  BY DEF Written, Reply
<1>1. req' \in [Client -> Request]
  BY <1>0, IdleIsAuthorized DEF IndInv, TypeOK, Answer
<1>2. ASSUME NEW d \in Client PROVE Authorized(req[d])'
  <2>1. CASE d = c
    <3>1. req'[d] = Idle(reply)
      BY <1>0, <2>1 DEF IndInv, TypeOK, Answer
    <3> QED BY <3>1 DEF Idle, Authorized
  <2>2. CASE d # c
    <3>1. req'[d] = req[d]
      BY <1>0, <2>2 DEF IndInv, TypeOK, Answer
    <3>2. Authorized(req[d])
      BY DEF IndInv, RequestsStayAuthorized
    <3>3. HoldsCategory(req[d]) => HoldsCategory(req[d])'
      BY <3>1 DEF HoldsCategory, OwnersKept
    <3>4. HoldsTransaction(req[d]) => HoldsTransaction(req[d])'
      BY <3>1 DEF HoldsTransaction, OwnersKept
    <3>5. CheckedCategory(req[d]) \in issued => CheckedCategory(req'[d]) \in issued'
      BY <3>1 DEF OwnersKept
    <3> QED BY <3>1, <3>2, <3>3, <3>4, <3>5 DEF Authorized
  <2> QED BY <2>1, <2>2
<1> QED BY <1>1, <1>2 DEF RequestsStayAuthorized

-----------------------------------------------------------------------------
(* Arrivals: the first statement reads, and authorizes the request.        *)

LEMMA ArriveStep ==
  ASSUME IndInv, NEW c \in Client, Arrive(c)
  PROVE  IndInv'
<1> USE NoneIsFresh DEF Optional
<1>1. ASSUME NEW u \in User, NEW n \in Name, NEW t \in Type, CreateCategory(c, u, n, t)
      PROVE  IndInv'
  <2> DEFINE r == [Idle("NONE") EXCEPT !.at = "insertCategory", !.user = u, !.name = n, !.type = t]
  <2>1. r \in Request /\ Authorized(r)
    BY DEF Idle, Request, Statement, Reply, Authorized
  <2>2. CASE Answer(c, "CATEGORY_ALREADY_EXISTS")
    BY <1>1, <2>2, AnswerStep DEF CreateCategory, Reply
  <2>3. CASE Await(c, r)
    BY <1>1, <2>1, <2>3, RequestStep DEF CreateCategory, Await
  <2> QED BY <1>1, <2>2, <2>3 DEF CreateCategory
<1>2. ASSUME NEW u \in User, NEW k \in CategoryId, NEW patch \in CategoryPatches,
             UpdateCategory(c, u, k, patch)
      PROVE  IndInv'
  <2> DEFINE r == [Idle("NONE") EXCEPT
                     !.at = IF patch.name = None THEN "updateCategory" ELSE "checkName",
                     !.user = u, !.category = k, !.name = patch.name, !.type = patch.type]
  <2>1. r \in Request /\ Authorized(r)
    BY PatchesTyped DEF UpdateCategoryDto, UpdateTransactionDto, Idle, Request, Statement, Reply, Authorized
  <2>2. CASE Answer(c, "CATEGORY_NOT_FOUND")
    BY <1>2, <2>2, AnswerStep DEF UpdateCategory, Reply
  <2>3. CASE Await(c, r)
    BY <1>2, <2>1, <2>3, RequestStep DEF UpdateCategory, Await
  <2> QED BY <1>2, <2>2, <2>3 DEF UpdateCategory
<1>3. ASSUME NEW u \in User, NEW k \in CategoryId, RemoveCategory(c, u, k)
      PROVE  IndInv'
  <2> DEFINE r == [Idle("NONE") EXCEPT !.at = "countTransactions", !.user = u, !.category = k]
  <2>1. r \in Request /\ Authorized(r)
    BY DEF Idle, Request, Statement, Reply, Authorized
  <2>2. CASE Answer(c, "CATEGORY_NOT_FOUND")
    BY <1>3, <2>2, AnswerStep DEF RemoveCategory, Reply
  <2>3. CASE Await(c, r)
    BY <1>3, <2>1, <2>3, RequestStep DEF RemoveCategory, Await
  <2> QED BY <1>3, <2>2, <2>3 DEF RemoveCategory
<1>4. ASSUME NEW u \in User, NEW k \in CategoryId, NEW t \in Type, CreateTransaction(c, u, k, t)
      PROVE  IndInv'
  <2> DEFINE r == [Idle("NONE") EXCEPT !.at = "insertTransaction", !.user = u,
                                       !.category = k, !.type = t]
  <2>1. CASE Answer(c, "TRANSACTION_CATEGORY_INVALID")
    BY <1>4, <2>1, AnswerStep DEF CreateTransaction, Reply
  <2>2. CASE CategoryMatches(u, k, t) /\ Await(c, r)
    <3>1. k \in issued /\ categories[k].user = u
      BY <2>2 DEF CategoryMatches, OwnCategory, IndInv, IdsIssued
    <3>2. r \in Request /\ Authorized(r)
      BY <3>1 DEF Idle, Request, Statement, Reply, Authorized, HoldsCategory
    <3> QED BY <1>4, <2>2, <3>2, RequestStep DEF CreateTransaction, Await
  <2> QED BY <1>4, <2>1, <2>2 DEF CreateTransaction
<1>5. ASSUME NEW u \in User, NEW x \in TransactionId, NEW patch \in TransactionPatches,
             UpdateTransaction(c, u, x, patch)
      PROVE  IndInv'
  <2> DEFINE r == [Idle("NONE") EXCEPT !.at = "checkCategory", !.user = u, !.transaction = x,
                                       !.category = patch.category, !.type = patch.type,
                                       !.seen = transactions[x]]
  <2>1. CASE Answer(c, "TRANSACTION_NOT_FOUND")
    BY <1>5, <2>1, AnswerStep DEF UpdateTransaction, Reply
  <2>2. CASE OwnTransaction(u, x) /\ Await(c, r)
    <3>1. x \in issued /\ transactions[x].user = u /\ transactions[x] \in TransactionRow
      BY <2>2 DEF OwnTransaction, IndInv, IdsIssued, TypeOK
    <3>2. r \in Request /\ Authorized(r)
      BY <3>1, PatchesTyped DEF UpdateTransactionDto, Idle, Request, Statement, Reply, Authorized,
                              HoldsTransaction
    <3> QED BY <1>5, <2>2, <3>2, RequestStep DEF UpdateTransaction, Await
  <2> QED BY <1>5, <2>1, <2>2 DEF UpdateTransaction
<1>6. ASSUME NEW u \in User, NEW x \in TransactionId, RemoveTransaction(c, u, x)
      PROVE  IndInv'
  <2> DEFINE r == [Idle("NONE") EXCEPT !.at = "deleteTransaction", !.user = u, !.transaction = x]
  <2>1. CASE Answer(c, "TRANSACTION_NOT_FOUND")
    BY <1>6, <2>1, AnswerStep DEF RemoveTransaction, Reply
  <2>2. CASE OwnTransaction(u, x) /\ Await(c, r)
    <3>1. x \in issued /\ transactions[x].user = u
      BY <2>2 DEF OwnTransaction, IndInv, IdsIssued
    <3>2. r \in Request /\ Authorized(r)
      BY <3>1 DEF Idle, Request, Statement, Reply, Authorized, HoldsTransaction
    <3> QED BY <1>6, <2>2, <3>2, RequestStep DEF RemoveTransaction, Await
  <2> QED BY <1>6, <2>1, <2>2 DEF RemoveTransaction
<1> QED BY <1>1, <1>2, <1>3, <1>4, <1>5, <1>6 DEF Arrive

-----------------------------------------------------------------------------
(* The statements that only read.                                          *)

LEMMA AdvanceStep ==
  ASSUME IndInv, UNCHANGED tables, NEW c \in Client, NEW statement \in Statement,
         Advance(c, statement), Authorized([req[c] EXCEPT !.at = statement])
  PROVE  IndInv'
<1> DEFINE r == [req[c] EXCEPT !.at = statement]
<1>1. r \in Request
  BY DEF IndInv, TypeOK, Request
<1>2. req' = [req EXCEPT ![c] = r]
  BY DEF IndInv, TypeOK, Advance, Request
<1> QED BY <1>1, <1>2, RequestStep

LEMMA ReadStep ==
  ASSUME IndInv, NEW c \in Client, CheckName(c) \/ CountTransactions(c) \/ CheckCategory(c)
  PROVE  IndInv'
<1> USE NoneIsFresh DEF Optional
<1>0. req[c] \in Request /\ Authorized(req[c])
  BY DEF IndInv, TypeOK, RequestsStayAuthorized
<1>1. CASE CheckName(c)
  <2>1. Authorized([req[c] EXCEPT !.at = "updateCategory"])
    BY <1>0, <1>1 DEF CheckName, At, Authorized, Request, HoldsCategory, HoldsTransaction
  <2>2. CASE Answer(c, "CATEGORY_ALREADY_EXISTS")
    BY <1>1, <2>2, AnswerStep DEF CheckName, Reply
  <2>3. CASE Advance(c, "updateCategory")
    BY <1>1, <2>1, <2>3, AdvanceStep DEF CheckName, Statement
  <2> QED BY <1>1, <2>2, <2>3 DEF CheckName
<1>2. CASE CountTransactions(c)
  <2>1. Authorized([req[c] EXCEPT !.at = "deleteCategory"])
    BY <1>0, <1>2 DEF CountTransactions, At, Authorized, Request, HoldsCategory, HoldsTransaction
  <2>2. CASE Answer(c, "CATEGORY_IN_USE")
    BY <1>2, <2>2, AnswerStep DEF CountTransactions, Reply
  <2>3. CASE Advance(c, "deleteCategory")
    BY <1>2, <2>1, <2>3, AdvanceStep DEF CountTransactions, Statement
  <2> QED BY <1>2, <2>2, <2>3 DEF CountTransactions
<1>3. CASE CheckCategory(c)
  <2>1. CASE Answer(c, "TRANSACTION_CATEGORY_INVALID")
    BY <1>3, <2>1, AnswerStep DEF CheckCategory, Reply
  <2>2. CASE /\ CategoryMatches(req[c].user, CheckedCategory(req[c]), CheckedType(req[c]))
             /\ Advance(c, "updateTransaction")
    <3>1. req[c].category # None =>
            /\ req[c].category \in CategoryId
            /\ OwnCategory(req[c].user, req[c].category)
      BY <1>0, <2>2 DEF CategoryMatches, CheckedCategory, Given, Request
    <3>2. HoldsTransaction(req[c]) /\ req[c].user \in User /\ req[c].seen \in TransactionRow
      BY <1>0, <1>3 DEF CheckCategory, At, Authorized
    <3>3. req[c].category # None => HoldsCategory(req[c])
      BY <3>1 DEF HoldsCategory, OwnCategory, IndInv, IdsIssued
    <3>4. CheckedCategory(req[c]) \in issued
      <4>1. CheckedCategory(req[c]) \in CategoryId
        BY <1>0, <3>2 DEF CheckedCategory, Given, Request, TransactionRow
      <4> QED BY <2>2, <4>1 DEF CategoryMatches, OwnCategory, IndInv, IdsIssued
    <3>5. Authorized([req[c] EXCEPT !.at = "updateTransaction"])
      BY <1>0, <3>2, <3>3, <3>4 DEF Authorized, CheckedCategory, Request, HoldsCategory,
                                    HoldsTransaction
    <3> QED BY <1>3, <2>2, <3>5, AdvanceStep DEF CheckCategory, Statement
  <2> QED BY <1>3, <2>1, <2>2 DEF CheckCategory
<1> QED BY <1>1, <1>2, <1>3

-----------------------------------------------------------------------------
(* The statements that write.                                              *)

LEMMA InsertCategoryStep ==
  ASSUME IndInv, NEW c \in Client, InsertCategory(c)
  PROVE  IndInv'
<1> USE NoneIsFresh DEF Optional
<1>1. PICK k \in CategoryId \ issued :
        LET row == [user |-> req[c].user, name |-> req[c].name, type |-> req[c].type]
        IN \/ /\ UniqueName(row.user, row.name, k)
              /\ categories' = [categories EXCEPT ![k] = row]
              /\ issued' = issued \cup {k}
              /\ Written(c)
              /\ UNCHANGED transactions
           \/ Answer(c, "INTERNAL_SERVER_ERROR") /\ UNCHANGED tables
  BY DEF InsertCategory
<1> DEFINE row == [user |-> req[c].user, name |-> req[c].name, type |-> req[c].type]
<1>2. CASE Answer(c, "INTERNAL_SERVER_ERROR") /\ UNCHANGED tables
  BY <1>2, AnswerStep DEF Reply
<1>3. CASE /\ UniqueName(row.user, row.name, k)
           /\ categories' = [categories EXCEPT ![k] = row]
           /\ issued' = issued \cup {k}
           /\ Written(c)
           /\ UNCHANGED transactions
  <2>1. row \in CategoryRow
    BY DEF IndInv, RequestsStayAuthorized, Authorized, InsertCategory, At, CategoryRow
  <2>2. categories[k] = None
    BY DEF IndInv, IdsIssued
  <2>3. OwnersKept
    BY <1>3, <2>1, <2>2 DEF IndInv, TypeOK, OwnersKept
  <2>4. RequestsStayAuthorized' /\ req' \in [Client -> Request]
    BY <1>3, <2>3, WriteKeepsAuthorized
  <2>5. TypeOK'
    BY <1>3, <2>1, <2>4 DEF IndInv, TypeOK
  <2>6. ReferentialIntegrity' /\ OwnershipAgrees'
    BY <1>3, <2>1, <2>2 DEF IndInv, TypeOK, ReferentialIntegrity, OwnershipAgrees, TransactionRow
  <2>7. NamesUnique'
    BY <1>3, <2>1 DEF IndInv, TypeOK, NamesUnique, UniqueName
  <2>8. IdsIssued'
    BY <1>3, <2>1 DEF IndInv, TypeOK, IdsIssued
  <2> QED BY <2>4, <2>5, <2>6, <2>7, <2>8 DEF IndInv
<1> QED BY <1>1, <1>2, <1>3

LEMMA WriteCategoryStep ==
  ASSUME IndInv, NEW c \in Client, WriteCategory(c)
  PROVE  IndInv'
<1> USE NoneIsFresh DEF Optional
<1> DEFINE r == req[c]
           k == r.category
           row == PatchedCategory(categories[k], r)
<1>1. CASE Answer(c, "INTERNAL_SERVER_ERROR") /\ UNCHANGED tables
  BY <1>1, AnswerStep DEF Reply
<1>2. CASE /\ OwnCategory(r.user, k)
           /\ UniqueName(row.user, row.name, k)
           /\ categories' = [categories EXCEPT ![k] = row]
           /\ Written(c)
           /\ UNCHANGED <<transactions, issued>>
  <2>1. k \in CategoryId /\ categories[k] \in CategoryRow /\ r \in Request
    BY <1>2 DEF IndInv, TypeOK, RequestsStayAuthorized, Authorized, WriteCategory, At, OwnCategory
  <2>2. row \in CategoryRow /\ row.user = categories[k].user
    BY <2>1 DEF PatchedCategory, Given, CategoryRow, Request
  <2>3. OwnersKept
    BY <1>2, <2>1, <2>2 DEF IndInv, TypeOK, OwnersKept
  <2>4. RequestsStayAuthorized' /\ req' \in [Client -> Request]
    BY <1>2, <2>3, WriteKeepsAuthorized
  <2>5. TypeOK'
    BY <1>2, <2>2, <2>4 DEF IndInv, TypeOK
  <2>6. ReferentialIntegrity' /\ OwnershipAgrees'
    BY <1>2, <2>1, <2>2 DEF IndInv, TypeOK, ReferentialIntegrity, OwnershipAgrees, TransactionRow
  <2>7. NamesUnique'
    BY <1>2, <2>1, <2>2 DEF IndInv, TypeOK, NamesUnique, UniqueName
  <2>8. IdsIssued'
    BY <1>2, <2>1 DEF IndInv, TypeOK, IdsIssued, OwnCategory
  <2> QED BY <2>4, <2>5, <2>6, <2>7, <2>8 DEF IndInv
<1> QED BY <1>1, <1>2 DEF WriteCategory

LEMMA DeleteCategoryStep ==
  ASSUME IndInv, NEW c \in Client, DeleteCategory(c)
  PROVE  IndInv'
<1> USE NoneIsFresh DEF Optional
<1> DEFINE k == req[c].category
<1>1. CASE Answer(c, "INTERNAL_SERVER_ERROR") /\ UNCHANGED tables
  BY <1>1, AnswerStep DEF Reply
<1>2. CASE /\ NotReferenced(k)
           /\ categories' = [categories EXCEPT ![k] = None]
           /\ Written(c)
           /\ UNCHANGED <<transactions, issued>>
  <2>1. OwnersKept
    BY <1>2 DEF IndInv, TypeOK, OwnersKept
  <2>2. RequestsStayAuthorized' /\ req' \in [Client -> Request]
    BY <1>2, <2>1, WriteKeepsAuthorized
  <2>3. TypeOK'
    BY <1>2, <2>2 DEF IndInv, TypeOK
  <2>4. ReferentialIntegrity' /\ OwnershipAgrees'
    BY <1>2 DEF IndInv, TypeOK, ReferentialIntegrity, OwnershipAgrees, TransactionRow, NotReferenced
  <2>5. NamesUnique' /\ IdsIssued'
    BY <1>2 DEF IndInv, TypeOK, NamesUnique, IdsIssued
  <2> QED BY <2>2, <2>3, <2>4, <2>5 DEF IndInv
<1> QED BY <1>1, <1>2 DEF DeleteCategory

LEMMA InsertTransactionStep ==
  ASSUME IndInv, NEW c \in Client, InsertTransaction(c)
  PROVE  IndInv'
<1> USE NoneIsFresh DEF Optional
<1> DEFINE k == req[c].category
           row == [user |-> req[c].user, category |-> k, type |-> req[c].type]
<1>1. CASE Answer(c, "INTERNAL_SERVER_ERROR") /\ UNCHANGED tables
  BY <1>1, AnswerStep DEF Reply
<1>2. ASSUME NEW x \in TransactionId \ issued, ReferenceExists(k),
             transactions' = [transactions EXCEPT ![x] = row],
             issued' = issued \cup {x}, Written(c), UNCHANGED categories
      PROVE  IndInv'
  <2>1. row \in TransactionRow /\ categories[k] # None /\ categories[k].user = row.user
    BY <1>2 DEF IndInv, RequestsStayAuthorized, Authorized, InsertTransaction, At, TransactionRow,
                HoldsCategory, ReferenceExists
  <2>2. transactions[x] = None
    BY <1>2 DEF IndInv, IdsIssued
  <2>3. OwnersKept
    BY <1>2, <2>1, <2>2 DEF IndInv, TypeOK, OwnersKept
  <2>4. RequestsStayAuthorized' /\ req' \in [Client -> Request]
    BY <1>2, <2>3, WriteKeepsAuthorized
  <2>5. TypeOK'
    BY <1>2, <2>1, <2>4 DEF IndInv, TypeOK
  <2>6. ReferentialIntegrity' /\ OwnershipAgrees'
    BY <1>2, <2>1 DEF IndInv, TypeOK, ReferentialIntegrity, OwnershipAgrees
  <2>7. NamesUnique' /\ IdsIssued'
    BY <1>2 DEF IndInv, TypeOK, NamesUnique, IdsIssued
  <2> QED BY <2>4, <2>5, <2>6, <2>7 DEF IndInv
<1> QED BY <1>1, <1>2 DEF InsertTransaction

LEMMA WriteTransactionStep ==
  ASSUME IndInv, NEW c \in Client, WriteTransaction(c)
  PROVE  IndInv'
<1> USE NoneIsFresh DEF Optional
<1> DEFINE r == req[c]
           x == r.transaction
           row == PatchedTransaction(transactions[x], r)
<1>1. CASE Answer(c, "INTERNAL_SERVER_ERROR") /\ UNCHANGED tables
  BY <1>1, AnswerStep DEF Reply
<1>2. CASE /\ transactions[x] # None
           /\ ReferenceExists(Given(r.category, transactions[x].category))
           /\ transactions' = [transactions EXCEPT ![x] = PatchedTransaction(@, r)]
           /\ Written(c)
           /\ UNCHANGED <<categories, issued>>
  <2>1. /\ r \in Request
        /\ HoldsTransaction(r)
        /\ r.category # None => HoldsCategory(r)
    BY DEF IndInv, TypeOK, RequestsStayAuthorized, Authorized, WriteTransaction, At
  <2>2. x \in TransactionId /\ transactions[x] \in TransactionRow
    BY <1>2, <2>1 DEF HoldsTransaction, IndInv, TypeOK
  <2>3. row \in TransactionRow /\ row.user = transactions[x].user
    BY <2>1, <2>2 DEF PatchedTransaction, Given, TransactionRow, Request
  <2>4. transactions' = [transactions EXCEPT ![x] = row]
    BY <1>2
  <2>5. categories[row.category] # None /\ categories[row.category].user = row.user
    <3>1. row.category = Given(r.category, transactions[x].category)
      BY <2>2 DEF PatchedTransaction, TransactionRow
    <3>2. CASE r.category = None
      BY <1>2, <2>2, <2>3, <3>1, <3>2 DEF Given, ReferenceExists, IndInv, OwnershipAgrees
    <3>3. CASE r.category # None
      BY <1>2, <2>1, <2>3, <3>1, <3>3 DEF Given, ReferenceExists, HoldsCategory, HoldsTransaction
    <3> QED BY <3>2, <3>3
  <2> HIDE DEF row
  <2>6. OwnersKept
    BY <1>2, <2>2, <2>3, <2>4 DEF IndInv, TypeOK, OwnersKept
  <2>7. RequestsStayAuthorized' /\ req' \in [Client -> Request]
    BY <1>2, <2>6, WriteKeepsAuthorized
  <2>8. TypeOK'
    BY <1>2, <2>3, <2>4, <2>7 DEF IndInv, TypeOK
  <2>9. ReferentialIntegrity' /\ OwnershipAgrees'
    BY <1>2, <2>2, <2>4, <2>5 DEF IndInv, TypeOK, ReferentialIntegrity, OwnershipAgrees
  <2>10. NamesUnique' /\ IdsIssued'
    BY <1>2, <2>1, <2>4 DEF IndInv, TypeOK, NamesUnique, IdsIssued, HoldsTransaction
  <2> QED BY <2>7, <2>8, <2>9, <2>10 DEF IndInv
<1> QED BY <1>1, <1>2 DEF WriteTransaction

LEMMA DeleteTransactionStep ==
  ASSUME IndInv, NEW c \in Client, DeleteTransaction(c)
  PROVE  IndInv'
<1> USE NoneIsFresh DEF Optional
<1> DEFINE x == req[c].transaction
<1>1. CASE Answer(c, "INTERNAL_SERVER_ERROR") /\ UNCHANGED tables
  BY <1>1, AnswerStep DEF Reply
<1>2. CASE /\ transactions' = [transactions EXCEPT ![x] = None]
           /\ Written(c)
           /\ UNCHANGED <<categories, issued>>
  <2>1. OwnersKept
    BY <1>2 DEF IndInv, TypeOK, OwnersKept
  <2>2. RequestsStayAuthorized' /\ req' \in [Client -> Request]
    BY <1>2, <2>1, WriteKeepsAuthorized
  <2>3. TypeOK'
    BY <1>2, <2>2 DEF IndInv, TypeOK
  <2>4. ReferentialIntegrity' /\ OwnershipAgrees' /\ NamesUnique' /\ IdsIssued'
    BY <1>2 DEF IndInv, TypeOK, ReferentialIntegrity, OwnershipAgrees, NamesUnique, IdsIssued
  <2> QED BY <2>2, <2>3, <2>4 DEF IndInv
<1> QED BY <1>1, <1>2 DEF DeleteTransaction

-----------------------------------------------------------------------------
(* The invariant and what follows from it.                                 *)

\* The initial tables are empty and nothing is in flight.
LEMMA InitEstablishes == Init => IndInv
BY IdleIsAuthorized
   DEF Init, IndInv, TypeOK, Optional, Reply, ReferentialIntegrity, OwnershipAgrees, NamesUnique,
       IdsIssued, RequestsStayAuthorized

\* Every step preserves IndInv.
LEMMA NextPreserves == IndInv /\ [Next]_vars => IndInv'
<1> SUFFICES ASSUME IndInv, [Next]_vars PROVE IndInv'
  OBVIOUS
<1>1. CASE UNCHANGED vars
  BY <1>1 DEF vars, IndInv, TypeOK, ReferentialIntegrity, OwnershipAgrees, NamesUnique, IdsIssued,
              RequestsStayAuthorized, Authorized, HoldsCategory, HoldsTransaction
<1>2. ASSUME NEW c \in Client, Arrive(c) PROVE IndInv'
  BY <1>2, ArriveStep
<1>3. ASSUME NEW c \in Client, Proceed(c) PROVE IndInv'
  BY <1>3, ReadStep, InsertCategoryStep, WriteCategoryStep, DeleteCategoryStep,
     InsertTransactionStep, WriteTransactionStep, DeleteTransactionStep DEF Proceed
<1>4. ASSUME NEW c \in Client, Fail(c) PROVE IndInv'
  BY <1>4, AnswerStep DEF Fail, Reply
<1> QED BY <1>1, <1>2, <1>3, <1>4 DEF Next

\* IndInv holds in every reachable state, for any constants.
THEOREM Invariance == Spec => []IndInv
BY InitEstablishes, NextPreserves, PTL DEF Spec

\* Rows and requests always have their types.
THEOREM TypeCorrect == Spec => []TypeOK
BY Invariance, PTL DEF IndInv

\* No interleaving of requests leaves a transaction without its category.
THEOREM NoOrphanedTransaction == Spec => []ReferentialIntegrity
BY Invariance, PTL DEF IndInv

\* No interleaving of requests files a transaction under another user's category.
THEOREM NoForeignCategory == Spec => []OwnershipAgrees
BY Invariance, PTL DEF IndInv

\* No interleaving of requests gives a user two categories of one name.
THEOREM NoDuplicateName == Spec => []NamesUnique
BY Invariance, PTL DEF IndInv

\* What a request checked about ownership holds until its last statement.
THEOREM ChecksOutlastRequests == Spec => []RequestsStayAuthorized
BY Invariance, PTL DEF IndInv

-----------------------------------------------------------------------------
(* Ledger implements LedgerContract: each writing statement is an operation *)
(* of the contract, every other step a stutter.                            *)

LEMMA ArriveAndReadKeepTables ==
  ASSUME NEW c \in Client,
         Arrive(c) \/ CheckName(c) \/ CountTransactions(c) \/ CheckCategory(c) \/ Fail(c)
  PROVE  UNCHANGED tables
BY DEF Arrive, CreateCategory, UpdateCategory, RemoveCategory, CreateTransaction,
       UpdateTransaction, RemoveTransaction, CheckName, CountTransactions, CheckCategory, Fail

LEMMA CategoryWritesRefine ==
  ASSUME IndInv, NEW c \in Client,
         InsertCategory(c) \/ WriteCategory(c) \/ DeleteCategory(c)
  PROVE  Contract!Next \/ UNCHANGED tables
<1> USE NoneIsFresh DEF Optional
<1> DEFINE r == req[c]
<1>0. r \in Request /\ Authorized(r)
  BY DEF IndInv, TypeOK, RequestsStayAuthorized
<1>1. CASE InsertCategory(c)
  <2> DEFINE row == [user |-> r.user, name |-> r.name, type |-> r.type]
  <2>1. row \in CategoryRow
    BY <1>0, <1>1 DEF Authorized, InsertCategory, At, CategoryRow
  <2>2. (\E k \in CategoryId : Contract!AddCategory(k, row)) \/ UNCHANGED tables
    BY <1>1 DEF InsertCategory, Contract!AddCategory, Contract!NameFree, UniqueName
  <2> HIDE DEF row
  <2> QED BY <2>1, <2>2 DEF Contract!Next, Contract!CategoryRow, CategoryRow
<1>2. CASE WriteCategory(c)
  <2> DEFINE k == r.category
             row == PatchedCategory(categories[k], r)
  <2>1. k \in CategoryId
    BY <1>0, <1>2 DEF Authorized, WriteCategory, At
  <2>2. CASE OwnCategory(r.user, k)
    <3>0. categories[k] \in CategoryRow
      BY <2>1, <2>2 DEF IndInv, TypeOK, OwnCategory
    <3>1. row \in CategoryRow /\ row.user = categories[k].user
      BY <1>0, <3>0 DEF PatchedCategory, Given, CategoryRow, Request
    <3>2. Contract!ChangeCategory(k, row) \/ UNCHANGED tables
      <4>1. CASE UniqueName(row.user, row.name, k)
        <5>1. /\ categories' = [categories EXCEPT ![k] = row]
              /\ UNCHANGED <<transactions, issued>>
          BY <1>2, <2>2, <4>1 DEF WriteCategory
        <5> HIDE DEF row
        <5> QED BY <2>2, <3>1, <4>1, <5>1
                DEF Contract!ChangeCategory, Contract!NameFree, UniqueName, OwnCategory
      <4>2. CASE ~UniqueName(row.user, row.name, k)
        BY <1>2, <4>2 DEF WriteCategory
      <4> QED BY <4>1, <4>2
    <3> HIDE DEF row
    <3> QED BY <2>1, <3>1, <3>2 DEF Contract!Next, Contract!CategoryRow, CategoryRow
  <2>3. CASE ~OwnCategory(r.user, k)
    BY <1>2, <2>3 DEF WriteCategory
  <2> QED BY <2>2, <2>3
<1>3. CASE DeleteCategory(c)
  <2> DEFINE k == r.category
  <2>1. k \in CategoryId
    BY <1>0, <1>3 DEF Authorized, DeleteCategory, At
  <2>2. Contract!DropCategory(k) \/ UNCHANGED tables
    BY <1>3 DEF DeleteCategory, Contract!DropCategory, Contract!Referenced, Contract!References,
                OwnCategory, NotReferenced
  <2> QED BY <2>1, <2>2 DEF Contract!Next
<1> QED BY <1>1, <1>2, <1>3

LEMMA TransactionWritesRefine ==
  ASSUME IndInv, NEW c \in Client,
         InsertTransaction(c) \/ WriteTransaction(c) \/ DeleteTransaction(c)
  PROVE  Contract!Next \/ UNCHANGED tables
<1> USE NoneIsFresh DEF Optional
<1> DEFINE r == req[c]
<1>0. r \in Request /\ Authorized(r)
  BY DEF IndInv, TypeOK, RequestsStayAuthorized
<1>1. CASE InsertTransaction(c)
  <2> DEFINE row == [user |-> r.user, category |-> r.category, type |-> r.type]
  <2>1. row \in TransactionRow
    BY <1>0, <1>1 DEF Authorized, InsertTransaction, At, TransactionRow, HoldsCategory
  <2>2. (\E x \in TransactionId : Contract!AddTransaction(x, row)) \/ UNCHANGED tables
    BY <1>0, <1>1 DEF InsertTransaction, At, Authorized, HoldsCategory, ReferenceExists,
                      Contract!AddTransaction, Contract!OwnsCategory
  <2> HIDE DEF row
  <2> QED BY <2>1, <2>2 DEF Contract!Next, Contract!TransactionRow, TransactionRow
<1>2. CASE WriteTransaction(c)
  <2> DEFINE x == r.transaction
             row == PatchedTransaction(transactions[x], r)
  <2>1. /\ HoldsTransaction(r)
        /\ x \in TransactionId
        /\ r.category # None => HoldsCategory(r)
    BY <1>0, <1>2 DEF Authorized, WriteTransaction, At, HoldsTransaction
  <2>2. CASE /\ transactions[x] # None
             /\ ReferenceExists(Given(r.category, transactions[x].category))
             /\ transactions' = [transactions EXCEPT ![x] = PatchedTransaction(@, r)]
             /\ UNCHANGED <<categories, issued>>
    <3>1. transactions[x] \in TransactionRow
      BY <2>1, <2>2 DEF IndInv, TypeOK
    <3>2. /\ row \in TransactionRow
          /\ row.user = transactions[x].user
          /\ row.category = Given(r.category, transactions[x].category)
      BY <1>0, <3>1 DEF PatchedTransaction, Given, TransactionRow, Request
    <3>3. OwnCategory(row.user, row.category)
      <4>1. CASE r.category = None
        BY <2>1, <2>2, <3>2, <4>1 DEF Given, OwnCategory, ReferenceExists, IndInv, OwnershipAgrees
      <4>2. CASE r.category # None
        BY <2>1, <2>2, <3>2, <4>2
           DEF Given, OwnCategory, ReferenceExists, HoldsCategory, HoldsTransaction
      <4> QED BY <4>1, <4>2
    <3>4. transactions' = [transactions EXCEPT ![x] = row]
      BY <2>2
    <3> HIDE DEF row
    <3>5. Contract!ChangeTransaction(x, row)
      BY <2>2, <3>2, <3>3, <3>4 DEF Contract!ChangeTransaction, Contract!OwnsCategory, OwnCategory
    <3> QED BY <2>1, <3>2, <3>5 DEF Contract!Next, Contract!TransactionRow, TransactionRow
  <2>3. CASE UNCHANGED tables
    BY <2>3
  <2> QED BY <1>2, <2>2, <2>3 DEF WriteTransaction
<1>3. CASE DeleteTransaction(c)
  <2> DEFINE x == r.transaction
  <2>1. x \in TransactionId
    BY <1>0, <1>3 DEF Authorized, DeleteTransaction, At, HoldsTransaction
  <2>2. Contract!DropTransaction(x) \/ UNCHANGED tables
    BY <1>3 DEF DeleteTransaction, Contract!DropTransaction
  <2> QED BY <2>1, <2>2 DEF Contract!Next
<1> QED BY <1>1, <1>2, <1>3

\* Each request has the effect of one atomic operation of the contract, or none.
THEOREM Refinement == Spec => ImplementsContract
<1>1. Init => Contract!Init
  BY DEF Init, Contract!Init
<1>2. IndInv /\ [Next]_vars => [Contract!Next]_(Contract!tables)
  <2> SUFFICES ASSUME IndInv, [Next]_vars PROVE Contract!Next \/ UNCHANGED tables
    BY DEF tables, Contract!tables
  <2>1. CASE UNCHANGED vars
    BY <2>1 DEF vars, tables
  <2>2. ASSUME NEW c \in Client, Arrive(c) \/ Proceed(c) \/ Fail(c)
        PROVE  Contract!Next \/ UNCHANGED tables
    BY <2>2, ArriveAndReadKeepTables, CategoryWritesRefine, TransactionWritesRefine DEF Proceed
  <2> QED BY <2>1, <2>2 DEF Next
<1> QED BY <1>1, <1>2, Invariance, PTL DEF Spec, ImplementsContract, Contract!Spec

-----------------------------------------------------------------------------
(* What a step may touch.                                                  *)

LEMMA OneRequestSteps ==
  ASSUME IndInv, NEW d \in Client, Arrive(d) \/ Proceed(d) \/ Fail(d),
         NEW c \in Client, Steps(c)
  PROVE  c = d
<1>1. \E r : req' = [req EXCEPT ![d] = r]
  <2>1. ASSUME Arrive(d) PROVE \E r : req' = [req EXCEPT ![d] = r]
    BY <2>1 DEF Arrive, CreateCategory, UpdateCategory, RemoveCategory, CreateTransaction,
                UpdateTransaction, RemoveTransaction, Answer, Await
  <2>2. ASSUME Proceed(d) \/ Fail(d) PROVE \E r : req' = [req EXCEPT ![d] = r]
    BY <2>2 DEF Proceed, Fail, InsertCategory, CheckName, WriteCategory, CountTransactions,
                DeleteCategory, InsertTransaction, CheckCategory, WriteTransaction,
                DeleteTransaction, Written, Answer, Advance
  <2> QED BY <2>1, <2>2
<1> QED BY <1>1 DEF IndInv, TypeOK, Steps

\* The rows client d's step creates, changes or removes are its user's.
LEMMA WritesOwnRows ==
  ASSUME IndInv, NEW d \in Client, Arrive(d) \/ Proceed(d) \/ Fail(d)
  PROVE  WritesRowsOf(req[d].user)
<1> USE NoneIsFresh DEF Optional, WritesRowsOf
<1> DEFINE r == req[d]
<1>0. r \in Request /\ Authorized(r)
  BY DEF IndInv, TypeOK, RequestsStayAuthorized
<1>1. CASE UNCHANGED tables
  BY <1>1 DEF tables
<1>2. CASE InsertCategory(d)
  BY <1>2 DEF InsertCategory, IndInv, TypeOK, IdsIssued, tables
<1>3. CASE WriteCategory(d)
  <2> DEFINE k == r.category
             row == PatchedCategory(categories[k], r)
  <2>1. \/ UNCHANGED tables
        \/ /\ OwnCategory(r.user, k)
           /\ categories' = [categories EXCEPT ![k] = row]
           /\ UNCHANGED transactions
    BY <1>3 DEF WriteCategory
  <2>2. k \in CategoryId
    BY <1>0, <1>3 DEF Authorized, WriteCategory, At
  <2>3. OwnCategory(r.user, k) => row.user = r.user
    BY <2>2 DEF OwnCategory, IndInv, TypeOK, PatchedCategory, CategoryRow
  <2> HIDE DEF row
  <2> QED BY <1>1, <2>1, <2>2, <2>3 DEF OwnCategory, IndInv, TypeOK
<1>4. CASE DeleteCategory(d)
  BY <1>4 DEF DeleteCategory, OwnCategory, IndInv, TypeOK, tables
<1>5. CASE InsertTransaction(d)
  BY <1>5 DEF InsertTransaction, IndInv, TypeOK, IdsIssued, tables
<1>6. CASE WriteTransaction(d)
  <2> DEFINE x == r.transaction
             row == PatchedTransaction(transactions[x], r)
  <2>1. \/ UNCHANGED tables
        \/ /\ transactions[x] # None
           /\ transactions' = [transactions EXCEPT ![x] = row]
           /\ UNCHANGED categories
    BY <1>6 DEF WriteTransaction
  <2>2. x \in TransactionId /\ HoldsTransaction(r)
    BY <1>0, <1>6 DEF Authorized, WriteTransaction, At, HoldsTransaction
  <2>3. transactions[x] # None => transactions[x].user = r.user /\ row.user = r.user
    BY <2>2 DEF HoldsTransaction, IndInv, TypeOK, PatchedTransaction, TransactionRow
  <2> HIDE DEF row
  <2> QED BY <1>1, <2>1, <2>2, <2>3 DEF IndInv, TypeOK
<1>7. CASE DeleteTransaction(d)
  <2>1. HoldsTransaction(r)
    BY <1>0, <1>7 DEF Authorized, DeleteTransaction, At
  <2> QED BY <1>7, <2>1 DEF DeleteTransaction, HoldsTransaction, IndInv, TypeOK, tables
<1> QED BY <1>1, <1>2, <1>3, <1>4, <1>5, <1>6, <1>7, ArriveAndReadKeepTables DEF Proceed

\* No step of a request touches a row of a user other than its own.
THEOREM RowsArePrivate == Spec => OnlyOwnRows
<1>1. IndInv /\ [Next]_vars => [\A c \in Client : Steps(c) => WritesRowsOf(req[c].user)]_vars
  <2> SUFFICES ASSUME IndInv, [Next]_vars, NEW c \in Client, Steps(c)
               PROVE  WritesRowsOf(req[c].user)
    OBVIOUS
  <2>1. PICK d \in Client : Arrive(d) \/ Proceed(d) \/ Fail(d)
    BY DEF Next, vars, Steps
  <2> QED BY <2>1, OneRequestSteps, WritesOwnRows
<1> QED BY <1>1, Invariance, PTL DEF Spec, OnlyOwnRows

\* A PATCH writes the fields of its body over the row as it is then, not as it was read.
THEOREM PatchesSurvive == Spec => NoLostPatch
<1> DEFINE Survives(c, x) ==
      Steps(c) /\ At(c, "updateTransaction") /\ transactions[x] # None =>
        /\ req[c].category = None => transactions'[x].category = transactions[x].category
        /\ req[c].type = None => transactions'[x].type = transactions[x].type
<1>1. ASSUME IndInv, [Next]_vars, NEW c \in Client, NEW x \in TransactionId PROVE Survives(c, x)
  <2> SUFFICES ASSUME Steps(c), At(c, "updateTransaction"), transactions[x] # None
               PROVE  /\ req[c].category = None =>
                           transactions'[x].category = transactions[x].category
                      /\ req[c].type = None => transactions'[x].type = transactions[x].type
    OBVIOUS
  <2>1. Arrive(c) \/ Proceed(c) \/ Fail(c)
    <3>1. ~UNCHANGED vars
      BY DEF Steps, vars
    <3> QED BY <1>1, <3>1, OneRequestSteps DEF Next
  <2>2. WriteTransaction(c) \/ Fail(c)
    BY <2>1 DEF At, Arrive, CreateCategory, UpdateCategory, RemoveCategory, CreateTransaction,
                UpdateTransaction, RemoveTransaction, Proceed, InsertCategory, CheckName,
                WriteCategory, CountTransactions, DeleteCategory, InsertTransaction,
                CheckCategory, DeleteTransaction
  <2>3. CASE UNCHANGED transactions
    BY <2>3
  <2>4. CASE transactions' = [transactions EXCEPT
                                ![req[c].transaction] = PatchedTransaction(@, req[c])]
    <3>1. transactions[x] \in TransactionRow
      BY <1>1 DEF IndInv, TypeOK, Optional
    <3>2. transactions'[x] = transactions[x]
          \/ transactions'[x] = PatchedTransaction(transactions[x], req[c])
      BY <1>1, <2>4 DEF IndInv, TypeOK
    <3> QED BY <3>1, <3>2 DEF PatchedTransaction, Given, TransactionRow
  <2> QED BY <2>2, <2>3, <2>4 DEF WriteTransaction, Fail, tables
<1>2. IndInv /\ [Next]_vars => [\A c \in Client, x \in TransactionId : Survives(c, x)]_vars
  BY <1>1
<1> QED BY <1>2, Invariance, PTL DEF Spec, NoLostPatch

-----------------------------------------------------------------------------
(* What makes a transaction's type differ from its category's.             *)

\* A step that leaves another row x behind either inserts it or patches it.
LEMMA RowsTraced ==
  ASSUME IndInv, NEW d \in Client, Arrive(d) \/ Proceed(d) \/ Fail(d), NEW x \in TransactionId,
         transactions'[x] # transactions[x], transactions'[x] # None
  PROVE  /\ UNCHANGED categories /\ Steps(d)
         /\ \/ /\ At(d, "insertTransaction") /\ x \notin issued
               /\ transactions'[x] = [user |-> req[d].user, category |-> req[d].category,
                                      type |-> req[d].type]
            \/ /\ At(d, "updateTransaction") /\ x = req[d].transaction
               /\ transactions[x] # None
               /\ transactions'[x] = PatchedTransaction(transactions[x], req[d])
<1>1. ~UNCHANGED tables /\ ~UNCHANGED transactions
  BY DEF tables
<1>2. \/ InsertCategory(d) \/ WriteCategory(d) \/ DeleteCategory(d)
      \/ InsertTransaction(d) \/ WriteTransaction(d) \/ DeleteTransaction(d)
  BY <1>1, ArriveAndReadKeepTables DEF Proceed
<1>3. InsertTransaction(d) \/ WriteTransaction(d)
  BY <1>1, <1>2 DEF InsertCategory, WriteCategory, DeleteCategory, DeleteTransaction, IndInv, TypeOK,
                    tables
<1>4. ASSUME Written(d), ~At(d, "idle") PROVE Steps(d)
  BY <1>4 DEF Written, Answer, Idle, Steps, At, IndInv, TypeOK
<1>5. CASE InsertTransaction(d)
  <2> DEFINE row == [user |-> req[d].user, category |-> req[d].category, type |-> req[d].type]
  <2>1. PICK y \in TransactionId \ issued : transactions' = [transactions EXCEPT ![y] = row]
    BY <1>1, <1>5 DEF InsertTransaction
  <2>2. x = y /\ transactions'[x] = row
    BY <2>1 DEF IndInv, TypeOK
  <2>3. At(d, "insertTransaction") /\ UNCHANGED categories /\ Written(d)
    BY <1>1, <1>5 DEF InsertTransaction
  <2> QED BY <1>4, <2>1, <2>2, <2>3 DEF At
<1>6. CASE WriteTransaction(d)
  <2> DEFINE y == req[d].transaction
  <2>1. /\ At(d, "updateTransaction") /\ UNCHANGED categories /\ Written(d)
        /\ transactions[y] # None
        /\ transactions' = [transactions EXCEPT ![y] = PatchedTransaction(@, req[d])]
    BY <1>1, <1>6 DEF WriteTransaction
  <2>2. x = y /\ transactions'[x] = PatchedTransaction(transactions[x], req[d])
    BY <2>1 DEF IndInv, TypeOK
  <2> QED BY <1>4, <2>1, <2>2 DEF At
<1> QED BY <1>3, <1>5, <1>6

\* A category handed out before the step and there after it was there before it.
LEMMA CategoriesTraced ==
  ASSUME IndInv, NEW d \in Client, Arrive(d) \/ Proceed(d) \/ Fail(d),
         NEW k \in CategoryId \cap issued, categories'[k] # None
  PROVE  categories[k] # None
<1> SUFFICES ASSUME ~UNCHANGED categories PROVE categories[k] # None
  OBVIOUS
<1>1. InsertCategory(d) \/ WriteCategory(d) \/ DeleteCategory(d)
  BY ArriveAndReadKeepTables
     DEF Proceed, tables, InsertTransaction, WriteTransaction, DeleteTransaction
<1>2. CASE InsertCategory(d)
  BY <1>2 DEF InsertCategory, IndInv, TypeOK, tables
<1>3. CASE WriteCategory(d)
  BY <1>3 DEF WriteCategory, OwnCategory, IndInv, TypeOK, tables
<1>4. CASE DeleteCategory(d)
  BY <1>4 DEF DeleteCategory, IndInv, TypeOK, tables
<1> QED BY <1>1, <1>2, <1>3, <1>4

\* Only a retype, or the write of an outdated request, makes a row's types differ.
LEMMA MismatchStep ==
  ASSUME IndInv, NEW d \in Client, Arrive(d) \/ Proceed(d) \/ Fail(d), NEW x \in TransactionId,
         Mismatched(x)'
  PROVE  \/ Mismatched(x) \/ Retypes(transactions'[x].category)
         \/ Steps(d) /\ Outdated(req[d])
<1> USE NoneIsFresh DEF Optional
<1> DEFINE row == transactions'[x]
           r == req[d]
<1>1. row # None /\ categories'[row.category] # None /\ categories'[row.category].type # row.type
  BY DEF Mismatched, Mistyped
<1>2. CASE row = transactions[x]
  <2>1. row.category \in CategoryId \cap issued
    BY <1>1, <1>2 DEF IndInv, TypeOK, TransactionRow, ReferentialIntegrity, IdsIssued
  <2>2. categories[row.category] # None
    BY <1>1, <2>1, CategoriesTraced
  <2> QED BY <1>1, <1>2, <2>2 DEF Retypes, Mismatched, Mistyped
<1>3. CASE row # transactions[x]
  <2>1. UNCHANGED categories /\ Steps(d) /\ r \in Request /\ Authorized(r)
    BY <1>1, <1>3, RowsTraced DEF IndInv, TypeOK, RequestsStayAuthorized
  <2>2. Mistyped(row.category, row.type)
    BY <1>1, <2>1 DEF Mistyped
  <2>3. CASE /\ At(d, "insertTransaction")
             /\ row = [user |-> r.user, category |-> r.category, type |-> r.type]
    <3>1. row.category = CheckedCategory(r) /\ row.type = CheckedType(r)
      BY <2>1, <2>3 DEF At, Authorized, HoldsCategory, CheckedCategory, CheckedType, Given
    <3> QED BY <2>1, <2>2, <2>3, <3>1 DEF At, Outdated
  <2>4. CASE /\ At(d, "updateTransaction") /\ x = r.transaction
             /\ transactions[x] # None /\ row = PatchedTransaction(transactions[x], r)
    <3>1. transactions[x] \in TransactionRow
      BY <2>4 DEF IndInv, TypeOK
    <3>2. /\ row.category = Given(r.category, transactions[x].category)
          /\ row.type = Given(r.type, transactions[x].type)
      BY <2>4, <3>1 DEF PatchedTransaction, TransactionRow
    <3>3. CASE r.category = None /\ r.type = None
      BY <2>2, <2>4, <3>2, <3>3 DEF Given, Mismatched
    <3>4. CASE r.category # None /\ r.type # None
      BY <2>1, <2>2, <2>4, <3>2, <3>4 DEF Given, CheckedCategory, CheckedType, At, Outdated
    <3>5. CASE ~(r.category = None <=> r.type = None)
      BY <2>1, <2>2, <2>4, <3>2, <3>5 DEF CheckedCategory, CheckedType, At, Outdated
    <3> QED BY <3>3, <3>4, <3>5
  <2> QED BY <1>1, <1>3, <2>3, <2>4, RowsTraced
<1> QED BY <1>2, <1>3

\* A request not outdated becomes so by a retype or another patch only, while it waits...
LEMMA WaitingStep ==
  ASSUME IndInv, NEW d \in Client, Arrive(d) \/ Proceed(d) \/ Fail(d),
         NEW c \in Client, req'[c] = req[c], Outdated(req[c])'
  PROVE  Outdated(req[c]) \/ Retypes(CheckedCategory(req[c])) \/ Patches(req[c].transaction)
<1> USE NoneIsFresh DEF Optional
<1> DEFINE r == req[c]
           k == CheckedCategory(r)
           x == r.transaction
<1>0. r \in Request /\ Authorized(r)
  BY DEF IndInv, TypeOK, RequestsStayAuthorized
<1>1. CASE /\ r.at \in {"insertTransaction", "updateTransaction"}
           /\ categories'[k] # None /\ categories'[k].type # CheckedType(r)
  <2>1. k \in CategoryId \cap issued
    <3>1. CASE r.at = "insertTransaction"
      BY <1>0, <3>1 DEF Authorized, HoldsCategory, CheckedCategory, Given
    <3>2. CASE r.at = "updateTransaction"
      BY <1>0, <3>2 DEF Authorized, CheckedCategory, Given, Request, TransactionRow
    <3> QED BY <1>1, <3>1, <3>2
  <2>2. categories[k] # None
    BY <1>1, <2>1, CategoriesTraced
  <2> QED BY <1>1, <2>2 DEF Outdated, Mistyped, Retypes
<1>2. CASE /\ r.at \in {"checkCategory", "updateTransaction"}
           /\ ~(r.category = None <=> r.type = None)
           /\ transactions'[x] \notin {r.seen, None}
  <2>1. x \in TransactionId \cap issued
    BY <1>0, <1>2 DEF Authorized, HoldsTransaction
  <2>2. CASE transactions'[x] = transactions[x]
    BY <1>2, <2>2 DEF Outdated
  <2>3. CASE transactions'[x] # transactions[x]
    <3>1. Steps(d) /\ At(d, "updateTransaction") /\ req[d].transaction = x
      BY <1>2, <2>1, <2>3, RowsTraced
    <3> QED BY <3>1 DEF Patches
  <2> QED BY <2>2, <2>3
<1> QED BY <1>1, <1>2 DEF Outdated, Mistyped, CheckedCategory, CheckedType

\* ... and not by its own statements.
LEMMA OwnStep ==
  ASSUME IndInv, NEW d \in Client, Arrive(d) \/ Proceed(d) \/ Fail(d), Outdated(req[d])',
         req'[d] # req[d]
  PROVE  Outdated(req[d])
<1> USE NoneIsFresh DEF Optional
<1> DEFINE s == req'[d]
<1>0. req[d] \in Request
  BY DEF IndInv, TypeOK
<1>1. s.at \in {"insertTransaction", "checkCategory", "updateTransaction"}
  BY DEF Outdated
<1>2. ASSUME NEW reply, Answer(d, reply) PROVE FALSE
  BY <1>1, <1>2 DEF Answer, Idle, IndInv, TypeOK
<1>3. CASE Arrive(d)
  <2>1. PICK u \in User :
          \/ \E k \in CategoryId, t \in Type : CreateTransaction(d, u, k, t)
          \/ \E x \in TransactionId, patch \in TransactionPatches : UpdateTransaction(d, u, x, patch)
    <3>1. ASSUME NEW u \in User, NEW n \in Name, NEW t \in Type PROVE ~CreateCategory(d, u, n, t)
      BY <1>1, <1>2 DEF CreateCategory, Await, Idle, IndInv, TypeOK
    <3>2. ASSUME NEW u \in User, NEW k \in CategoryId, NEW patch \in CategoryPatches
          PROVE  ~UpdateCategory(d, u, k, patch)
      <4> DEFINE r == [Idle("NONE") EXCEPT
                         !.at = IF patch.name = None THEN "updateCategory" ELSE "checkName",
                         !.user = u, !.category = k, !.name = patch.name, !.type = patch.type]
      <4> SUFFICES ASSUME UpdateCategory(d, u, k, patch) PROVE FALSE
        OBVIOUS
      <4>1. r.at \in {"updateCategory", "checkName"}
        BY DEF Idle
      <4>2. Await(d, r)
        BY <1>2 DEF UpdateCategory
      <4> HIDE DEF r
      <4>3. s = r
        BY <4>2 DEF Await, IndInv, TypeOK
      <4> QED BY <1>1, <4>1, <4>3
    <3>3. ASSUME NEW u \in User, NEW k \in CategoryId PROVE ~RemoveCategory(d, u, k)
      BY <1>1, <1>2 DEF RemoveCategory, Await, Idle, IndInv, TypeOK
    <3>4. ASSUME NEW u \in User, NEW x \in TransactionId PROVE ~RemoveTransaction(d, u, x)
      BY <1>1, <1>2 DEF RemoveTransaction, Await, Idle, IndInv, TypeOK
    <3> QED BY <1>3, <3>1, <3>2, <3>3, <3>4 DEF Arrive
  <2>2. ASSUME NEW k \in CategoryId, NEW t \in Type, CreateTransaction(d, u, k, t) PROVE FALSE
    <3>1. /\ CategoryMatches(u, k, t) /\ UNCHANGED categories
          /\ s = [Idle("NONE") EXCEPT !.at = "insertTransaction", !.user = u, !.category = k,
                                      !.type = t]
      BY <1>2, <2>2 DEF CreateTransaction, Await, tables, IndInv, TypeOK
    <3>2. s.at = "insertTransaction" /\ CheckedCategory(s) = k /\ CheckedType(s) = t
      BY <3>1 DEF Idle, CheckedCategory, CheckedType, Given
    <3> QED BY <3>1, <3>2 DEF Outdated, Mistyped, CategoryMatches, CheckedCategory, CheckedType
  <2>3. ASSUME NEW x \in TransactionId, NEW patch \in TransactionPatches,
               UpdateTransaction(d, u, x, patch)
        PROVE  FALSE
    <3>1. /\ UNCHANGED transactions
          /\ s = [Idle("NONE") EXCEPT !.at = "checkCategory", !.user = u, !.transaction = x,
                                      !.category = patch.category, !.type = patch.type,
                                      !.seen = transactions[x]]
      BY <1>2, <2>3 DEF UpdateTransaction, Await, tables, IndInv, TypeOK
    <3>2. s.at = "checkCategory" /\ s.transaction = x /\ s.seen = transactions[x]
      BY <3>1 DEF Idle
    <3> QED BY <3>1, <3>2 DEF Outdated
  <2> QED BY <2>1, <2>2, <2>3
<1>4. CASE CheckCategory(d)
  <2>1. /\ CategoryMatches(req[d].user, CheckedCategory(req[d]), CheckedType(req[d]))
        /\ req[d].at = "checkCategory" /\ UNCHANGED tables
        /\ s = [req[d] EXCEPT !.at = "updateTransaction"]
    BY <1>2, <1>4 DEF CheckCategory, Advance, At, IndInv, TypeOK
  <2>2. /\ CheckedCategory(s) = CheckedCategory(req[d]) /\ CheckedType(s) = CheckedType(req[d])
        /\ s.category = req[d].category /\ s.type = req[d].type
        /\ s.transaction = req[d].transaction /\ s.seen = req[d].seen
    BY <1>0, <2>1 DEF CheckedCategory, CheckedType, Request
  <2>3. ~(categories'[CheckedCategory(s)] # None
          /\ categories'[CheckedCategory(s)].type # CheckedType(s))
    BY <2>1, <2>2 DEF CategoryMatches, tables
  <2> QED BY <2>1, <2>2, <2>3 DEF Outdated, Mistyped, tables, CheckedCategory, CheckedType
<1>5. CASE Proceed(d) /\ ~CheckCategory(d)
  BY <1>0, <1>1, <1>2, <1>5
     DEF Proceed, InsertCategory, CheckName, WriteCategory, CountTransactions, DeleteCategory,
         InsertTransaction, WriteTransaction, DeleteTransaction, Written, Advance, IndInv, TypeOK,
         Request
<1>6. CASE Fail(d)
  BY <1>2, <1>6 DEF Fail
<1> QED BY <1>3, <1>4, <1>5, <1>6

\* Whatever clients send: a transaction's type comes to differ from its category's only by
\* a retype of the category or the write of a request that was overtaken, and requests are
\* overtaken only by retypes of what they checked and, half patches, by other patches.
THEOREM MismatchesTraced == Spec => MismatchHasCause
<1> DEFINE Caused ==
      /\ \A x \in TransactionId : Mismatched(x)' =>
           \/ Mismatched(x) \/ Retypes(transactions'[x].category)
           \/ \E c \in Client : Steps(c) /\ Outdated(req[c])
      /\ \A c \in Client : Outdated(req[c])' =>
           \/ Outdated(req[c]) \/ Retypes(CheckedCategory(req'[c]))
           \/ Patches(req'[c].transaction)
<1>1. ASSUME IndInv, [Next]_vars, vars' # vars PROVE Caused
  <2>1. PICK d \in Client : Arrive(d) \/ Proceed(d) \/ Fail(d)
    BY <1>1 DEF Next
  <2>2. ASSUME NEW x \in TransactionId, Mismatched(x)'
        PROVE  \/ Mismatched(x) \/ Retypes(transactions'[x].category)
               \/ \E c \in Client : Steps(c) /\ Outdated(req[c])
    BY <1>1, <2>1, <2>2, MismatchStep
  <2>3. ASSUME NEW c \in Client, Outdated(req[c])'
        PROVE  \/ Outdated(req[c]) \/ Retypes(CheckedCategory(req'[c]))
               \/ Patches(req'[c].transaction)
    <3>1. CASE req'[c] = req[c]
      BY <1>1, <2>1, <2>3, <3>1, WaitingStep
    <3>2. CASE req'[c] # req[c]
      <4>1. c = d
        BY <1>1, <2>1, <3>2, OneRequestSteps DEF Steps
      <4> QED BY <1>1, <2>1, <2>3, <3>2, <4>1, OwnStep
    <3> QED BY <3>1, <3>2
  <2> QED BY <2>2, <2>3
<1>2. IndInv /\ [Next]_vars => [Caused]_vars
  BY <1>1
<1> QED BY <1>2, Invariance, PTL DEF Spec, MismatchHasCause

-----------------------------------------------------------------------------
(* Types agree when clients are disciplined.                               *)

\* No step changes the type of a category that was there before it.
TypesKept ==
  \A k \in CategoryId \cap issued :
    categories'[k] # None => categories[k] # None /\ categories'[k].type = categories[k].type

\* A step that leaves request r to client c, keeps the types of the categories
\* and the match of the transactions, preserves TypesInv.
LEMMA TypesInvStep ==
  ASSUME IndInv, TypesInv, TypesKept, TypesMatch', NEW c \in Client, NEW r,
         req' = [req EXCEPT ![c] = r], KnowsType(r)'
  PROVE  TypesInv'
<1> SUFFICES ASSUME NEW d \in Client PROVE KnowsType(req[d])'
  BY DEF TypesInv
<1>1. CASE d = c
  <2>1. req'[d] = r
    BY <1>1 DEF IndInv, TypeOK
  <2> QED BY <2>1 DEF KnowsType
<1>2. CASE d # c
  <2>1. req'[d] = req[d]
    BY <1>2 DEF IndInv, TypeOK
  <2>2. KnowsType(req[d]) /\ Authorized(req[d])
    BY DEF TypesInv, IndInv, RequestsStayAuthorized
  <2> QED BY <2>1, <2>2 DEF KnowsType, TypesKept, Authorized, HoldsCategory
<1> QED BY <1>1, <1>2

\* An answered request knows nothing.
LEMMA IdleKnowsType ==
  ASSUME IndInv, TypesInv, TypesKept, TypesMatch', NEW c \in Client, NEW reply, Answer(c, reply)
  PROVE  TypesInv'
BY TypesInvStep DEF Answer, Idle, KnowsType

\* A step that leaves the tables alone.
LEMMA TypesReadStep ==
  ASSUME IndInv, TypesInv, UNCHANGED tables, NEW c \in Client, NEW r,
         req' = [req EXCEPT ![c] = r], KnowsType(r)
  PROVE  TypesInv'
<1>1. TypesKept /\ TypesMatch'
  BY DEF tables, TypesKept, TypesInv, TypesMatch
<1>2. KnowsType(r)'
  BY DEF tables, KnowsType
<1> QED BY <1>1, <1>2, TypesInvStep

LEMMA TypesArriveStep ==
  ASSUME Disciplined, IndInv, TypesInv, NEW c \in Client, Arrive(c)
  PROVE  TypesInv'
<1> USE NoneIsFresh DEF Optional
<1>0. UNCHANGED tables
  BY ArriveAndReadKeepTables
<1>1. ASSUME NEW reply, Answer(c, reply) PROVE TypesInv'
  BY <1>0, <1>1, TypesReadStep DEF Answer, Idle, KnowsType
<1>2. ASSUME NEW u \in User, NEW n \in Name, NEW t \in Type, CreateCategory(c, u, n, t)
      PROVE  TypesInv'
  BY <1>0, <1>1, <1>2, TypesReadStep DEF CreateCategory, Await, Idle, KnowsType
<1>3. ASSUME NEW u \in User, NEW k \in CategoryId, NEW patch \in CategoryPatches,
             UpdateCategory(c, u, k, patch)
      PROVE  TypesInv'
  <2>1. patch.type = None
    BY DEF Disciplined
  <2> QED BY <1>0, <1>1, <1>3, <2>1, TypesReadStep DEF UpdateCategory, Await, Idle, KnowsType
<1>4. ASSUME NEW u \in User, NEW k \in CategoryId, RemoveCategory(c, u, k)
      PROVE  TypesInv'
  BY <1>0, <1>1, <1>4, TypesReadStep DEF RemoveCategory, Await, Idle, KnowsType
<1>5. ASSUME NEW u \in User, NEW k \in CategoryId, NEW t \in Type, CreateTransaction(c, u, k, t)
      PROVE  TypesInv'
  BY <1>0, <1>1, <1>5, TypesReadStep DEF CreateTransaction, CategoryMatches, Await, Idle, KnowsType
<1>6. ASSUME NEW u \in User, NEW x \in TransactionId, NEW patch \in TransactionPatches,
             UpdateTransaction(c, u, x, patch)
      PROVE  TypesInv'
  <2>1. patch.category = None <=> patch.type = None
    BY DEF Disciplined
  <2> QED BY <1>0, <1>1, <1>6, <2>1, TypesReadStep DEF UpdateTransaction, Await, Idle, KnowsType
<1>7. ASSUME NEW u \in User, NEW x \in TransactionId, RemoveTransaction(c, u, x)
      PROVE  TypesInv'
  BY <1>0, <1>1, <1>7, TypesReadStep DEF RemoveTransaction, Await, Idle, KnowsType
<1> QED BY <1>2, <1>3, <1>4, <1>5, <1>6, <1>7 DEF Arrive

LEMMA TypesProceedStep ==
  ASSUME IndInv, TypesInv, NEW c \in Client, Proceed(c) \/ Fail(c)
  PROVE  TypesInv'
<1> USE NoneIsFresh DEF Optional
<1> DEFINE r == req[c]
<1>0. r \in Request /\ Authorized(r) /\ KnowsType(r)
  BY DEF IndInv, TypeOK, RequestsStayAuthorized, TypesInv
<1>1. ASSUME UNCHANGED tables, NEW reply, Answer(c, reply) PROVE TypesInv'
  BY <1>1, TypesReadStep DEF Answer, Idle, KnowsType
<1>2. CASE CheckName(c)
  <2>1. KnowsType([r EXCEPT !.at = "updateCategory"])
    BY <1>0, <1>2 DEF CheckName, At, KnowsType, Request
  <2>2. Advance(c, "updateCategory") => req' = [req EXCEPT ![c] = [r EXCEPT !.at = "updateCategory"]]
    BY DEF Advance, IndInv, TypeOK
  <2> QED BY <1>1, <1>2, <2>1, <2>2, TypesReadStep DEF CheckName
<1>3. CASE CountTransactions(c)
  <2>1. KnowsType([r EXCEPT !.at = "deleteCategory"])
    BY <1>0 DEF KnowsType, Request
  <2>2. Advance(c, "deleteCategory") => req' = [req EXCEPT ![c] = [r EXCEPT !.at = "deleteCategory"]]
    BY DEF Advance, IndInv, TypeOK
  <2> QED BY <1>1, <1>3, <2>1, <2>2, TypesReadStep DEF CountTransactions
<1>4. CASE CheckCategory(c)
  <2>1. CASE CategoryMatches(r.user, CheckedCategory(r), CheckedType(r))
    <3>1. KnowsType([r EXCEPT !.at = "updateTransaction"])
      BY <1>0, <1>4, <2>1 DEF CheckCategory, At, KnowsType, Request, CategoryMatches,
                                  CheckedCategory, CheckedType, Given
    <3>2. Advance(c, "updateTransaction") =>
            req' = [req EXCEPT ![c] = [r EXCEPT !.at = "updateTransaction"]]
      BY DEF Advance, IndInv, TypeOK
    <3> QED BY <1>1, <1>4, <3>1, <3>2, TypesReadStep DEF CheckCategory
  <2>2. CASE ~CategoryMatches(r.user, CheckedCategory(r), CheckedType(r))
    BY <1>1, <1>4, <2>2 DEF CheckCategory
  <2> QED BY <2>1, <2>2
<1>5. CASE InsertCategory(c)
  <2>1. TypesKept /\ TypesMatch'
    BY <1>5 DEF InsertCategory, tables, IndInv, TypeOK, IdsIssued, ReferentialIntegrity, TypesInv,
                TypesMatch, TypesKept, TransactionRow
  <2> QED BY <1>5, <2>1, IdleKnowsType DEF InsertCategory, Written
<1>6. CASE WriteCategory(c)
  <2> DEFINE k == r.category
             row == PatchedCategory(categories[k], r)
  <2>1. k \in CategoryId /\ r.type = None
    BY <1>0, <1>6 DEF Authorized, KnowsType, WriteCategory, At
  <2>2. OwnCategory(r.user, k) => row.type = categories[k].type
    BY <2>1 DEF OwnCategory, IndInv, TypeOK, PatchedCategory, Given, CategoryRow
  <2>3. \/ UNCHANGED tables
        \/ /\ OwnCategory(r.user, k)
           /\ categories' = [categories EXCEPT ![k] = row]
           /\ UNCHANGED <<transactions, issued>>
    BY <1>6 DEF WriteCategory
  <2> HIDE DEF row
  <2>4. TypesKept /\ TypesMatch'
    BY <2>1, <2>2, <2>3 DEF tables, OwnCategory, IndInv, TypeOK, TypesInv, TypesMatch, TypesKept,
                            TransactionRow
  <2> QED BY <1>6, <2>4, IdleKnowsType DEF WriteCategory, Written
<1>7. CASE DeleteCategory(c)
  <2>1. TypesKept /\ TypesMatch'
    BY <1>7 DEF DeleteCategory, tables, IndInv, TypeOK, TypesInv, TypesMatch, TypesKept,
                TransactionRow
  <2> QED BY <1>7, <2>1, IdleKnowsType DEF DeleteCategory, Written
<1>8. CASE InsertTransaction(c)
  <2>1. TypesKept /\ TypesMatch'
    BY <1>0, <1>8 DEF InsertTransaction, At, ReferenceExists, KnowsType, tables, IndInv, TypeOK,
                      TypesInv, TypesMatch, TypesKept
  <2> QED BY <1>8, <2>1, IdleKnowsType DEF InsertTransaction, Written
<1>9. CASE WriteTransaction(c)
  <2> DEFINE x == r.transaction
             row == PatchedTransaction(transactions[x], r)
  <2>1. /\ x \in TransactionId
        /\ r.category = None <=> r.type = None
        /\ r.category # None /\ categories[r.category] # None =>
             categories[r.category].type = r.type
    BY <1>0, <1>9 DEF Authorized, HoldsTransaction, KnowsType, WriteTransaction, At
  <2>2. \/ UNCHANGED tables
        \/ /\ transactions[x] # None
           /\ ReferenceExists(Given(r.category, transactions[x].category))
           /\ transactions' = [transactions EXCEPT ![x] = row]
           /\ UNCHANGED <<categories, issued>>
    BY <1>9 DEF WriteTransaction
  <2>3. transactions[x] # None =>
          /\ row.category = Given(r.category, transactions[x].category)
          /\ row.type = Given(r.type, transactions[x].type)
    BY <2>1 DEF IndInv, TypeOK, PatchedTransaction, TransactionRow
  <2> HIDE DEF row
  <2>4. TypesKept /\ TypesMatch'
    BY <2>1, <2>2, <2>3 DEF tables, ReferenceExists, Given, IndInv, TypeOK, TypesInv, TypesMatch,
                            TypesKept
  <2> QED BY <1>9, <2>4, IdleKnowsType DEF WriteTransaction, Written
<1>10. CASE DeleteTransaction(c)
  <2>1. TypesKept /\ TypesMatch'
    BY <1>10 DEF DeleteTransaction, tables, IndInv, TypeOK, TypesInv, TypesMatch, TypesKept
  <2> QED BY <1>10, <2>1, IdleKnowsType DEF DeleteTransaction, Written
<1>11. CASE Fail(c)
  BY <1>1, <1>11 DEF Fail
<1> QED BY <1>2, <1>3, <1>4, <1>5, <1>6, <1>7, <1>8, <1>9, <1>10, <1>11 DEF Proceed

\* With clients that never retype a category and send category and type
\* together, every transaction keeps its category's type, races included.
THEOREM DisciplineKeepsTypes == Disciplined => (Spec => []TypesMatch)
<1> SUFFICES ASSUME Disciplined PROVE Spec => []TypesMatch
  OBVIOUS
<1>1. Init => TypesInv
  BY DEF Init, TypesInv, TypesMatch, KnowsType, Idle
<1>2. IndInv /\ TypesInv /\ [Next]_vars => TypesInv'
  <2> SUFFICES ASSUME IndInv, TypesInv, [Next]_vars PROVE TypesInv'
    OBVIOUS
  <2>1. CASE UNCHANGED vars
    BY <2>1 DEF vars, TypesInv, TypesMatch, KnowsType
  <2>2. ASSUME NEW c \in Client, Arrive(c) \/ Proceed(c) \/ Fail(c) PROVE TypesInv'
    BY <2>2, TypesArriveStep, TypesProceedStep
  <2> QED BY <2>1, <2>2 DEF Next
<1>3. TypesInv => TypesMatch
  BY DEF TypesInv
<1> QED BY <1>1, <1>2, <1>3, Invariance, PTL DEF Spec
=============================================================================
