------------------------------- MODULE Ledger -------------------------------
(***************************************************************************)
(* CategoriesService and TransactionsService serving concurrent requests   *)
(* over PostgreSQL at READ COMMITTED.                                      *)
(*                                                                         *)
(* A client is one request in flight: it is idle, or waits for the         *)
(* database statement named by req[c].at.  A statement is one step, on     *)
(* what is committed at that instant; between two statements any other     *)
(* request may run.  Every interactive transaction of this code is some    *)
(* reads and then ONE write, so that write and its COMMIT are one step and *)
(* nothing is ever seen uncommitted.  The first statement of a request is  *)
(* part of its arrival.                                                    *)
(*                                                                         *)
(* Name_Fault is the definition Name with a plausible mistake in it; it is *)
(* not used below, and shows what the property named for it rules out.     *)
(***************************************************************************)
EXTENDS Naturals

CONSTANTS User, CategoryId, TransactionId, Name, Type, None,
          Client,              \* requests the server may have in flight at once
          CategoryPatches,     \* bodies of PATCH /categories/:id clients send
          TransactionPatches,  \* bodies of PATCH /transactions/:id clients send
          MayFail              \* may the database time out or drop a connection?

VARIABLES categories,    \* table "Category": id -> row, or None
          transactions,  \* table "Transaction": id -> row, or None
          issued,        \* uuids the tables ever held
          req            \* client -> its request in flight and the last reply

tables == <<categories, transactions, issued>>
vars   == <<categories, transactions, issued, req>>

Contract == INSTANCE LedgerContract

CategoryRow    == [user : User, name : Name, type : Type]
TransactionRow == [user : User, category : CategoryId, type : Type]

\* None stands for a row that is not there and for a field left out of a body.
Optional(S) == S \cup {None}

Statement == {"insertCategory",
              "checkName", "updateCategory",
              "countTransactions", "deleteCategory",
              "insertTransaction",
              "checkCategory", "updateTransaction",
              "deleteTransaction"}

Reply == {"NONE", "OK", "CATEGORY_ALREADY_EXISTS", "CATEGORY_NOT_FOUND", "CATEGORY_IN_USE",
          "TRANSACTION_CATEGORY_INVALID", "TRANSACTION_NOT_FOUND", "INTERNAL_SERVER_ERROR"}

\* category and transaction are the id of the path or of the body; seen is the
\* row TransactionsService.update read and still holds.
Request == [at          : Statement \cup {"idle"},
            user        : Optional(User),
            category    : Optional(CategoryId),
            transaction : Optional(TransactionId),
            name        : Optional(Name),
            type        : Optional(Type),
            seen        : Optional(TransactionRow),
            reply       : Reply]

Idle(reply) == [at |-> "idle", user |-> None, category |-> None, transaction |-> None,
                name |-> None, type |-> None, seen |-> None, reply |-> reply]

\* Bodies the validation lets through; title, amount and note are no rule's concern.
UpdateCategoryDto    == [name : Optional(Name), type : Optional(Type)]
UpdateTransactionDto == [category : Optional(CategoryId), type : Optional(Type)]

ASSUME NoneIsFresh ==
  None \notin User \cup CategoryId \cup TransactionId \cup Name \cup Type
              \cup CategoryRow \cup TransactionRow
ASSUME PatchesTyped ==
  /\ CategoryPatches \subseteq UpdateCategoryDto
  /\ TransactionPatches \subseteq UpdateTransactionDto
ASSUME MayFailBoolean == MayFail \in BOOLEAN

TypeOK == /\ categories \in [CategoryId -> Optional(CategoryRow)]
          /\ transactions \in [TransactionId -> Optional(TransactionRow)]
          /\ issued \subseteq CategoryId \cup TransactionId
          /\ req \in [Client -> Request]

Init == /\ categories = [k \in CategoryId |-> None]
        /\ transactions = [x \in TransactionId |-> None]
        /\ issued = {}
        /\ req = [c \in Client |-> Idle("NONE")]

-----------------------------------------------------------------------------
(* Serving: an answered request leaves nothing behind but its reply.       *)

At(c, statement)   == req[c].at = statement
Answer(c, reply)   == req' = [req EXCEPT ![c] = Idle(reply)]
Await(c, request)  == req' = [req EXCEPT ![c] = request]
Advance(c, statement) == req' = [req EXCEPT ![c].at = statement]

\* A write is committed: its client is told so, or the connection is lost before the
\* server hears of the COMMIT, and the exception filter answers 500.
Written(c) == Answer(c, "OK") \/ (MayFail /\ Answer(c, "INTERNAL_SERVER_ERROR"))

\* dto.field ?? row.field
Given(field, current) == IF field = None THEN current ELSE field

-----------------------------------------------------------------------------
(* What the queries return.                                                *)

OwnCategory(u, k)            == categories[k] # None /\ categories[k].user = u

OwnTransaction_AnyUser(u, x) == transactions[x] # None
OwnTransaction(u, x)         == transactions[x] # None /\ transactions[x].user = u

\* findDuplicateByName: a category of u other than `except` with that name.
Duplicate(u, n, except) ==
  \E k \in CategoryId \ {except} : OwnCategory(u, k) /\ categories[k].name = n

\* countTransactions(u, k) > 0
InUse(u, k) == \E x \in TransactionId : OwnTransaction(u, x) /\ transactions[x].category = k

-----------------------------------------------------------------------------
(* What the constraints of the schema accept.                              *)

\* @@unique([userId, normalizedName])
UniqueName_Unconstrained(u, n, k) == TRUE
UniqueName(u, n, k) ==
  \A j \in CategoryId \ {k} :
    categories[j] # None => categories[j].user # u \/ categories[j].name # n

\* Transaction.category has no onDelete: RESTRICT, whoever owns the transaction.
NotReferenced_NoForeignKey(k) == TRUE
NotReferenced(k) ==
  \A x \in TransactionId : transactions[x] # None => transactions[x].category # k

\* The foreign key of Transaction.categoryId.
ReferenceExists_NoForeignKey(k) == TRUE
ReferenceExists(k) == categories[k] # None

-----------------------------------------------------------------------------
(* POST /categories                                                        *)

CreateCategory(c, u, n, t) ==
  /\ At(c, "idle")
  /\ CategoryId \ issued # {}       \* bound: CategoryId is finite under TLC
  /\ \/ Duplicate(u, n, None) /\ Answer(c, "CATEGORY_ALREADY_EXISTS")
     \/ /\ ~Duplicate(u, n, None)
        /\ Await(c, [Idle("NONE") EXCEPT !.at = "insertCategory", !.user = u,
                                         !.name = n, !.type = t])
  /\ UNCHANGED tables

InsertCategory(c) ==
  /\ At(c, "insertCategory")
  /\ \E k \in CategoryId \ issued :
       LET row == [user |-> req[c].user, name |-> req[c].name, type |-> req[c].type]
       IN \/ /\ UniqueName(row.user, row.name, k)
             /\ categories' = [categories EXCEPT ![k] = row]
             /\ issued' = issued \cup {k}
             /\ Written(c)
             /\ UNCHANGED transactions
          \/ /\ ~UniqueName(row.user, row.name, k)
             /\ Answer(c, "INTERNAL_SERVER_ERROR")
             /\ UNCHANGED tables

-----------------------------------------------------------------------------
(* PATCH /categories/:id                                                   *)

UpdateCategory(c, u, k, patch) ==
  /\ At(c, "idle")
  /\ \/ ~OwnCategory(u, k) /\ Answer(c, "CATEGORY_NOT_FOUND")
     \/ /\ OwnCategory(u, k)
        /\ Await(c, [Idle("NONE") EXCEPT
                       !.at = IF patch.name = None THEN "updateCategory" ELSE "checkName",
                       !.user = u, !.category = k, !.name = patch.name, !.type = patch.type])
  /\ UNCHANGED tables

CheckName(c) ==
  /\ At(c, "checkName")
  /\ \/ /\ Duplicate(req[c].user, req[c].name, req[c].category)
        /\ Answer(c, "CATEGORY_ALREADY_EXISTS")
     \/ /\ ~Duplicate(req[c].user, req[c].name, req[c].category)
        /\ Advance(c, "updateCategory")
  /\ UNCHANGED tables

\* The row the update leaves: only the fields of the body change.
PatchedCategory_WritesAbsentFields(row, r) == [row EXCEPT !.name = r.name, !.type = r.type]
PatchedCategory(row, r) ==
  [row EXCEPT !.name = Given(r.name, @), !.type = Given(r.type, @)]

\* update({ where: { id, userId } }): P2025 when the row is gone, P2002 when
\* the name was taken since the check.
WriteCategory(c) ==
  LET r == req[c] k == r.category
      row == PatchedCategory(categories[k], r)
  IN /\ At(c, "updateCategory")
     /\ \/ /\ OwnCategory(r.user, k)
           /\ UniqueName(row.user, row.name, k)
           /\ categories' = [categories EXCEPT ![k] = row]
           /\ Written(c)
           /\ UNCHANGED <<transactions, issued>>
        \/ /\ OwnCategory(r.user, k) => ~UniqueName(row.user, row.name, k)
           /\ Answer(c, "INTERNAL_SERVER_ERROR")
           /\ UNCHANGED tables

-----------------------------------------------------------------------------
(* DELETE /categories/:id                                                  *)

RemoveCategory(c, u, k) ==
  /\ At(c, "idle")
  /\ \/ ~OwnCategory(u, k) /\ Answer(c, "CATEGORY_NOT_FOUND")
     \/ /\ OwnCategory(u, k)
        /\ Await(c, [Idle("NONE") EXCEPT !.at = "countTransactions", !.user = u,
                                         !.category = k])
  /\ UNCHANGED tables

CountTransactions(c) ==
  /\ At(c, "countTransactions")
  /\ \/ InUse(req[c].user, req[c].category) /\ Answer(c, "CATEGORY_IN_USE")
     \/ ~InUse(req[c].user, req[c].category) /\ Advance(c, "deleteCategory")
  /\ UNCHANGED tables

DeleteCategory(c) ==
  LET k == req[c].category
      deletable == OwnCategory(req[c].user, k) /\ NotReferenced(k)
  IN /\ At(c, "deleteCategory")
     /\ \/ /\ deletable
           /\ categories' = [categories EXCEPT ![k] = None]
           /\ Written(c)
           /\ UNCHANGED <<transactions, issued>>
        \/ /\ ~deletable
           /\ Answer(c, "INTERNAL_SERVER_ERROR")
           /\ UNCHANGED tables

-----------------------------------------------------------------------------
(* POST /transactions                                                      *)

\* findCategoryById, then assertCategoryMatchesTransactionType.
CategoryMatches_OfAnyType(u, k, t) == OwnCategory(u, k)
CategoryMatches_AnyUser(u, k, t)    == categories[k] # None /\ categories[k].type = t
CategoryMatches(u, k, t)            == OwnCategory(u, k) /\ categories[k].type = t

CreateTransaction(c, u, k, t) ==
  /\ At(c, "idle")
  /\ TransactionId \ issued # {}    \* bound: TransactionId is finite under TLC
  /\ \/ ~CategoryMatches(u, k, t) /\ Answer(c, "TRANSACTION_CATEGORY_INVALID")
     \/ /\ CategoryMatches(u, k, t)
        /\ Await(c, [Idle("NONE") EXCEPT !.at = "insertTransaction", !.user = u,
                                         !.category = k, !.type = t])
  /\ UNCHANGED tables

InsertTransaction(c) ==
  LET k == req[c].category
      row == [user |-> req[c].user, category |-> k, type |-> req[c].type]
  IN /\ At(c, "insertTransaction")
     /\ \/ /\ ReferenceExists(k)
           /\ \E x \in TransactionId \ issued :
                /\ transactions' = [transactions EXCEPT ![x] = row]
                /\ issued' = issued \cup {x}
           /\ Written(c)
           /\ UNCHANGED categories
        \/ /\ ~ReferenceExists(k)
           /\ Answer(c, "INTERNAL_SERVER_ERROR")
           /\ UNCHANGED tables

-----------------------------------------------------------------------------
(* PATCH /transactions/:id                                                 *)

UpdateTransaction(c, u, x, patch) ==
  /\ At(c, "idle")
  /\ \/ ~OwnTransaction(u, x) /\ Answer(c, "TRANSACTION_NOT_FOUND")
     \/ /\ OwnTransaction(u, x)
        /\ Await(c, [Idle("NONE") EXCEPT !.at = "checkCategory", !.user = u, !.transaction = x,
                                         !.category = patch.category, !.type = patch.type,
                                         !.seen = transactions[x]])
  /\ UNCHANGED tables

\* The category and the type request r validates: the body's, else those it has read.
CheckedCategory(r) == Given(r.category, r.seen.category)
CheckedType(r)     == Given(r.type, r.seen.type)

CheckCategory(c) ==
  LET r == req[c]
      valid == CategoryMatches(r.user, CheckedCategory(r), CheckedType(r))
  IN /\ At(c, "checkCategory")
     /\ \/ ~valid /\ Answer(c, "TRANSACTION_CATEGORY_INVALID")
        \/ valid /\ Advance(c, "updateTransaction")
     /\ UNCHANGED tables

PatchedTransaction_WritesMergedRow(row, r) ==
  [row EXCEPT !.category = CheckedCategory(r), !.type = CheckedType(r)]
PatchedTransaction(row, r) ==
  [row EXCEPT !.category = Given(r.category, @), !.type = Given(r.type, @)]

\* update({ where: { id } }): P2025 when the row is gone, a foreign key error
\* when the category of the body is.
WriteTransaction(c) ==
  LET r == req[c] x == r.transaction
      writable == /\ transactions[x] # None
                  /\ ReferenceExists(Given(r.category, transactions[x].category))
  IN /\ At(c, "updateTransaction")
     /\ \/ /\ writable
           /\ transactions' = [transactions EXCEPT ![x] = PatchedTransaction(@, r)]
           /\ Written(c)
           /\ UNCHANGED <<categories, issued>>
        \/ /\ ~writable
           /\ Answer(c, "INTERNAL_SERVER_ERROR")
           /\ UNCHANGED tables

-----------------------------------------------------------------------------
(* DELETE /transactions/:id                                                *)

RemoveTransaction(c, u, x) ==
  /\ At(c, "idle")
  /\ \/ ~OwnTransaction(u, x) /\ Answer(c, "TRANSACTION_NOT_FOUND")
     \/ /\ OwnTransaction(u, x)
        /\ Await(c, [Idle("NONE") EXCEPT !.at = "deleteTransaction", !.user = u,
                                         !.transaction = x])
  /\ UNCHANGED tables

DeleteTransaction(c) ==
  LET x == req[c].transaction
  IN /\ At(c, "deleteTransaction")
     /\ \/ /\ transactions[x] # None
           /\ transactions' = [transactions EXCEPT ![x] = None]
           /\ Written(c)
           /\ UNCHANGED <<categories, issued>>
        \/ /\ transactions[x] = None
           /\ Answer(c, "INTERNAL_SERVER_ERROR")
           /\ UNCHANGED tables

-----------------------------------------------------------------------------
\* A statement, or the transaction around it, fails or times out (P2028) and
\* is rolled back; the exception filter answers 500.
Fail(c) ==
  /\ MayFail
  /\ ~At(c, "idle")
  /\ Answer(c, "INTERNAL_SERVER_ERROR")
  /\ UNCHANGED tables

Arrive(c) ==
  \E u \in User :
    \/ \E n \in Name, t \in Type : CreateCategory(c, u, n, t)
    \/ \E k \in CategoryId :
         \/ \E patch \in CategoryPatches : UpdateCategory(c, u, k, patch)
         \/ RemoveCategory(c, u, k)
         \/ \E t \in Type : CreateTransaction(c, u, k, t)
    \/ \E x \in TransactionId :
         \/ \E patch \in TransactionPatches : UpdateTransaction(c, u, x, patch)
         \/ RemoveTransaction(c, u, x)

Proceed(c) ==
  \/ InsertCategory(c)
  \/ CheckName(c)
  \/ WriteCategory(c)
  \/ CountTransactions(c)
  \/ DeleteCategory(c)
  \/ InsertTransaction(c)
  \/ CheckCategory(c)
  \/ WriteTransaction(c)
  \/ DeleteTransaction(c)

Next == \E c \in Client : Arrive(c) \/ Proceed(c) \/ Fail(c)

Spec == Init /\ [][Next]_vars

-----------------------------------------------------------------------------
(* Properties                                                              *)

\* No transaction is left pointing at a category that is gone, although
\* remove() counts the transactions in one query and deletes in a later one.
ReferentialIntegrity ==
  \A x \in TransactionId :
    transactions[x] # None => categories[transactions[x].category] # None

\* A transaction is filed under a category of its own user.  The foreign key
\* does not say so: only findCategoryById's userId filter does, in an earlier
\* query than the write, and update writes by id alone.
OwnershipAgrees ==
  \A x \in TransactionId :
    LET k == transactions[x].category
    IN transactions[x] # None /\ categories[k] # None => categories[k].user = transactions[x].user

\* A user never has two categories of one normalized name, although the name
\* is checked in one query and written in a later one.
NamesUnique ==
  \A j, k \in CategoryId :
    /\ categories[j] # None
    /\ categories[k] # None
    /\ categories[j].user = categories[k].user
    /\ categories[j].name = categories[k].name
    => j = k

\* Every row has a uuid that was handed out, and none is handed out again.
IdsIssued ==
  /\ \A k \in CategoryId : categories[k] # None => k \in issued
  /\ \A x \in TransactionId : transactions[x] # None => x \in issued

\* The category, or transaction, of request r is not (or no longer) another user's.
HoldsCategory(r) ==
  /\ r.category \in CategoryId \cap issued
  /\ categories[r.category] # None => categories[r.category].user = r.user
HoldsTransaction(r) ==
  /\ r.transaction \in TransactionId \cap issued
  /\ transactions[r.transaction] # None => transactions[r.transaction].user = r.user

\* What request r established in its earlier statements, and its next one counts on.
Authorized(r) ==
  /\ r.at # "idle" => r.user \in User
  /\ r.at = "insertCategory" => r.name \in Name /\ r.type \in Type
  /\ r.at = "checkName" => r.name \in Name
  /\ r.at \in {"checkName", "updateCategory", "countTransactions", "deleteCategory"} =>
       r.category \in CategoryId
  /\ r.at = "insertTransaction" => r.type \in Type /\ HoldsCategory(r)
  /\ r.at \in {"checkCategory", "updateTransaction", "deleteTransaction"} => HoldsTransaction(r)
  /\ r.at \in {"checkCategory", "updateTransaction"} => r.seen \in TransactionRow
  /\ r.at = "updateTransaction" => CheckedCategory(r) \in issued
  /\ r.at = "updateTransaction" /\ r.category # None => HoldsCategory(r)

\* A request that passed its ownership checks never ends up writing to, or filing
\* under, a row of another user, however long ago the checks were.
RequestsStayAuthorized == \A c \in Client : Authorized(req[c])

\* The inductive invariant of the proofs.
IndInv == /\ TypeOK
          /\ ReferentialIntegrity
          /\ OwnershipAgrees
          /\ NamesUnique
          /\ IdsIssued
          /\ RequestsStayAuthorized

\* The request client c serves took a step.
Steps(c) == req'[c] # req[c]

\* The rows the step creates, changes or removes are those of u.
WritesRowsOf(u) ==
  /\ \A k \in CategoryId : categories'[k] # categories[k] =>
       \A row \in {categories[k], categories'[k]} \ {None} : row.user = u
  /\ \A x \in TransactionId : transactions'[x] # transactions[x] =>
       \A row \in {transactions[x], transactions'[x]} \ {None} : row.user = u

\* A step serving a user creates, changes and removes rows of that user only,
\* although the transaction writes are by id, without the userId.
OnlyOwnRows ==
  [][\A c \in Client : Steps(c) => WritesRowsOf(req[c].user)]_vars

\* A PATCH of a transaction leaves a field its body does not carry as the last
\* commit left it: two concurrent PATCHes of different fields both survive.
NoLostPatch ==
  [][\A c \in Client, x \in TransactionId :
       Steps(c) /\ At(c, "updateTransaction") /\ transactions[x] # None =>
         /\ req[c].category = None => transactions'[x].category = transactions[x].category
         /\ req[c].type = None => transactions'[x].type = transactions[x].type
    ]_vars

\* Every request takes effect at one instant or not at all, as the contract says.
ImplementsContract == Contract!Spec

\* A transaction's type is its category's type (docs/modules/transactions.md).
TypesMatch ==
  \A x \in TransactionId :
    LET k == transactions[x].category
    IN transactions[x] # None /\ categories[k] # None => categories[k].type = transactions[x].type

\* A category of another type than what is, or is to be, filed under it.
Mistyped(k, type) == categories[k] # None /\ categories[k].type # type
Mismatched(x) ==
  transactions[x] # None /\ Mistyped(transactions[x].category, transactions[x].type)

\* A request whose validation does not hold any more when it comes to write: of the
\* category, or, for half a patch, of the row that was to give the other half.
Outdated(r) ==
  \/ /\ r.at \in {"insertTransaction", "updateTransaction"}
     /\ Mistyped(CheckedCategory(r), CheckedType(r))
  \/ /\ r.at \in {"checkCategory", "updateTransaction"}
     /\ ~(r.category = None <=> r.type = None)
     /\ transactions[r.transaction] \notin {r.seen, None}

\* The step gives category k another type, or patches transaction x.
Retypes(k) == /\ categories[k] # None /\ categories'[k] # None
              /\ categories'[k].type # categories[k].type
Patches(x) == \E c \in Client : /\ Steps(c) /\ At(c, "updateTransaction")
                               /\ req[c].transaction = x

\* No transaction gets another type than its category's unless the category is retyped
\* or the writing request was overtaken; and a request is overtaken only by a retype of
\* the category it checked or, sending half a patch, by another patch of its row.  Hence
\* no deletion, creation, failure or race of full patches can break the match of types.
MismatchHasCause ==
  [][/\ \A x \in TransactionId : Mismatched(x)' =>
          \/ Mismatched(x) \/ Retypes(transactions'[x].category)
          \/ \E c \in Client : Steps(c) /\ Outdated(req[c])
     /\ \A c \in Client : Outdated(req[c])' =>
          \/ Outdated(req[c]) \/ Retypes(CheckedCategory(req'[c]))
          \/ Patches(req'[c].transaction)
    ]_vars

\* Clients that never retype a category, and send a transaction's category
\* together with its type or neither.  The API obliges nobody to.
Disciplined ==
  /\ \A body \in CategoryPatches : body.type = None
  /\ \A body \in TransactionPatches : body.category = None <=> body.type = None

\* The type request r checked is, with disciplined clients, still its category's.
KnowsType(r) ==
  /\ r.at \in {"checkName", "updateCategory"} => r.type = None
  /\ r.at \in {"checkCategory", "updateTransaction"} => (r.category = None <=> r.type = None)
  /\ /\ \/ r.at = "insertTransaction"
        \/ r.at = "updateTransaction" /\ r.category # None
     /\ categories[r.category] # None
     => categories[r.category].type = r.type

\* With IndInv, what makes TypesMatch inductive for disciplined clients.
TypesInv == TypesMatch /\ \A c \in Client : KnowsType(req[c])

\* What ensureCategoryMatchesType found still holds when the row it validated is
\* written (docs/architecture/transaction-management.md).
ValidatedWhenWritten ==
  [][\A x \in TransactionId :
       LET row == transactions'[x]
       IN row # transactions[x] /\ row # None =>
            categories[row.category] # None /\ categories[row.category].type = row.type
    ]_vars

\* The name c is about to write, to a new category or to one it renames, is taken.
NameTaken(c) ==
  LET r == req[c]
  IN \/ At(c, "insertCategory") /\ ~UniqueName(r.user, r.name, None)
     \/ /\ At(c, "updateCategory") /\ r.name # None
        /\ OwnCategory(r.user, r.category) /\ ~UniqueName(r.user, r.name, r.category)

\* A name that is taken is answered CATEGORY_ALREADY_EXISTS and a category in use
\* CATEGORY_IN_USE, whenever the database refuses the write for that reason
\* (docs/api/categories-api.md).
RefusedAsConflict ==
  [][\A c \in Client : Steps(c) =>
       /\ NameTaken(c) => req'[c].reply = "CATEGORY_ALREADY_EXISTS"
       /\ At(c, "deleteCategory") /\ ~NotReferenced(req[c].category) =>
            req'[c].reply = "CATEGORY_IN_USE"
    ]_vars
=============================================================================
