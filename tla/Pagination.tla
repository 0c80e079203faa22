----------------------------- MODULE Pagination -----------------------------
(***************************************************************************)
(* A client walks through a list page by page (GET /transactions,          *)
(* /categories, /reports/transactions, /dashboard/recent-transactions)     *)
(* while other requests insert, change and delete rows of it.              *)
(*                                                                         *)
(* Of a row only two things matter: key, the value of the column the walk  *)
(* sorts by, and fits, whether the row passes the filters of the walk      *)
(* (user, type, category, dates).  A column other than createdAt may       *)
(* change, and so may what a row passes.                                   *)
(*                                                                         *)
(* listed, steady and disturbed are not in the code: they record the walk  *)
(* for the properties.                                                     *)
(*                                                                         *)
(* Name_Fault is the definition Name with a plausible mistake in it; it is *)
(* not used below, and shows what the property named for it rules out.     *)
(***************************************************************************)
EXTENDS Integers, FiniteSets

CONSTANTS Id, Key,       \* uuids and column values, as numbers in their order
          DefaultLimit, MaxLimit,
          None

VARIABLES rows,      \* the table: id -> row, or None
          issued,    \* uuids the table ever held
          query,     \* sortBy, sortOrder and limit: the client never changes them
          cursor,    \* the nextCursor the client holds
          hasNext,   \* whether it asks for another page
          page,      \* data of the last response
          listed,    \* data of the responses before
          steady,    \* rows that fit from the start and were not written since
          disturbed  \* was a cursor's row written while it was the cursor?

table   == <<rows, issued>>
history == <<listed, steady, disturbed>>
vars    == <<rows, issued, query, cursor, hasNext, page, listed, steady, disturbed>>

Row         == [key : Key, fits : BOOLEAN]
Optional(S) == S \cup {None}

\* The DTOs let a limit of 1 to MAX_PAGE_LIMIT through, or none.
Query == [sortBy    : {"createdAt", "other"},
          sortOrder : {"asc", "desc"},
          limit     : Optional(1 .. MaxLimit)]

ASSUME OrderedValues == Id \subseteq Int /\ Key \subseteq Int
ASSUME UuidsFinite   == IsFiniteSet(Id)
ASSUME LimitsTyped   == MaxLimit \in Nat \ {0} /\ DefaultLimit \in 1 .. MaxLimit
ASSUME NoneIsFresh   == None \notin Id \cup Row \cup 1 .. MaxLimit

NormalizedLimit == IF query.limit = None THEN DefaultLimit ELSE query.limit

Typed == /\ rows \in [Id -> Optional(Row)]
         /\ issued \subseteq Id
         /\ query \in Query
         /\ cursor \in Optional(Id)
         /\ hasNext \in BOOLEAN
         /\ page \subseteq Id
         /\ listed \subseteq Id
         /\ steady \subseteq Id
         /\ disturbed \in BOOLEAN

TypeOK == Typed /\ Cardinality(page) <= NormalizedLimit

Fitting == {i \in Id : rows[i] # None /\ rows[i].fits}

Init == /\ rows \in [Id -> Optional(Row)]
        /\ issued = {i \in Id : rows[i] # None}
        /\ query \in Query
        /\ cursor = None
        /\ hasNext = TRUE
        /\ page = {}
        /\ listed = {}
        /\ steady = Fitting
        /\ disturbed = FALSE

-----------------------------------------------------------------------------
(* A page                                                                  *)

\* orderBy: the column, then the id, both in the order asked for.
Ascending(i, j) == \/ rows[i].key < rows[j].key
                   \/ rows[i].key = rows[j].key /\ i < j
Precedes(i, j)  == IF query.sortOrder = "asc" THEN Ascending(i, j) ELSE Ascending(j, i)

FirstOf(n, S) == {i \in S : Cardinality({j \in S : Precedes(j, i)}) < n}
LastOf(S)     == {i \in S : \A j \in S \ {i} : Precedes(j, i)}

\* `cursor`: the rows from the cursor's on, wherever that row is now and whether or
\* not it fits; without it, there are none.
FromCursor ==
  CASE cursor = None       -> Fitting
    [] cursor # None /\ rows[cursor] = None -> {}
    [] OTHER               -> {i \in Fitting : i = cursor \/ Precedes(cursor, i)}

Skip_Nothing == 0
Skip         == IF cursor = None THEN 0 ELSE 1
Take         == NormalizedLimit + 1

Items == FirstOf(Take, FromCursor \ FirstOf(Skip, FromCursor))

HasNext(items) == Cardinality(items) > NormalizedLimit

Data_Untrimmed(items) == items
Data(items)           == FirstOf(NormalizedLimit, items)

NextCursor_OfExtraRow(items) == IF HasNext(items) THEN LastOf(items) ELSE {None}
NextCursor(items)            == IF HasNext(items) THEN LastOf(Data(items)) ELSE {None}

ListPage ==
  /\ hasNext
  /\ page' = Data(Items)
  /\ hasNext' = HasNext(Items)
  /\ cursor' \in NextCursor(Items)
  /\ listed' = listed \cup page
  /\ UNCHANGED <<table, query, steady, disturbed>>

-----------------------------------------------------------------------------
(* Other requests                                                          *)

Insert(i, row) ==
  /\ i \notin issued
  /\ rows' = [rows EXCEPT ![i] = row]
  /\ issued' = issued \cup {i}
  /\ UNCHANGED <<query, cursor, hasNext, page, history>>

Write(i, row) ==
  /\ rows[i] # None
  /\ rows' = [rows EXCEPT ![i] = row]
  /\ steady' = steady \ {i}
  /\ disturbed' = (disturbed \/ i = cursor)
  /\ UNCHANGED <<issued, query, cursor, hasNext, page, listed>>

\* createdAt is set once; an update may change any other column.
Update(i, row) ==
  /\ rows[i] # None /\ rows[i] # row
  /\ query.sortBy = "createdAt" => row.key = rows[i].key
  /\ Write(i, row)

Delete(i) == Write(i, None)

Next == \/ ListPage
        \/ \E i \in Id :
             \/ \E row \in Row : Insert(i, row) \/ Update(i, row)
             \/ Delete(i)

Spec == Init /\ [][Next]_vars

-----------------------------------------------------------------------------
(* Properties                                                              *)

\* In the order of createdAt no row is listed twice, whatever is inserted, changed
\* or deleted between the pages.  In the order of a column that changes, a row is
\* listed twice only if it was written itself, or the cursor's row was.
ListedOnce ==
  /\ query.sortBy = "createdAt" => page \cap listed = {}
  /\ ~disturbed => page \cap listed \cap steady = {}

\* A finished walk has listed every row that was there all along, if no row was
\* written while it was the cursor: rows inserted, changed or deleted anywhere else
\* push none over the edge of a page.
NoneSkipped == ~hasNext /\ ~disturbed => steady \subseteq listed \cup page

\* Rows whose place in the walk the properties speak of: their own key is the one
\* they were listed with, and so is the cursor's.
Tracked(i) == \/ query.sortBy = "createdAt"
              \/ ~disturbed /\ i \in steady

Behind(i) == \/ rows[cursor] = None
             \/ i = cursor
             \/ Precedes(i, cursor)

\* The inductive invariant of the proofs: what was listed lies behind the cursor.
IndInv ==
  /\ Typed
  /\ steady \cup listed \cup page \subseteq issued
  /\ \A i \in Id : rows[i] # None => i \in issued
  /\ cursor # None => cursor \in issued
  /\ cursor = None /\ hasNext => page = {} /\ listed = {}
  /\ \A i \in listed \cup page :
       Tracked(i) /\ cursor # None /\ rows[i] # None => Behind(i)
  /\ \A i \in steady : rows[i] # None
  /\ ListedOnce

\* And what was not listed lies ahead of it: every row that fitted all along, as long
\* as the cursor's row stays where it was.
Ahead(i) == IF cursor = None THEN hasNext ELSE hasNext /\ Precedes(cursor, i)

WalkInv ==
  ~disturbed => /\ steady \subseteq Fitting
                /\ cursor # None => cursor \in Fitting
                /\ \A i \in steady \ (listed \cup page) : Ahead(i)
=============================================================================
