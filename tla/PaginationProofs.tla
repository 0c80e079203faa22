-------------------------- MODULE PaginationProofs --------------------------
(* Theorems about Pagination for any table, limit and sequence of writes. *)
EXTENDS Pagination, FiniteSetTheorems, TLAPS

-----------------------------------------------------------------------------
(* The order                                                               *)

\* (column, id) orders the rows of the table strictly, in either direction.
LEMMA Order ==
  ASSUME Typed, NEW i \in Id, NEW j \in Id, NEW k \in Id,
         rows[i] # None, rows[j] # None, rows[k] # None
  PROVE  /\ ~Precedes(i, i)
         /\ Precedes(i, j) /\ Precedes(j, k) => Precedes(i, k)
<1>1. rows[i].key \in Int /\ rows[j].key \in Int /\ rows[k].key \in Int
  BY OrderedValues DEF Typed, Optional, Row
<1>2. i \in Int /\ j \in Int /\ k \in Int
  BY OrderedValues
<1> QED BY <1>1, <1>2 DEF Precedes, Ascending

\* The first row from the cursor on is the cursor's own, if it is there at all: a
\* page holds only rows after it.
LEMMA PageIsPastTheCursor ==
  ASSUME Typed, cursor # None, NEW i \in Items
  PROVE  i \in Fitting /\ rows[cursor] # None /\ Precedes(cursor, i)
<1>1. cursor \in Id
  BY DEF Typed, Optional
<1>2. i \in FromCursor /\ i \notin FirstOf(1, FromCursor)
  BY DEF Items, FirstOf, Skip
<1>3. /\ rows[cursor] # None
      /\ FromCursor = {j \in Fitting : j = cursor \/ Precedes(cursor, j)}
  BY <1>2 DEF FromCursor
<1>4. i \in Fitting /\ (i = cursor \/ Precedes(cursor, i))
  BY <1>2, <1>3
<1>5. ASSUME i = cursor PROVE FALSE
  <2>1. \A j \in FromCursor : ~Precedes(j, i)
    <3>1. SUFFICES ASSUME NEW j \in FromCursor, Precedes(j, i) PROVE FALSE
      OBVIOUS
    <3>2. j \in Id /\ rows[j] # None /\ (j = cursor \/ Precedes(cursor, j))
      BY <1>3 DEF Fitting
    <3> QED BY <3>1, <3>2, <1>1, <1>3, <1>5, Order
  <2>2. {j \in FromCursor : Precedes(j, i)} = {}
    BY <2>1
  <2>3. Cardinality({j \in FromCursor : Precedes(j, i)}) < 1
    BY <2>2, FS_EmptySet
  <2> QED BY <2>3, <1>2 DEF FirstOf
<1> QED BY <1>3, <1>4, <1>5

-----------------------------------------------------------------------------
(* The steps                                                               *)

LEMMA InitStep == Init => IndInv
<1>1. SUFFICES ASSUME Init PROVE IndInv
  OBVIOUS
<1>2. Typed
  BY <1>1 DEF Init, Typed, Optional, Fitting
<1> QED BY <1>1, <1>2 DEF Init, IndInv, Fitting, ListedOnce

LEMMA ListPageStep ==
  ASSUME IndInv, ListPage
  PROVE  IndInv'
<1>1. Typed
  BY DEF IndInv
<1>2. /\ UNCHANGED <<rows, issued, query, steady, disturbed>>
      /\ hasNext /\ hasNext' \in BOOLEAN /\ listed' = listed \cup page
  BY DEF ListPage, table, HasNext
<1>3. page' \subseteq Items /\ Items \subseteq Fitting
  <2>1. FromCursor \subseteq Fitting
    BY DEF FromCursor
  <2> QED BY <2>1 DEF ListPage, Data, Items, FirstOf
<1>4. /\ cursor' = None \/ cursor' \in LastOf(page')
      /\ hasNext' => cursor' \in LastOf(page')
  BY DEF ListPage, NextCursor
<1>5. cursor' = None \/ cursor' \in page'
  BY <1>4 DEF LastOf
<1>6. Fitting \subseteq Id /\ Fitting \subseteq issued /\ \A i \in Fitting : rows[i] # None
  BY DEF Fitting, IndInv
<1>7. None \notin Id
  BY NoneIsFresh
<1>8. Typed'
  BY <1>1, <1>2, <1>3, <1>5, <1>6 DEF Typed, Optional
<1>9. \A i, j : Precedes(i, j)' <=> Precedes(i, j)
  BY <1>2 DEF Precedes, Ascending
<1>10. \A i : Tracked(i)' <=> Tracked(i)
  BY <1>2 DEF Tracked
<1>11. ASSUME NEW i \in listed \cup page, NEW j \in page', Tracked(i), rows[i] # None
       PROVE  Precedes(i, j)
  <2>1. cursor # None
    BY <1>2 DEF IndInv
  <2>2. j \in Fitting /\ rows[cursor] # None /\ Precedes(cursor, j)
    BY <2>1, <1>1, <1>3, PageIsPastTheCursor
  <2>3. i = cursor \/ Precedes(i, cursor)
    BY <2>1, <2>2, <1>11 DEF IndInv, Behind
  <2>4. i \in Id /\ j \in Id /\ cursor \in Id /\ rows[j] # None
    BY <2>1, <2>2, <1>1, <1>6 DEF Typed, Optional
  <2> QED BY <2>2, <2>3, <2>4, <1>1, <1>11, Order
<1>12. ASSUME NEW i \in listed' \cup page', Tracked(i)', cursor' # None, rows'[i] # None
       PROVE  Behind(i)'
  <2>1. cursor' \in page' /\ cursor' \in LastOf(page')
    BY <1>4, <1>5, <1>12
  <2>2. CASE i \in page'
    <3>1. i # cursor' => Precedes(i, cursor')
      BY <2>1, <2>2 DEF LastOf
    <3> QED BY <3>1, <1>2 DEF Behind, Precedes, Ascending
  <2>3. CASE i \in listed'
    <3>1. Precedes(i, cursor')
      BY <2>1, <2>3, <1>2, <1>10, <1>11, <1>12
    <3> QED BY <3>1, <1>2 DEF Behind, Precedes, Ascending
  <2> QED BY <2>2, <2>3, <1>12
<1>13. \A i \in page' \cap listed' : Tracked(i) => FALSE
  <2>1. SUFFICES ASSUME NEW i \in page', i \in listed', Tracked(i) PROVE FALSE
    OBVIOUS
  <2>2. i \in Id /\ rows[i] # None
    BY <1>3, <1>6
  <2> QED BY <2>1, <2>2, <1>1, <1>2, <1>11, Order
<1>14. ListedOnce'
  BY <1>2, <1>10, <1>13 DEF ListedOnce, Tracked
<1> QED BY <1>2, <1>3, <1>4, <1>5, <1>6, <1>7, <1>8, <1>12, <1>14 DEF IndInv, LastOf

LEMMA InsertStep ==
  ASSUME IndInv, NEW i \in Id, NEW row \in Row, Insert(i, row)
  PROVE  IndInv'
<1>1. /\ UNCHANGED <<query, cursor, hasNext, page, listed, steady, disturbed>>
      /\ issued' = issued \cup {i} /\ i \notin issued
      /\ rows' = [rows EXCEPT ![i] = row]
  BY DEF Insert, history
<1>2. Typed'
  BY <1>1 DEF IndInv, Typed, Optional
<1>3. \A j \in Id : j # i => rows'[j] = rows[j]
  BY <1>1 DEF IndInv, Typed
<1>4. cursor # None => cursor \in Id /\ cursor # i
  BY <1>1 DEF IndInv, Typed, Optional
<1>5. \A j \in steady \cup listed \cup page : j \in Id /\ j # i
  BY <1>1 DEF IndInv, Typed
<1>6. \A j \in listed' \cup page' :
        Tracked(j)' /\ cursor' # None /\ rows'[j] # None => Behind(j)'
  BY <1>1, <1>3, <1>4, <1>5 DEF IndInv, Tracked, Behind, Precedes, Ascending
<1>7. \A j \in Id : rows'[j] # None => j \in issued'
  BY <1>1, <1>3 DEF IndInv
<1>8. \A j \in steady' : rows'[j] # None
  BY <1>1, <1>3, <1>5 DEF IndInv
<1> QED BY <1>1, <1>2, <1>6, <1>7, <1>8 DEF IndInv, ListedOnce

\* A write to a row moves no other row, and a row that moved is tracked no longer,
\* nor is any row once the cursor's has moved.
LEMMA WriteStep ==
  ASSUME IndInv, NEW i \in Id, NEW row \in Optional(Row), Write(i, row),
         query.sortBy = "createdAt" /\ row # None => row.key = rows[i].key
  PROVE  IndInv'
<1>1. /\ UNCHANGED <<issued, query, cursor, hasNext, page, listed>>
      /\ rows' = [rows EXCEPT ![i] = row] /\ rows[i] # None
      /\ steady' = steady \ {i}
      /\ disturbed' = (disturbed \/ i = cursor)
  BY DEF Write
<1>2. Typed'
  BY <1>1 DEF IndInv, Typed
<1>3. rows'[i] = row /\ \A j \in Id : j # i => rows'[j] = rows[j]
  BY <1>1 DEF IndInv, Typed
<1>4. \A j \in Id : rows'[j] # None => rows[j] # None
  BY <1>1, <1>3
<1>5. cursor # None => cursor \in Id
  BY DEF IndInv, Typed, Optional
<1>6. listed \cup page \cup steady \subseteq Id
  BY DEF IndInv, Typed
<1>7. \A j : Tracked(j)' => Tracked(j)
  BY <1>1 DEF Tracked
<1>8. ASSUME NEW j \in listed' \cup page', Tracked(j)', cursor' # None, rows'[j] # None,
             rows'[cursor'] # None, j # cursor'
      PROVE  Behind(j)'
  <2>1. j \in Id /\ cursor \in Id /\ cursor' = cursor
    BY <1>1, <1>5, <1>6, <1>8
  <2>2. Precedes(j, cursor)
    BY <2>1, <1>1, <1>4, <1>7, <1>8 DEF IndInv, Behind
  <2>3. rows'[j].key = rows[j].key /\ rows'[cursor].key = rows[cursor].key
    <3>1. CASE query.sortBy = "createdAt"
      BY <3>1, <2>1, <1>3, <1>8
    <3>2. CASE query.sortBy # "createdAt"
      BY <3>2, <2>1, <1>1, <1>3, <1>8 DEF Tracked
    <3> QED BY <3>1, <3>2
  <2> QED BY <2>1, <2>2, <2>3, <1>1 DEF Behind, Precedes, Ascending
<1>9. \A j \in steady' : rows'[j] # None
  BY <1>1, <1>3, <1>6 DEF IndInv
<1>10. ListedOnce'
  BY <1>1 DEF IndInv, ListedOnce
<1>11. \A j \in listed' \cup page' :
         Tracked(j)' /\ cursor' # None /\ rows'[j] # None => Behind(j)'
  BY <1>8 DEF Behind
<1> QED BY <1>1, <1>2, <1>4, <1>6, <1>9, <1>10, <1>11 DEF IndInv

LEMMA NextStep == IndInv /\ [Next]_vars => IndInv'
<1>1. SUFFICES ASSUME IndInv, [Next]_vars PROVE IndInv'
  OBVIOUS
<1>2. CASE ListPage
  BY <1>1, <1>2, ListPageStep
<1>3. ASSUME NEW i \in Id, NEW row \in Row, Insert(i, row) PROVE IndInv'
  BY <1>1, <1>3, InsertStep
<1>4. ASSUME NEW i \in Id, NEW row \in Row, Update(i, row) PROVE IndInv'
  <2>1. row \in Optional(Row) /\ Write(i, row)
    BY <1>4 DEF Update, Optional
  <2>2. query.sortBy = "createdAt" /\ row # None => row.key = rows[i].key
    BY <1>4 DEF Update
  <2> QED BY <2>1, <2>2, <1>1, WriteStep
<1>5. ASSUME NEW i \in Id, Delete(i) PROVE IndInv'
  <2>1. None \in Optional(Row) /\ Write(i, None)
    BY <1>5 DEF Delete, Optional
  <2> QED BY <2>1, <1>1, WriteStep
<1>6. CASE UNCHANGED vars
  BY <1>1, <1>6 DEF vars, IndInv, Typed, ListedOnce, Tracked, Behind, Precedes, Ascending
<1> QED BY <1>1, <1>2, <1>3, <1>4, <1>5, <1>6 DEF Next

-----------------------------------------------------------------------------
(* The theorems                                                            *)

THEOREM Invariance == Spec => []IndInv
BY InitStep, NextStep, PTL DEF Spec

\* However many rows are inserted, changed or deleted between the pages, a walk in
\* the order of createdAt lists no row twice, and one in another order only rows
\* that were written, unless the cursor's row was.
THEOREM NoRowListedTwice == Spec => []ListedOnce
<1>1. IndInv => ListedOnce
  BY DEF IndInv
<1> QED BY <1>1, Invariance, PTL

-----------------------------------------------------------------------------
(* The first n of a set of rows                                            *)

Listable(S) == S \subseteq {i \in Id : rows[i] # None}

Before(S, i) == {j \in S : Precedes(j, i)}
After(S, i)  == {j \in S : Precedes(i, j)}

LEMMA TotalOrder ==
  ASSUME Typed, NEW i \in Id, NEW j \in Id, rows[i] # None, rows[j] # None, i # j
  PROVE  Precedes(i, j) \/ Precedes(j, i)
<1>1. rows[i].key \in Int /\ rows[j].key \in Int
  BY OrderedValues DEF Typed, Optional, Row
<1>2. i \in Int /\ j \in Int
  BY OrderedValues
<1> QED BY <1>1, <1>2 DEF Precedes, Ascending

LEMMA ListableFinite ==
  ASSUME NEW S, Listable(S)
  PROVE  /\ IsFiniteSet(S) /\ Cardinality(S) \in Nat
         /\ \A T \in SUBSET S : /\ Listable(T) /\ IsFiniteSet(T)
                                 /\ Cardinality(T) \in Nat /\ Cardinality(T) <= Cardinality(S)
<1>1. S \subseteq Id /\ IsFiniteSet(S)
  BY UuidsFinite, FS_Subset DEF Listable
<1>2. ASSUME NEW T \in SUBSET S
      PROVE  /\ Listable(T) /\ IsFiniteSet(T)
             /\ Cardinality(T) \in Nat /\ Cardinality(T) <= Cardinality(S)
  <2>1. IsFiniteSet(T) /\ Cardinality(T) <= Cardinality(S)
    BY <1>1, FS_Subset
  <2> QED BY <2>1, FS_CardinalityType DEF Listable
<1> QED BY <1>1, <1>2, FS_CardinalityType

\* Of a family of subsets, one has no proper subset in the family.
LEMMA Minimal ==
  ASSUME NEW S, IsFiniteSet(S), NEW F, F \subseteq SUBSET S, F # {}
  PROVE  \E T \in F : \A U \in F : U \subseteq T => U = T
<1>1. FiniteSubsetsOf(S) = SUBSET S
  BY FS_FiniteSubsetsOfFinite
<1>2. IsWellFoundedOn(StrictSubsetOrdering(S), SUBSET S)
  BY <1>1, FS_StrictSubsetOrderingWellFounded
<1>3. PICK T \in F : \A U \in F : ~(<<U, T>> \in StrictSubsetOrdering(S))
  BY <1>2, WFMin
<1>4. ASSUME NEW U \in F, U \subseteq T, U # T PROVE FALSE
  <2>1. <<U, T>> \in (SUBSET S) \X (SUBSET S)
    BY <1>4
  <2>2. <<U, T>>[1] = U /\ <<U, T>>[2] = T
    OBVIOUS
  <2> QED BY <1>3, <1>4, <2>1, <2>2 DEF StrictSubsetOrdering
<1> QED BY <1>4

\* The row before which the fewest come is the least.
LEMMA Least ==
  ASSUME Typed, NEW S, Listable(S), S # {}
  PROVE  \E m \in S : \A j \in S \ {m} : Precedes(m, j)
<1> DEFINE family == {Before(S, i) : i \in S}
<1>1. family \subseteq SUBSET S /\ family # {}
  BY DEF Before
<1>2. IsFiniteSet(S)
  BY ListableFinite
<1> HIDE DEF family
<1>3. PICK T \in family : \A U \in family : U \subseteq T => U = T
  BY <1>1, <1>2, Minimal
<1> USE DEF family
<1>4. PICK m \in S : T = Before(S, m)
  OBVIOUS
<1>5. \A i \in S : i \in Id /\ rows[i] # None
  BY DEF Listable
<1>6. ASSUME NEW j \in S, Precedes(j, m) PROVE FALSE
  <2>1. Before(S, j) \subseteq Before(S, m)
    BY <1>5, <1>6, Order DEF Before
  <2>2. j \in Before(S, m) /\ j \notin Before(S, j)
    BY <1>5, <1>6, Order DEF Before
  <2> QED BY <1>3, <1>4, <2>1, <2>2
<1>7. ASSUME NEW j \in S \ {m} PROVE Precedes(m, j)
  BY <1>5, <1>6, TotalOrder
<1> QED BY <1>7

LEMMA Greatest ==
  ASSUME Typed, NEW S, Listable(S), S # {}
  PROVE  \E m \in S : \A j \in S \ {m} : Precedes(j, m)
<1> DEFINE family == {After(S, i) : i \in S}
<1>1. family \subseteq SUBSET S /\ family # {}
  BY DEF After
<1>2. IsFiniteSet(S)
  BY ListableFinite
<1> HIDE DEF family
<1>3. PICK T \in family : \A U \in family : U \subseteq T => U = T
  BY <1>1, <1>2, Minimal
<1> USE DEF family
<1>4. PICK m \in S : T = After(S, m)
  OBVIOUS
<1>5. \A i \in S : i \in Id /\ rows[i] # None
  BY DEF Listable
<1>6. ASSUME NEW j \in S, Precedes(m, j) PROVE FALSE
  <2>1. After(S, j) \subseteq After(S, m)
    BY <1>5, <1>6, Order DEF After
  <2>2. j \in After(S, m) /\ j \notin After(S, j)
    BY <1>5, <1>6, Order DEF After
  <2> QED BY <1>3, <1>4, <2>1, <2>2
<1>7. ASSUME NEW j \in S \ {m} PROVE Precedes(j, m)
  BY <1>5, <1>6, TotalOrder
<1> QED BY <1>7

\* `take` returns no more than it says: all but the last of them come before it.
LEMMA FirstAtMost ==
  ASSUME Typed, NEW S, Listable(S), NEW n \in Nat
  PROVE  Cardinality(FirstOf(n, S)) <= n
<1> DEFINE F == FirstOf(n, S)
<1>1. F \subseteq S
  BY DEF FirstOf
<1>2. Listable(F) /\ IsFiniteSet(F)
  BY <1>1, ListableFinite
<1>3. CASE F = {}
  BY <1>3, FS_EmptySet
<1>4. CASE F # {}
  <2>1. PICK m \in F : \A j \in F \ {m} : Precedes(j, m)
    BY <1>2, <1>4, Greatest
  <2>2. F \ {m} \subseteq Before(S, m) /\ Before(S, m) \subseteq S
    BY <1>1, <2>1 DEF Before
  <2>3. IsFiniteSet(Before(S, m)) /\ Cardinality(Before(S, m)) \in Nat
    BY <2>2, ListableFinite
  <2>4. Cardinality(F \ {m}) <= Cardinality(Before(S, m))
    BY <2>2, <2>3, FS_Subset
  <2>5. Cardinality(Before(S, m)) < n
    BY <2>1 DEF FirstOf, Before
  <2>6. Cardinality(F \ {m}) = Cardinality(F) - 1 /\ Cardinality(F) \in Nat
    BY <1>2, <2>1, FS_RemoveElement, FS_CardinalityType
  <2> QED BY <2>3, <2>4, <2>5, <2>6
<1> QED BY <1>3, <1>4

\* And no fewer, if a row is left over; that row comes after them all.
LEMMA FirstReach ==
  ASSUME Typed, NEW S, Listable(S), NEW n \in Nat, NEW x \in S \ FirstOf(n, S)
  PROVE  /\ Cardinality(FirstOf(n, S)) >= n
         /\ \A f \in FirstOf(n, S) : Precedes(f, x)
<1> DEFINE F == FirstOf(n, S)
<1>1. F \subseteq S
  BY DEF FirstOf
<1>2. \A i \in S : i \in Id /\ rows[i] # None
  BY DEF Listable
<1>3. \A i \in S : /\ Before(S, i) \subseteq S /\ IsFiniteSet(Before(S, i))
                   /\ Cardinality(Before(S, i)) \in Nat
                   /\ i \in F <=> Cardinality(Before(S, i)) < n
  <2>1. \A i \in S : Before(S, i) \subseteq S /\ (i \in F <=> Cardinality(Before(S, i)) < n)
    BY DEF Before, FirstOf
  <2> QED BY <2>1, ListableFinite
<1>4. ASSUME NEW f \in F PROVE Precedes(f, x)
  <2>1. f \in S /\ x \in S /\ f # x
    BY <1>1
  <2>2. SUFFICES ASSUME Precedes(x, f) PROVE FALSE
    BY <1>2, <2>1, TotalOrder
  <2>3. Before(S, x) \subseteq Before(S, f)
    BY <1>2, <2>1, <2>2, Order DEF Before
  <2>4. Cardinality(Before(S, x)) <= Cardinality(Before(S, f))
    BY <1>3, <2>1, <2>3, FS_Subset
  <2>5. Cardinality(Before(S, f)) < n /\ ~(Cardinality(Before(S, x)) < n)
    BY <1>3, <2>1
  <2> QED BY <1>3, <2>1, <2>4, <2>5
<1>5. Cardinality(F) >= n
  <2>1. Listable(S \ F) /\ S \ F # {} /\ IsFiniteSet(F) /\ Cardinality(F) \in Nat
    BY <1>1, ListableFinite
  <2>2. PICK m \in S \ F : \A j \in (S \ F) \ {m} : Precedes(m, j)
    BY <2>1, Least
  <2>3. ASSUME NEW j \in Before(S, m), j \notin F PROVE FALSE
    <3>1. j \in S /\ Precedes(j, m)
      BY DEF Before
    <3>2. j # m
      BY <1>2, <2>2, <3>1, Order
    <3>3. Precedes(m, j)
      BY <2>2, <2>3, <3>1, <3>2
    <3> QED BY <1>2, <2>2, <3>1, <3>3, Order
  <2>4. Before(S, m) \subseteq F
    BY <2>3
  <2>5. Cardinality(Before(S, m)) <= Cardinality(F)
    BY <2>1, <2>4, FS_Subset
  <2>6. Cardinality(Before(S, m)) \in Nat /\ ~(Cardinality(Before(S, m)) < n)
    BY <1>3, <2>2
  <2> QED BY <2>1, <2>5, <2>6
<1> QED BY <1>4, <1>5

-----------------------------------------------------------------------------
(* The walk                                                                *)

LEMMA LimitTyped ==
  ASSUME Typed
  PROVE  NormalizedLimit \in Nat \ {0}
BY LimitsTyped DEF Typed, Query, Optional, NormalizedLimit

\* A row ahead of the cursor is on the page, or there is a next page and it is ahead
\* of that one's cursor.
LEMMA ListedOrAhead ==
  ASSUME Typed, cursor # None => cursor \in Fitting, NEW i \in Fitting,
         cursor # None => Precedes(cursor, i), i \notin Data(Items)
  PROVE  /\ HasNext(Items)
         /\ \A d \in Data(Items) : Precedes(d, i)
<1> DEFINE pool == FromCursor \ FirstOf(Skip, FromCursor)
           limit == NormalizedLimit
<1>1. Listable(pool) /\ Items \subseteq pool /\ Listable(Items) /\ Data(Items) \subseteq Items
  BY DEF FromCursor, Items, Data, FirstOf, Listable, Fitting
<1>2. limit \in Nat \ {0}
  BY LimitTyped
<1>3. i \in pool
  <2>1. Listable(FromCursor)
    BY DEF FromCursor, Listable, Fitting
  <2>2. CASE cursor = None
    <3>1. i \in FromCursor /\ Skip = 0
      BY <2>2 DEF FromCursor, Skip
    <3>2. Before(FromCursor, i) \in SUBSET FromCursor
      BY DEF Before
    <3>3. Cardinality(Before(FromCursor, i)) \in Nat
      BY <2>1, <3>2, ListableFinite
    <3> QED BY <3>1, <3>3 DEF FirstOf, Before
  <2>3. CASE cursor # None
    <3>1. /\ i \in FromCursor /\ cursor \in FromCursor /\ Skip = 1
      BY <2>3 DEF FromCursor, Skip, Fitting
    <3>2. cursor \in Before(FromCursor, i) /\ Before(FromCursor, i) \in SUBSET FromCursor
      BY <2>3, <3>1 DEF Before
    <3>3. IsFiniteSet(Before(FromCursor, i)) /\ Cardinality(Before(FromCursor, i)) \in Nat
      BY <2>1, <3>2, ListableFinite
    <3>4. Cardinality(Before(FromCursor, i)) # 0
      BY <3>2, <3>3, FS_EmptySet
    <3>5. ~(Cardinality(Before(FromCursor, i)) < 1)
      BY <3>3, <3>4
    <3> QED BY <3>1, <3>5 DEF FirstOf, Before
  <2> QED BY <2>2, <2>3
<1> HIDE DEF pool, limit
<1>4. Items = FirstOf(limit + 1, pool) /\ Data(Items) = FirstOf(limit, Items)
  BY DEF Items, Take, Data, pool, limit
<1>5. Cardinality(Items) \in Nat /\ Cardinality(Data(Items)) \in Nat
      /\ IsFiniteSet(Data(Items)) /\ IsFiniteSet(Items)
  BY <1>1, ListableFinite
<1>6. CASE i \notin Items
  <2>1. Cardinality(Items) >= limit + 1 /\ \A f \in Items : Precedes(f, i)
    BY <1>1, <1>2, <1>3, <1>4, <1>6, FirstReach
  <2> QED BY <1>1, <1>2, <1>5, <2>1 DEF HasNext, limit
<1>7. CASE i \in Items
  <2>1. Cardinality(Data(Items)) >= limit /\ \A f \in Data(Items) : Precedes(f, i)
    BY <1>1, <1>2, <1>4, <1>7, FirstReach
  <2>2. Data(Items) \cup {i} \in SUBSET Items
    BY <1>1, <1>7
  <2>3. Cardinality(Data(Items) \cup {i}) = Cardinality(Data(Items)) + 1
    BY <1>5, FS_AddElement
  <2>4. Cardinality(Data(Items) \cup {i}) <= Cardinality(Items)
    BY <1>5, <2>2, FS_Subset
  <2>5. Cardinality(Items) > limit
    BY <1>2, <1>5, <2>1, <2>3, <2>4
  <2> QED BY <2>1, <2>5 DEF HasNext, limit
<1> QED BY <1>6, <1>7

LEMMA WalkInit == Init => WalkInv
BY DEF Init, WalkInv, Ahead

LEMMA WalkListPage ==
  ASSUME IndInv, WalkInv, ListPage
  PROVE  WalkInv'
<1>1. Typed
  BY DEF IndInv
<1>2. /\ UNCHANGED <<rows, query, steady, disturbed>>
      /\ hasNext /\ hasNext' = HasNext(Items) /\ listed' = listed \cup page
      /\ page' = Data(Items) /\ cursor' \in NextCursor(Items)
  BY DEF ListPage, table
<1>3. Fitting' = Fitting /\ \A i, j : Precedes(i, j)' <=> Precedes(i, j)
  BY <1>2 DEF Fitting, Precedes, Ascending
<1>4. SUFFICES ASSUME ~disturbed PROVE WalkInv'
  BY <1>2 DEF WalkInv
<1>5. /\ steady \subseteq Fitting
      /\ cursor # None => cursor \in Fitting
      /\ \A i \in steady \ (listed \cup page) : Ahead(i)
  BY <1>4 DEF WalkInv
<1>6. Data(Items) \subseteq Fitting
  BY DEF Data, Items, FromCursor, FirstOf
<1>7. /\ hasNext' => cursor' \in LastOf(Data(Items))
      /\ ~hasNext' => cursor' = None
  BY <1>2 DEF NextCursor
<1>8. cursor' # None => cursor' \in Data(Items)
  BY <1>7 DEF LastOf
<1>9. ASSUME NEW i \in steady \ (listed' \cup page') PROVE Ahead(i)'
  <2>1. i \in Fitting /\ i \notin Data(Items) /\ (cursor # None => Precedes(cursor, i))
    BY <1>2, <1>5, <1>9 DEF Ahead
  <2>2. HasNext(Items) /\ \A d \in Data(Items) : Precedes(d, i)
    BY <1>1, <1>5, <2>1, ListedOrAhead
  <2>3. cursor' \in Data(Items)
    BY <1>2, <1>7, <2>2 DEF LastOf
  <2> QED BY <1>2, <1>3, <2>2, <2>3 DEF Ahead
<1> QED BY <1>2, <1>3, <1>5, <1>6, <1>8, <1>9 DEF WalkInv

LEMMA WalkInsert ==
  ASSUME IndInv, WalkInv, NEW i \in Id, NEW row \in Row, Insert(i, row)
  PROVE  WalkInv'
<1>1. /\ UNCHANGED <<query, cursor, hasNext, page, listed, steady, disturbed>>
      /\ i \notin issued /\ rows' = [rows EXCEPT ![i] = row]
  BY DEF Insert, history
<1>2. \A j \in Id : j # i => rows'[j] = rows[j]
  BY <1>1 DEF IndInv, Typed
<1>3. cursor # None => cursor \in Id /\ cursor # i
  BY <1>1 DEF IndInv, Typed, Optional
<1>4. \A j \in steady : j \in Id /\ j # i
  BY <1>1 DEF IndInv, Typed
<1> QED BY <1>1, <1>2, <1>3, <1>4 DEF WalkInv, Ahead, Fitting, Precedes, Ascending

LEMMA WalkWrite ==
  ASSUME IndInv, WalkInv, NEW i \in Id, NEW row, Write(i, row)
  PROVE  WalkInv'
<1>1. /\ UNCHANGED <<query, cursor, hasNext, page, listed>>
      /\ rows' = [rows EXCEPT ![i] = row]
      /\ steady' = steady \ {i}
      /\ disturbed' = (disturbed \/ i = cursor)
  BY DEF Write
<1>2. \A j \in Id : j # i => rows'[j] = rows[j]
  BY <1>1 DEF IndInv, Typed
<1>3. cursor # None => cursor \in Id
  BY DEF IndInv, Typed, Optional
<1>4. \A j \in steady' : j \in Id /\ j # i /\ j \in steady
  BY <1>1 DEF IndInv, Typed
<1> QED BY <1>1, <1>2, <1>3, <1>4 DEF WalkInv, Ahead, Fitting, Precedes, Ascending

LEMMA WalkStep == IndInv /\ WalkInv /\ [Next]_vars => WalkInv'
<1>1. SUFFICES ASSUME IndInv, WalkInv, [Next]_vars PROVE WalkInv'
  OBVIOUS
<1>2. CASE ListPage
  BY <1>1, <1>2, WalkListPage
<1>3. ASSUME NEW i \in Id, NEW row \in Row, Insert(i, row) PROVE WalkInv'
  BY <1>1, <1>3, WalkInsert
<1>4. ASSUME NEW i \in Id, NEW row \in Row, Update(i, row) PROVE WalkInv'
  BY <1>1, <1>4, WalkWrite DEF Update
<1>5. ASSUME NEW i \in Id, Delete(i) PROVE WalkInv'
  BY <1>1, <1>5, WalkWrite DEF Delete
<1>6. CASE UNCHANGED vars
  BY <1>1, <1>6 DEF vars, WalkInv, Ahead, Fitting, Precedes, Ascending
<1> QED BY <1>1, <1>2, <1>3, <1>4, <1>5, <1>6 DEF Next

\* A finished walk skipped none of the rows that were there all along, if no cursor's
\* row was written while it was the cursor.
THEOREM NoRowSkipped == Spec => []NoneSkipped
<1>1. Init => IndInv /\ WalkInv
  BY InitStep, WalkInit
<1>2. IndInv /\ WalkInv /\ [Next]_vars => IndInv' /\ WalkInv'
  BY NextStep, WalkStep
<1>3. IndInv /\ WalkInv => NoneSkipped
  BY DEF WalkInv, Ahead, NoneSkipped
<1> QED BY <1>1, <1>2, <1>3, PTL DEF Spec

\* The state keeps its types, and a page holds no more rows than were asked for.
THEOREM TypeCorrect == Spec => []TypeOK
<1> DEFINE Bounded == Typed /\ Cardinality(page) <= NormalizedLimit
<1>1. Init => Bounded
  <2> SUFFICES ASSUME Init PROVE Bounded
    OBVIOUS
  <2>1. Typed /\ page = {}
    BY InitStep DEF Init, IndInv
  <2>2. NormalizedLimit \in Nat /\ Cardinality(page) = 0
    BY <2>1, LimitTyped, FS_EmptySet
  <2> QED BY <2>1, <2>2
<1>2. IndInv /\ Bounded /\ [Next]_vars => Bounded'
  <2> SUFFICES ASSUME IndInv, Bounded, [Next]_vars PROVE Bounded'
    OBVIOUS
  <2>1. Typed /\ Typed'
    BY NextStep DEF IndInv
  <2>2. query' = query
    BY DEF Next, ListPage, Insert, Update, Delete, Write, vars
  <2>3. NormalizedLimit' = NormalizedLimit
    BY <2>2 DEF NormalizedLimit
  <2>4. CASE ListPage
    <3>1. Listable(Items)
      BY DEF FromCursor, Items, FirstOf, Listable, Fitting
    <3>2. page' = FirstOf(NormalizedLimit, Items)
      BY <2>4 DEF ListPage, Data
    <3> QED BY <2>1, <2>3, <3>1, <3>2, LimitTyped, FirstAtMost
  <2>5. CASE page' = page
    BY <2>1, <2>3, <2>5
  <2>6. ListPage \/ page' = page
    BY DEF Next, Insert, Update, Delete, Write, vars
  <2> QED BY <2>4, <2>5, <2>6
<1>3. Bounded => TypeOK
  BY DEF TypeOK
<1> QED BY <1>1, <1>2, <1>3, Invariance, PTL DEF Spec
=============================================================================
