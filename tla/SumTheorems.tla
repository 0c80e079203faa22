---------------------------- MODULE SumTheorems -----------------------------
(***************************************************************************)
(* Sums over finite sets, SumFunctionOnSet of the community modules: what  *)
(* PostgreSQL's SUM and the services' reduce compute.                      *)
(*                                                                         *)
(* The sum is a recursive function on the subsets of its index set.  What  *)
(* it computes is shown by induction with a SET of good subsets in place   *)
(* of a predicate: of the subsets that are not good one is minimal, since  *)
(* the strict subsets of a finite set are well-founded.                    *)
(***************************************************************************)
EXTENDS Integers, FiniteSetsExt, FiniteSetTheorems, TLAPS

-----------------------------------------------------------------------------
(* Induction                                                               *)

\* A set of subsets of S is all of them when each is in it whose strict subsets are.
LEMMA StrongSubsetInduction ==
  ASSUME NEW S, IsFiniteSet(S), NEW Good,
         \A T \in SUBSET S : (\A U \in SUBSET T : U # T => U \in Good) => T \in Good
  PROVE  SUBSET S \subseteq Good
<1> DEFINE bad == {T \in SUBSET S : T \notin Good}
<1> SUFFICES ASSUME bad # {} PROVE FALSE
  OBVIOUS
<1>1. IsWellFoundedOn(StrictSubsetOrdering(S), SUBSET S)
  <2>1. FiniteSubsetsOf(S) = SUBSET S
    BY FS_FiniteSubsetsOfFinite
  <2>2. IsWellFoundedOn(StrictSubsetOrdering(S), FiniteSubsetsOf(S))
    BY FS_StrictSubsetOrderingWellFounded
  <2> QED BY <2>1, <2>2
<1>2. PICK T \in bad : \A U \in bad : <<U, T>> \notin StrictSubsetOrdering(S)
  <2>1. bad \subseteq SUBSET S
    OBVIOUS
  <2> HIDE DEF bad
  <2> QED BY <1>1, <2>1, WFMin
<1>3. \A U \in SUBSET T : U # T => U \in Good
  BY <1>2 DEF StrictSubsetOrdering
<1> QED BY <1>2, <1>3

\* A set of subsets of S holds S when it holds the empty set and grows by one element.
LEMMA SubsetInduction ==
  ASSUME NEW S, IsFiniteSet(S), NEW Good, {} \in Good,
         \A T \in SUBSET S, x \in S : T \in Good /\ x \notin T => T \cup {x} \in Good
  PROVE  S \in Good
<1>1. ASSUME NEW T \in SUBSET S, \A U \in SUBSET T : U # T => U \in Good
      PROVE  T \in Good
  <2>1. CASE T = {}
    BY <2>1
  <2>2. CASE T # {}
    <3>1. PICK x \in T : TRUE
      BY <2>2
    <3>2. T \ {x} \in Good
      BY <1>1, <3>1
    <3>3. T = (T \ {x}) \cup {x}
      BY <3>1
    <3> QED BY <3>1, <3>2, <3>3
  <2> QED BY <2>1, <2>2
<1>2. SUBSET S \subseteq Good
  BY <1>1, StrongSubsetInduction
<1> QED BY <1>2

-----------------------------------------------------------------------------
(* The recursion                                                           *)

\* The element the fold takes first, and what it makes of a set.
First(s) == CHOOSE x \in s : TRUE

IsSum(f, S, g) ==
  g = [s \in SUBSET S |-> IF s = {} THEN 0 ELSE f[First(s)] + g[s \ {First(s)}]]

LEMMA FirstIn ==
  ASSUME NEW s, s # {}
  PROVE  First(s) \in s
BY DEF First

LEMMA SumIsChosen ==
  ASSUME NEW f, NEW S
  PROVE  SumFunctionOnSet(f, S) = (CHOOSE g : IsSum(f, S, g))[S]
BY DEF SumFunctionOnSet, FoldFunctionOnSet, MapThenFoldSet, IsSum, First

\* Two such functions agree where both are defined.
LEMMA SumsAgree ==
  ASSUME NEW f, NEW S, IsFiniteSet(S), NEW T \in SUBSET S,
         NEW g, IsSum(f, S, g), NEW h, IsSum(f, T, h)
  PROVE  g[T] = h[T]
<1> DEFINE Good == {U \in SUBSET T : g[U] = h[U]}
<1>1. ASSUME NEW U \in SUBSET T, \A V \in SUBSET U : V # U => V \in Good
      PROVE  U \in Good
  <2>1. CASE U = {}
    BY <2>1 DEF IsSum
  <2>2. CASE U # {}
    <3> DEFINE x == First(U)
    <3>1. x \in U
      BY <2>2, FirstIn
    <3>2. g[U \ {x}] = h[U \ {x}]
      BY <1>1, <3>1
    <3>3. g[U] = f[x] + g[U \ {x}] /\ h[U] = f[x] + h[U \ {x}]
      <4>1. U \in SUBSET S /\ U \in SUBSET T
        OBVIOUS
      <4> QED BY <2>2, <4>1 DEF IsSum
    <3> QED BY <3>2, <3>3
  <2> QED BY <2>1, <2>2
<1>2. IsFiniteSet(T)
  BY FS_Subset
<1>3. SUBSET T \subseteq Good
  <2> HIDE DEF Good
  <2> QED BY <1>1, <1>2, StrongSubsetInduction
<1> QED BY <1>3

\* There is such a function on the subsets of any finite set.
LEMMA SumExists ==
  ASSUME NEW f, NEW S, IsFiniteSet(S)
  PROVE  \E g : IsSum(f, S, g)
<1> DEFINE Good == {T \in SUBSET S : \E g : IsSum(f, T, g)}
           SumOf(T) == (CHOOSE g : IsSum(f, T, g))[T]
<1>1. ASSUME NEW T \in SUBSET S, \A U \in SUBSET T : U # T => U \in Good
      PROVE  T \in Good
  <2> DEFINE g == [s \in SUBSET T |-> IF s = {} THEN 0 ELSE f[First(s)] + SumOf(s \ {First(s)})]
  <2>1. ASSUME NEW s \in SUBSET T, s # T
        PROVE  g[s] = SumOf(s)
    <3>1. PICK h : IsSum(f, s, h)
      BY <1>1, <2>1
    <3> DEFINE k == CHOOSE h1 : IsSum(f, s, h1)
    <3>2. IsSum(f, s, k)
      BY <3>1
    <3>3. CASE s = {}
      BY <3>2, <3>3 DEF IsSum
    <3>4. CASE s # {}
      <4> DEFINE t == s \ {First(s)}
      <4>1. First(s) \in s
        BY <3>4, FirstIn
      <4>2. t \in SUBSET T /\ t # T /\ t \in SUBSET s
        BY <4>1
      <4>3. PICK h2 : IsSum(f, t, h2)
        BY <1>1, <4>2
      <4>4. IsSum(f, t, CHOOSE h3 : IsSum(f, t, h3))
        BY <4>3
      <4>5. IsFiniteSet(s)
        BY FS_Subset
      <4> HIDE DEF t
      <4>6. k[t] = SumOf(t)
        BY <3>2, <4>2, <4>4, <4>5, SumsAgree
      <4>7. k[s] = f[First(s)] + k[t]
        BY <3>2, <3>4 DEF IsSum, t
      <4> QED BY <3>4, <4>6, <4>7 DEF t
    <3> QED BY <3>3, <3>4
  <2>2. ASSUME NEW s \in SUBSET T, s # {}
        PROVE  g[s] = f[First(s)] + g[s \ {First(s)}]
    <3>1. s \ {First(s)} \in SUBSET T /\ s \ {First(s)} # T
      BY <2>2, FirstIn
    <3> QED BY <2>1, <2>2, <3>1
  <2>3. g[{}] = 0
    OBVIOUS
  <2>4. g = [s \in SUBSET T |-> g[s]]
    OBVIOUS
  <2> HIDE DEF g
  <2>5. IsSum(f, T, g)
    BY <2>2, <2>3, <2>4 DEF IsSum
  <2> QED BY <2>5
<1>2. SUBSET S \subseteq Good
  <2> HIDE DEF Good
  <2> QED BY <1>1, StrongSubsetInduction
<1> QED BY <1>2

\* The recursion, in terms of the sum alone.
LEMMA SumUnfold ==
  ASSUME NEW f, NEW S, IsFiniteSet(S)
  PROVE  /\ SumFunctionOnSet(f, {}) = 0
         /\ S # {} => SumFunctionOnSet(f, S) = f[First(S)] + SumFunctionOnSet(f, S \ {First(S)})
<1> DEFINE Chosen(T) == CHOOSE g : IsSum(f, T, g)
<1>1. ASSUME NEW T, IsFiniteSet(T) PROVE IsSum(f, T, Chosen(T))
  BY <1>1, SumExists
<1>2. SumFunctionOnSet(f, {}) = 0
  <2>1. IsSum(f, {}, Chosen({}))
    BY <1>1, FS_EmptySet
  <2> HIDE DEF Chosen
  <2>2. Chosen({})[{}] = 0
    BY <2>1 DEF IsSum
  <2> QED BY <2>2, SumIsChosen DEF Chosen
<1>3. ASSUME S # {}
      PROVE  SumFunctionOnSet(f, S) = f[First(S)] + SumFunctionOnSet(f, S \ {First(S)})
  <2> DEFINE T == S \ {First(S)}
  <2>1. T \in SUBSET S /\ IsFiniteSet(T)
    BY FS_RemoveElement
  <2>2. IsSum(f, S, Chosen(S)) /\ IsSum(f, T, Chosen(T))
    BY <1>1, <2>1
  <2>3. SumFunctionOnSet(f, S) = Chosen(S)[S] /\ SumFunctionOnSet(f, T) = Chosen(T)[T]
    BY SumIsChosen
  <2> HIDE DEF T, Chosen
  <2>4. Chosen(S)[T] = Chosen(T)[T]
    BY <2>1, <2>2, SumsAgree
  <2>5. Chosen(S)[S] = f[First(S)] + Chosen(S)[T]
    BY <1>3, <2>2 DEF IsSum, T
  <2> QED BY <2>3, <2>4, <2>5 DEF T
<1> QED BY <1>2, <1>3

LEMMA SumEmpty ==
  ASSUME NEW f
  PROVE  SumFunctionOnSet(f, {}) = 0
BY SumUnfold, FS_EmptySet

\* A sum of integers is one.
LEMMA SumInt ==
  ASSUME NEW f, NEW S, IsFiniteSet(S), \A x \in S : f[x] \in Int
  PROVE  SumFunctionOnSet(f, S) \in Int
<1> DEFINE Good == {T \in SUBSET S : SumFunctionOnSet(f, T) \in Int}
<1>1. ASSUME NEW T \in SUBSET S, \A U \in SUBSET T : U # T => U \in Good
      PROVE  T \in Good
  <2>1. IsFiniteSet(T)
    BY FS_Subset
  <2>2. CASE T = {}
    BY <2>1, <2>2, SumUnfold
  <2>3. CASE T # {}
    <3> DEFINE U == T \ {First(T)}
    <3>1. First(T) \in T
      BY <2>3, FirstIn
    <3>2. U \in SUBSET T /\ U # T
      BY <3>1
    <3>3. SumFunctionOnSet(f, U) \in Int
      BY <1>1, <3>2
    <3>4. SumFunctionOnSet(f, T) = f[First(T)] + SumFunctionOnSet(f, U)
      BY <2>1, <2>3, SumUnfold
    <3> QED BY <3>1, <3>3, <3>4
  <2> QED BY <2>2, <2>3
<1>2. SUBSET S \subseteq Good
  <2> HIDE DEF Good
  <2> QED BY <1>1, StrongSubsetInduction
<1> QED BY <1>2

\* The order in which the elements are taken does not matter.
LEMMA SumRemove ==
  ASSUME NEW f, NEW S, IsFiniteSet(S), \A y \in S : f[y] \in Int, NEW x \in S
  PROVE  SumFunctionOnSet(f, S) = f[x] + SumFunctionOnSet(f, S \ {x})
<1> DEFINE Removes(T) == \A y \in T :
             SumFunctionOnSet(f, T) = f[y] + SumFunctionOnSet(f, T \ {y})
           Good == {T \in SUBSET S : Removes(T)}
<1>1. ASSUME NEW T \in SUBSET S, \A U \in SUBSET T : U # T => U \in Good
      PROVE  T \in Good
  <2> SUFFICES ASSUME NEW y \in T
               PROVE  SumFunctionOnSet(f, T) = f[y] + SumFunctionOnSet(f, T \ {y})
    OBVIOUS
  <2> DEFINE c == First(T)
             both == (T \ {c}) \ {y}
  <2>1. IsFiniteSet(T)
    BY FS_Subset
  <2>2. c \in T
    BY FirstIn
  <2>3. SumFunctionOnSet(f, T) = f[c] + SumFunctionOnSet(f, T \ {c})
    BY <2>1, <2>2, SumUnfold
  <2>4. CASE y = c
    BY <2>3, <2>4
  <2>5. CASE y # c
    <3>1. /\ T \ {c} \in SUBSET T /\ T \ {c} # T
          /\ T \ {y} \in SUBSET T /\ T \ {y} # T
      BY <2>2
    <3>2. Removes(T \ {c}) /\ Removes(T \ {y})
      BY <1>1, <3>1
    <3>3. SumFunctionOnSet(f, T \ {c}) = f[y] + SumFunctionOnSet(f, both)
      BY <2>5, <3>2
    <3>4. SumFunctionOnSet(f, T \ {y}) = f[c] + SumFunctionOnSet(f, (T \ {y}) \ {c})
      BY <2>2, <2>5, <3>2
    <3>5. (T \ {y}) \ {c} = both
      OBVIOUS
    <3>6. SumFunctionOnSet(f, both) \in Int
      <4>1. both \in SUBSET S /\ IsFiniteSet(both)
        BY <2>1, FS_Subset
      <4> QED BY <4>1, SumInt
    <3>7. f[y] \in Int /\ f[c] \in Int
      BY <2>2
    <3> HIDE DEF c, both
    <3>8. SumFunctionOnSet(f, T \ {y}) = f[c] + SumFunctionOnSet(f, both)
      BY <3>4, <3>5
    <3>9. \A a, b, s \in Int : a + (b + s) = b + (a + s)
      OBVIOUS
    <3> QED BY <2>3, <3>3, <3>6, <3>7, <3>8, <3>9
  <2> QED BY <2>4, <2>5
<1>2. SUBSET S \subseteq Good
  <2> HIDE DEF Good
  <2> QED BY <1>1, StrongSubsetInduction
<1> QED BY <1>2\* One element more.
LEMMA SumAdd ==
  ASSUME NEW f, NEW S, IsFiniteSet(S), NEW x, x \notin S, \A y \in S \cup {x} : f[y] \in Int
  PROVE  SumFunctionOnSet(f, S \cup {x}) = f[x] + SumFunctionOnSet(f, S)
<1>1. IsFiniteSet(S \cup {x})
  BY FS_AddElement
<1>2. (S \cup {x}) \ {x} = S
  OBVIOUS
<1> DEFINE T == S \cup {x}
<1>3. x \in T
  OBVIOUS
<1> HIDE DEF T
<1>4. SumFunctionOnSet(f, T) = f[x] + SumFunctionOnSet(f, T \ {x})
  BY <1>1, <1>3, SumRemove DEF T
<1> QED BY <1>2, <1>4 DEF T

-----------------------------------------------------------------------------
(* Sums of two functions, or over two sets                                 *)

LEMMA SumOfSingleton ==
  ASSUME NEW f, NEW x, f[x] \in Int
  PROVE  SumFunctionOnSet(f, {x}) = f[x]
<1>1. {} \cup {x} = {x} /\ x \notin {} /\ IsFiniteSet({})
  BY FS_EmptySet
<1>2. SumFunctionOnSet(f, {} \cup {x}) = f[x] + SumFunctionOnSet(f, {})
  BY <1>1, SumAdd
<1>3. SumFunctionOnSet(f, {} \cup {x}) = SumFunctionOnSet(f, {x})
  BY <1>1
<1> QED BY <1>2, <1>3, SumEmpty

\* Only the values on the set count.
LEMMA SumSame ==
  ASSUME NEW f, NEW g, NEW S, IsFiniteSet(S), \A x \in S : f[x] \in Int /\ f[x] = g[x]
  PROVE  SumFunctionOnSet(f, S) = SumFunctionOnSet(g, S)
<1> DEFINE Good == {T \in SUBSET S : SumFunctionOnSet(f, T) = SumFunctionOnSet(g, T)}
<1>1. {} \in Good
  BY SumEmpty
<1>2. ASSUME NEW T \in SUBSET S, NEW x \in S, T \in Good, x \notin T
      PROVE  T \cup {x} \in Good
  <2>1. IsFiniteSet(T)
    BY FS_Subset
  <2>2. /\ SumFunctionOnSet(f, T \cup {x}) = f[x] + SumFunctionOnSet(f, T)
        /\ SumFunctionOnSet(g, T \cup {x}) = g[x] + SumFunctionOnSet(g, T)
    BY <1>2, <2>1, SumAdd
  <2> QED BY <1>2, <2>2
<1>3. S \in Good
  <2> HIDE DEF Good
  <2> QED BY <1>1, <1>2, SubsetInduction
<1> QED BY <1>3

\* A sum of differences is the difference of the sums.
LEMMA SumDifference ==
  ASSUME NEW f, NEW g, NEW h, NEW S, IsFiniteSet(S),
         \A x \in S : f[x] \in Int /\ g[x] \in Int /\ h[x] = f[x] - g[x]
  PROVE  SumFunctionOnSet(h, S) = SumFunctionOnSet(f, S) - SumFunctionOnSet(g, S)
<1> DEFINE Good == {T \in SUBSET S : SumFunctionOnSet(h, T) =
                      SumFunctionOnSet(f, T) - SumFunctionOnSet(g, T)}
<1>1. {} \in Good
  BY SumEmpty
<1>2. ASSUME NEW T \in SUBSET S, NEW x \in S, T \in Good, x \notin T
      PROVE  T \cup {x} \in Good
  <2>1. IsFiniteSet(T)
    BY FS_Subset
  <2>2. /\ SumFunctionOnSet(f, T \cup {x}) = f[x] + SumFunctionOnSet(f, T)
        /\ SumFunctionOnSet(g, T \cup {x}) = g[x] + SumFunctionOnSet(g, T)
    BY <1>2, <2>1, SumAdd
  <2>3. SumFunctionOnSet(h, T \cup {x}) = h[x] + SumFunctionOnSet(h, T)
    BY <1>2, <2>1, SumAdd
  <2>4. SumFunctionOnSet(f, T) \in Int /\ SumFunctionOnSet(g, T) \in Int
    BY <2>1, SumInt
  <2> QED BY <1>2, <2>2, <2>3, <2>4
<1>3. S \in Good
  <2> HIDE DEF Good
  <2> QED BY <1>1, <1>2, SubsetInduction
<1> QED BY <1>3

\* A sum over two sets apart is the sum of the sums.
LEMMA SumDisjoint ==
  ASSUME NEW f, NEW S, IsFiniteSet(S), NEW T, IsFiniteSet(T), S \cap T = {},
         \A x \in S \cup T : f[x] \in Int
  PROVE  SumFunctionOnSet(f, S \cup T) = SumFunctionOnSet(f, S) + SumFunctionOnSet(f, T)
<1> DEFINE Good == {U \in SUBSET T : SumFunctionOnSet(f, S \cup U) =
                      SumFunctionOnSet(f, S) + SumFunctionOnSet(f, U)}
<1>1. SumFunctionOnSet(f, S) \in Int
  BY SumInt
<1>2. {} \in Good
  <2>1. S \cup {} = S
    OBVIOUS
  <2>2. SumFunctionOnSet(f, S \cup {}) = SumFunctionOnSet(f, S)
    BY <2>1
  <2>3. SumFunctionOnSet(f, {}) = 0
    BY SumEmpty
  <2>4. SumFunctionOnSet(f, S \cup {}) = SumFunctionOnSet(f, S) + SumFunctionOnSet(f, {})
    BY <1>1, <2>2, <2>3
  <2> QED BY <2>4
<1>3. ASSUME NEW U \in SUBSET T, NEW x \in T, U \in Good, x \notin U
      PROVE  U \cup {x} \in Good
  <2>1. IsFiniteSet(U) /\ IsFiniteSet(S \cup U)
    BY FS_Subset, FS_Union
  <2>2. SumFunctionOnSet(f, U \cup {x}) = f[x] + SumFunctionOnSet(f, U)
    BY <1>3, <2>1, SumAdd
  <2>3. x \notin S \cup U
    BY <1>3
  <2>4. SumFunctionOnSet(f, (S \cup U) \cup {x}) = f[x] + SumFunctionOnSet(f, S \cup U)
    BY <2>1, <2>3, SumAdd
  <2>5. (S \cup U) \cup {x} = S \cup (U \cup {x})
    OBVIOUS
  <2>6. SumFunctionOnSet(f, U) \in Int /\ f[x] \in Int
    BY <2>1, SumInt
  <2>7. SumFunctionOnSet(f, S \cup U) = SumFunctionOnSet(f, S) + SumFunctionOnSet(f, U)
    BY <1>3
  <2>8. SumFunctionOnSet(f, S \cup (U \cup {x})) =
          SumFunctionOnSet(f, S) + SumFunctionOnSet(f, U \cup {x})
    <3>1. SumFunctionOnSet(f, S \cup (U \cup {x})) = f[x] + SumFunctionOnSet(f, S \cup U)
      BY <2>4, <2>5
    <3> QED BY <1>1, <2>2, <2>6, <2>7, <3>1
  <2> QED BY <2>8
<1>4. T \in Good
  <2> HIDE DEF Good
  <2> QED BY <1>2, <1>3, SubsetInduction
<1> QED BY <1>4

\* A cardinality is a sum of ones.
LEMMA SumOfOnes ==
  ASSUME NEW f, NEW S, IsFiniteSet(S), \A x \in S : f[x] = 1
  PROVE  SumFunctionOnSet(f, S) = Cardinality(S)
<1> DEFINE Good == {T \in SUBSET S : SumFunctionOnSet(f, T) = Cardinality(T)}
<1>1. {} \in Good
  BY SumEmpty, FS_EmptySet
<1>2. ASSUME NEW T \in SUBSET S, NEW x \in S, T \in Good, x \notin T
      PROVE  T \cup {x} \in Good
  <2>1. IsFiniteSet(T)
    BY FS_Subset
  <2>2. SumFunctionOnSet(f, T \cup {x}) = f[x] + SumFunctionOnSet(f, T)
    BY <1>2, <2>1, SumAdd
  <2>3. Cardinality(T \cup {x}) = Cardinality(T) + 1 /\ Cardinality(T) \in Nat
    BY <1>2, <2>1, FS_AddElement, FS_CardinalityType
  <2> QED BY <1>2, <2>2, <2>3
<1>3. S \in Good
  <2> HIDE DEF Good
  <2> QED BY <1>1, <1>2, SubsetInduction
<1> QED BY <1>3

\* Summing group by group: every element of S is in the group of its key.
LEMMA SumByGroup ==
  ASSUME NEW f, NEW S, IsFiniteSet(S), \A x \in S : f[x] \in Int,
         NEW K, IsFiniteSet(K), NEW key, \A x \in S : key[x] \in K,
         NEW g, \A k \in K : g[k] = SumFunctionOnSet(f, {x \in S : key[x] = k})
  PROVE  SumFunctionOnSet(g, K) = SumFunctionOnSet(f, S)
<1> DEFINE In(L) == {x \in S : key[x] \in L}
           Good == {L \in SUBSET K : SumFunctionOnSet(g, L) = SumFunctionOnSet(f, In(L))}
<1>1. ASSUME NEW k \in K PROVE g[k] \in Int
  <2> DEFINE group == {x \in S : key[x] = k}
  <2>1. group \in SUBSET S /\ IsFiniteSet(group)
    BY FS_Subset
  <2>2. \A x \in group : f[x] \in Int
    OBVIOUS
  <2>3. g[k] = SumFunctionOnSet(f, group)
    OBVIOUS
  <2> HIDE DEF group
  <2> QED BY <2>1, <2>2, <2>3, SumInt
<1>2. {} \in Good
  <2>1. In({}) = {}
    OBVIOUS
  <2> QED BY <2>1, SumUnfold, FS_EmptySet
<1>3. ASSUME NEW L \in SUBSET K, NEW k \in K, L \in Good, k \notin L
      PROVE  L \cup {k} \in Good
  <2> DEFINE group == {x \in S : key[x] = k}
  <2>1. IsFiniteSet(L) /\ IsFiniteSet(In(L)) /\ IsFiniteSet(group)
    <3>1. In(L) \in SUBSET S /\ group \in SUBSET S
      OBVIOUS
    <3> HIDE DEF In, group
    <3> QED BY <3>1, FS_Subset
  <2>2. SumFunctionOnSet(g, L \cup {k}) = g[k] + SumFunctionOnSet(g, L)
    BY <1>1, <1>3, <2>1, SumAdd
  <2>3. In(L \cup {k}) = In(L) \cup group
    OBVIOUS
  <2>4. In(L) \cap group = {}
    BY <1>3
  <2>5. \A x \in In(L) \cup group : f[x] \in Int
    OBVIOUS
  <2>6. g[k] = SumFunctionOnSet(f, group)
    OBVIOUS
  <2>7. SumFunctionOnSet(g, L) = SumFunctionOnSet(f, In(L))
    BY <1>3
  <2> HIDE DEF In, group
  <2>8. SumFunctionOnSet(f, In(L) \cup group) =
          SumFunctionOnSet(f, In(L)) + SumFunctionOnSet(f, group)
    BY <2>1, <2>4, <2>5, SumDisjoint
  <2>9. SumFunctionOnSet(f, In(L)) \in Int /\ SumFunctionOnSet(f, group) \in Int
    BY <2>1, <2>5, SumInt
  <2>10. SumFunctionOnSet(g, L \cup {k}) = SumFunctionOnSet(f, In(L \cup {k}))
    <3>1. SumFunctionOnSet(f, In(L \cup {k})) = SumFunctionOnSet(f, In(L) \cup group)
      BY <2>3
    <3> QED BY <2>2, <2>6, <2>7, <2>8, <2>9, <3>1
  <2> QED BY <2>10
<1>4. K \in Good
  <2> HIDE DEF Good
  <2> QED BY <1>2, <1>3, SubsetInduction
<1>5. In(K) = S
  OBVIOUS
<1> QED BY <1>4, <1>5

\* Counting group by group.
LEMMA CountByGroup ==
  ASSUME NEW S, IsFiniteSet(S), NEW K, IsFiniteSet(K), NEW key, \A x \in S : key[x] \in K,
         NEW g, \A k \in K : g[k] = Cardinality({x \in S : key[x] = k})
  PROVE  SumFunctionOnSet(g, K) = Cardinality(S)
<1> DEFINE ones == [x \in S |-> 1]
<1>1. \A T \in SUBSET S : SumFunctionOnSet(ones, T) = Cardinality(T)
  <2> SUFFICES ASSUME NEW T \in SUBSET S
               PROVE  SumFunctionOnSet(ones, T) = Cardinality(T)
    OBVIOUS
  <2>1. IsFiniteSet(T) /\ \A x \in T : ones[x] = 1
    BY FS_Subset
  <2> HIDE DEF ones
  <2> QED BY <2>1, SumOfOnes
<1>2. \A k \in K : g[k] = SumFunctionOnSet(ones, {x \in S : key[x] = k})
  <2> SUFFICES ASSUME NEW k \in K
               PROVE  g[k] = SumFunctionOnSet(ones, {x \in S : key[x] = k})
    OBVIOUS
  <2>1. PICK T \in SUBSET S : T = {x \in S : key[x] = k}
    OBVIOUS
  <2>2. g[k] = Cardinality(T)
    BY <2>1
  <2>3. g[k] = SumFunctionOnSet(ones, T)
    BY <1>1, <2>2
  <2> QED BY <2>1, <2>3
<1>3. \A x \in S : ones[x] \in Int
  OBVIOUS
<1> HIDE DEF ones
<1>4. SumFunctionOnSet(g, K) = SumFunctionOnSet(ones, S)
  BY <1>2, <1>3, SumByGroup
<1> QED BY <1>1, <1>4

-----------------------------------------------------------------------------
(* Bounds                                                                  *)

\* A sum of natural numbers is one, and grows with its set.
LEMMA SumNat ==
  ASSUME NEW f, NEW S, IsFiniteSet(S), \A x \in S : f[x] \in Nat
  PROVE  SumFunctionOnSet(f, S) \in Nat
<1> DEFINE Good == {T \in SUBSET S : SumFunctionOnSet(f, T) \in Nat}
<1>1. {} \in Good
  BY SumEmpty
<1>2. ASSUME NEW T \in SUBSET S, NEW x \in S, T \in Good, x \notin T
      PROVE  T \cup {x} \in Good
  <2>1. IsFiniteSet(T)
    BY FS_Subset
  <2>2. SumFunctionOnSet(f, T \cup {x}) = f[x] + SumFunctionOnSet(f, T)
    BY <1>2, <2>1, SumAdd
  <2> QED BY <1>2, <2>2
<1>3. S \in Good
  <2> HIDE DEF Good
  <2> QED BY <1>1, <1>2, SubsetInduction
<1> QED BY <1>3

LEMMA SumMonotone ==
  ASSUME NEW f, NEW S, IsFiniteSet(S), \A x \in S : f[x] \in Nat, NEW T \in SUBSET S
  PROVE  SumFunctionOnSet(f, T) <= SumFunctionOnSet(f, S)
<1>1. IsFiniteSet(T) /\ IsFiniteSet(S \ T)
  BY FS_Subset, FS_Difference
<1>2. SumFunctionOnSet(f, T) \in Nat /\ SumFunctionOnSet(f, S \ T) \in Nat
  BY <1>1, SumNat
<1>3. T \cup (S \ T) = S /\ T \cap (S \ T) = {}
  OBVIOUS
<1>4. SumFunctionOnSet(f, T \cup (S \ T)) =
        SumFunctionOnSet(f, T) + SumFunctionOnSet(f, S \ T)
  BY <1>1, <1>3, SumDisjoint
<1>5. SumFunctionOnSet(f, T \cup (S \ T)) = SumFunctionOnSet(f, S)
  BY <1>3
<1> QED BY <1>2, <1>4, <1>5

\* No element is more than the sum.
LEMMA SumAtLeast ==
  ASSUME NEW f, NEW S, IsFiniteSet(S), \A y \in S : f[y] \in Nat, NEW x \in S
  PROVE  f[x] <= SumFunctionOnSet(f, S)
<1>1. IsFiniteSet(S \ {x})
  BY FS_RemoveElement
<1>2. SumFunctionOnSet(f, S \ {x}) \in Nat
  BY <1>1, SumNat
<1>3. SumFunctionOnSet(f, S) = f[x] + SumFunctionOnSet(f, S \ {x})
  BY SumRemove
<1> QED BY <1>2, <1>3

\* A finite set of integers has a largest.
LEMMA MaxIn ==
  ASSUME NEW S \in SUBSET Int, IsFiniteSet(S), S # {}
  PROVE  Max(S) \in S /\ \A x \in S : x <= Max(S)
<1> DEFINE HasMax(T) == T = {} \/ \E m \in T : \A x \in T : m >= x
           Good == {T \in SUBSET S : HasMax(T)}
<1>1. {} \in Good
  OBVIOUS
<1>2. ASSUME NEW T \in SUBSET S, NEW x \in S, T \in Good, x \notin T
      PROVE  T \cup {x} \in Good
  <2>1. CASE T = {}
    BY <2>1
  <2>2. CASE T # {}
    <3>1. PICK m \in T : \A y \in T : m >= y
      BY <1>2, <2>2
    <3>2. CASE m >= x
      BY <3>1, <3>2
    <3>3. CASE ~(m >= x)
      <4>1. \A y \in T \cup {x} : x >= y
        BY <3>1, <3>3
      <4> QED BY <4>1
    <3> QED BY <3>2, <3>3
  <2> QED BY <2>1, <2>2
<1>3. S \in Good
  <2> HIDE DEF Good
  <2> QED BY <1>1, <1>2, SubsetInduction
<1>4. \E m \in S : \A x \in S : m >= x
  BY <1>3
<1> QED BY <1>4 DEF Max

\* The values of a function on a finite set.
LEMMA FiniteImage ==
  ASSUME NEW f, NEW S, IsFiniteSet(S)
  PROVE  IsFiniteSet({f[x] : x \in S})
<1> DEFINE Good == {T \in SUBSET S : IsFiniteSet({f[x] : x \in T})}
<1>1. {} \in Good
  <2>1. {f[x] : x \in {}} = {}
    OBVIOUS
  <2> QED BY <2>1, FS_EmptySet
<1>2. ASSUME NEW T \in SUBSET S, NEW x \in S, T \in Good, x \notin T
      PROVE  T \cup {x} \in Good
  <2>1. {f[y] : y \in T \cup {x}} = {f[y] : y \in T} \cup {f[x]}
    OBVIOUS
  <2>2. IsFiniteSet({f[y] : y \in T} \cup {f[x]})
    BY <1>2, FS_AddElement
  <2>3. IsFiniteSet({f[y] : y \in T \cup {x}})
    BY <2>1, <2>2
  <2> QED BY <2>3
<1>3. S \in Good
  <2> HIDE DEF Good
  <2> QED BY <1>1, <1>2, SubsetInduction
<1> QED BY <1>3

-----------------------------------------------------------------------------
(* How far one element moves a sum, a cardinality or a maximum             *)

LEMMA SumMoves ==
  ASSUME NEW S, IsFiniteSet(S), NEW T, IsFiniteSet(T), NEW x, S \ {x} = T \ {x},
         NEW w \in Nat, NEW f, NEW g, \A y \in S : f[y] \in 0 .. w, \A y \in T : g[y] \in 0 .. w,
         \A y \in S \ {x} : f[y] = g[y]
  PROVE  SumFunctionOnSet(g, T) \in SumFunctionOnSet(f, S) - w .. SumFunctionOnSet(f, S) + w
<1> DEFINE rest == S \ {x}
           sum == SumFunctionOnSet(f, rest)
<1>1. IsFiniteSet(rest)
  BY FS_RemoveElement
<1>2. sum \in Int
  BY <1>1, SumInt
<1>3. SumFunctionOnSet(f, S) \in sum .. sum + w
  <2>1. CASE x \in S
    <3>1. SumFunctionOnSet(f, S) = f[x] + sum
      BY <2>1, SumRemove
    <3> QED BY <1>2, <2>1, <3>1
  <2>2. CASE x \notin S
    <3>1. rest = S
      BY <2>2
    <3>2. SumFunctionOnSet(f, S) = sum
      BY <3>1
    <3> HIDE DEF sum
    <3> QED BY <1>2, <3>2
  <2> QED BY <2>1, <2>2
<1>4. SumFunctionOnSet(g, T) \in sum .. sum + w
  <2>1. SumFunctionOnSet(g, T \ {x}) = sum
    <3>1. SumFunctionOnSet(f, rest) = SumFunctionOnSet(g, rest)
      BY <1>1, SumSame
    <3>2. rest = T \ {x}
      OBVIOUS
    <3> QED BY <3>1, <3>2
  <2>2. CASE x \in T
    <3>1. SumFunctionOnSet(g, T) = g[x] + SumFunctionOnSet(g, T \ {x})
      BY <2>2, SumRemove
    <3> HIDE DEF sum
    <3> QED BY <1>2, <2>1, <2>2, <3>1
  <2>3. CASE x \notin T
    <3>1. T \ {x} = T
      BY <2>3
    <3>2. SumFunctionOnSet(g, T) = sum
      BY <2>1, <3>1
    <3> HIDE DEF sum
    <3> QED BY <1>2, <3>2
  <2> QED BY <2>2, <2>3
<1> HIDE DEF sum
<1> QED BY <1>2, <1>3, <1>4

LEMMA CardinalityMoves ==
  ASSUME NEW S, IsFiniteSet(S), NEW T, IsFiniteSet(T), NEW x, S \ {x} = T \ {x}
  PROVE  Cardinality(T) \in Cardinality(S) - 1 .. Cardinality(S) + 1
<1> DEFINE one == [y \in S \cup T |-> 1]
<1>1. (\A y \in S : one[y] = 1) /\ (\A y \in T : one[y] = 1)
  OBVIOUS
<1> HIDE DEF one
<1>2. SumFunctionOnSet(one, S) = Cardinality(S) /\ SumFunctionOnSet(one, T) = Cardinality(T)
  BY <1>1, SumOfOnes
<1>3. (\A y \in S : one[y] \in 0 .. 1) /\ (\A y \in T : one[y] \in 0 .. 1)
  BY <1>1
<1>4. SumFunctionOnSet(one, T) \in SumFunctionOnSet(one, S) - 1 .. SumFunctionOnSet(one, S) + 1
  BY <1>3, SumMoves
<1> QED BY <1>2, <1>4

\* The largest of zero and the values of a function.
Largest(f, K) == Max({0} \cup {f[k] : k \in K})

LEMMA MaxOfValues ==
  ASSUME NEW K, IsFiniteSet(K), NEW f, \A k \in K : f[k] \in Nat
  PROVE  /\ Largest(f, K) \in Nat
         /\ \A k \in K : f[k] <= Largest(f, K)
         /\ Largest(f, K) = 0 \/ \E k \in K : f[k] = Largest(f, K)
<1> DEFINE values == {f[k] : k \in K}
           S == {0} \cup values
<1>1. IsFiniteSet(values)
  BY FiniteImage
<1>2. IsFiniteSet(S)
  <2> HIDE DEF values
  <2> QED BY <1>1, FS_Singleton, FS_Union
<1>3. S \in SUBSET Nat /\ S # {}
  OBVIOUS
<1>4. S \in SUBSET Int
  BY <1>3
<1>5. Max(S) \in S /\ \A v \in S : v <= Max(S)
  <2> HIDE DEF S
  <2> QED BY <1>2, <1>3, <1>4, MaxIn
<1> QED BY <1>3, <1>5 DEF Largest

LEMMA MaxMoves ==
  ASSUME NEW K, IsFiniteSet(K), NEW w \in Nat,
         NEW f, \A k \in K : f[k] \in Nat, NEW g, \A k \in K : g[k] \in Nat,
         \A k \in K : g[k] \in f[k] - w .. f[k] + w
  PROVE  Largest(g, K) \in Largest(f, K) - w .. Largest(f, K) + w
<1> DEFINE a == Largest(f, K)
           b == Largest(g, K)
<1>1. a \in Nat /\ (\A k \in K : f[k] <= a) /\ (a = 0 \/ \E k \in K : f[k] = a)
  BY MaxOfValues
<1>2. b \in Nat /\ (\A k \in K : g[k] <= b) /\ (b = 0 \/ \E k \in K : g[k] = b)
  BY MaxOfValues
<1> HIDE DEF a, b
<1>3. b <= a + w
  BY <1>1, <1>2
<1>4. a <= b + w
  BY <1>1, <1>2
<1>5. b \in a - w .. a + w
  BY <1>1, <1>2, <1>3, <1>4
<1> QED BY <1>5 DEF a, b

=============================================================================
