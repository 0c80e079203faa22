----------------------------- MODULE MCFigures ------------------------------
(* Figures over a small table and a calendar of two years of two months, TLC. *)
EXTENDS Figures, TLC

CONSTANTS x1, x2, x3, k1, k2

DaysOf == 0 :> 1 @@ 1 :> 2

\* The last instant of a month and of a year, and the first of the next.
Boundaries == {1, 2, 5, 6}

\* A day and an instant, in either order.
Dates == {[at |-> 4, dateOnly |-> TRUE], [at |-> 2, dateOnly |-> FALSE]}

OfTypes(fs) == {[f EXCEPT !.type = t] : f \in fs, t \in Optional(Type)}

FiltersSent ==
  OfTypes({[NoFilter EXCEPT !.startDate = s, !.endDate = e] :
             s \in Optional(Dates), e \in Optional(Dates)}
          \cup {[NoFilter EXCEPT !.year = y, !.month = m, !.category = k] :
                  y \in Optional(Year), m \in Optional(1 .. MonthsPerYear), k \in {None, k1}}
          \cup {[NoFilter EXCEPT !.year = 0, !.startDate = s] : s \in Dates})

FiltersMeetingWrites == {NoFilter, [NoFilter EXCEPT !.year = 0, !.type = "EXPENSE"]}

\* Rows of both types, of one month, so that the requests' filters match them.
RowsMeetingRequests ==
  {[category |-> k1, type |-> "EXPENSE", amount |-> a, createdAt |-> 1] : a \in Amount}
  \cup {[category |-> k2, type |-> t, amount |-> 2, createdAt |-> 1] : t \in Type}

WritesMet == [findCategories |-> 2, overview |-> 1, exportPreview |-> 2]

Symmetry == Permutations({x1, x2, x3})
=============================================================================
