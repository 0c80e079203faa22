--------------------------- MODULE FiguresProofs ----------------------------
(***************************************************************************)
(* Theorems about the figures.                                             *)
(*                                                                         *)
(* Of one state: the two modules read a filter alike and compute the same  *)
(* figures; years and months partition the transactions; what the database *)
(* cuts into periods and groups by category adds up to what the filters    *)
(* select.  All of them follow from the types of the rows: sums are split  *)
(* and compared with SumTheorems, and an instant lies in one month only,   *)
(* which date_trunc finds (MonthIsUnique, MonthOfInstant, DateTruncMonth). *)
(*                                                                         *)
(* Of requests that meet writes: a write changes one row at most, so it    *)
(* moves a count by one, and a total or a largest total by the largest     *)
(* amount (CounterpartMoves); and a category is "Unknown" only after two   *)
(* writes.  IInv is the inductive invariant.                               *)
(***************************************************************************)
EXTENDS Figures, SumTheorems

-----------------------------------------------------------------------------
(* Whole numbers                                                           *)

LEMMA DivBounds ==
  ASSUME NEW a \in Int, NEW n \in Nat \ {0}
  PROVE  /\ a \div n \in Int
         /\ n * (a \div n) <= a /\ a < n * ((a \div n) + 1)
BY SMTT(30)

LEMMA ScaleKeepsOrder ==
  ASSUME NEW a \in Int, NEW b \in Int, NEW n \in Nat \ {0}
  PROVE  /\ n * a \in Int
         /\ a <= b <=> n * a <= n * b
         /\ a < b <=> n * a < n * b
BY SMTT(30)

LEMMA DivUnique ==
  ASSUME NEW a \in Int, NEW n \in Nat \ {0}, NEW q \in Int, n * q <= a, a < n * (q + 1)
  PROVE  a \div n = q
<1>1. PICK d \in Int : d = a \div n /\ n * d <= a /\ a < n * (d + 1)
  BY DivBounds
<1>2. n * q < n * (d + 1) /\ n * d < n * (q + 1)
  BY <1>1
<1>3. q < d + 1 /\ d < q + 1
  BY <1>2, ScaleKeepsOrder
<1> QED BY <1>1, <1>3

-----------------------------------------------------------------------------
(* The calendar                                                            *)

Months == 0 .. MonthsPerYear - 1

LEMMA DaysBeforeNext ==
  ASSUME NEW m \in Months
  PROVE  /\ DaysBefore(m) \in Nat /\ DaysBefore(0) = 0
         /\ DaysBefore(m + 1) = DaysBefore(m) + DaysOfMonth[m]
<1>1. m \in Nat /\ m < MonthsPerYear /\ MonthsPerYear \in Nat
  BY CalendarTyped DEF Months
<1>2. IsFiniteSet(0 .. m - 1)
  BY <1>1, FS_Interval
<1>3. \A k \in 0 .. m : DaysOfMonth[k] \in Nat
  BY <1>1, CalendarTyped DEF Months
<1>4. DaysBefore(m) \in Nat
  BY <1>1, <1>2, <1>3, SumNat DEF DaysBefore
<1>5. DaysBefore(0) = 0
  <2>1. 0 .. 0 - 1 = {}
    OBVIOUS
  <2>2. SumFunctionOnSet(DaysOfMonth, 0 .. 0 - 1) = SumFunctionOnSet(DaysOfMonth, {})
    BY <2>1
  <2> QED BY <2>2, SumEmpty DEF DaysBefore
<1>6. DaysBefore(m + 1) = DaysBefore(m) + DaysOfMonth[m]
  <2>1. (0 .. m - 1) \cup {m} = 0 .. (m + 1) - 1
    BY <1>1
  <2>2. m \notin 0 .. m - 1
    BY <1>1
  <2>3. \A k \in (0 .. m - 1) \cup {m} : DaysOfMonth[k] \in Int
    BY <1>1, <1>3
  <2>4. SumFunctionOnSet(DaysOfMonth, (0 .. m - 1) \cup {m})
          = DaysOfMonth[m] + SumFunctionOnSet(DaysOfMonth, 0 .. m - 1)
    BY <1>2, <2>2, <2>3, SumAdd
  <2>5. DaysBefore(m + 1) = SumFunctionOnSet(DaysOfMonth, (0 .. m - 1) \cup {m})
    BY <2>1 DEF DaysBefore
  <2> QED BY <1>1, <1>3, <1>4, <2>4, <2>5 DEF DaysBefore
<1> QED BY <1>4, <1>5, <1>6

LEMMA DaysBeforeNat ==
  ASSUME NEW m \in 0 .. MonthsPerYear
  PROVE  DaysBefore(m) \in Nat
<1>1. IsFiniteSet(0 .. m - 1)
  BY CalendarTyped, FS_Interval
<1>2. \A k \in 0 .. m - 1 : DaysOfMonth[k] \in Nat
  BY CalendarTyped
<1> QED BY <1>1, <1>2, SumNat DEF DaysBefore

\* Later months start later.
LEMMA DaysBeforeGrows ==
  ASSUME NEW m \in Months, NEW n \in 0 .. MonthsPerYear, m < n
  PROVE  DaysBefore(m) < DaysBefore(m + 1) /\ DaysBefore(m + 1) <= DaysBefore(n)
<1>1. m \in Nat /\ n \in Nat /\ m < MonthsPerYear /\ n <= MonthsPerYear /\ MonthsPerYear \in Nat
  BY CalendarTyped DEF Months
<1>2. DaysBefore(m) < DaysBefore(m + 1)
  <2>1. DaysOfMonth[m] \in Nat \ {0}
    BY CalendarTyped DEF Months
  <2> QED BY <2>1, DaysBeforeNext
<1>3. (0 .. (m + 1) - 1) \in SUBSET (0 .. n - 1)
  BY <1>1
<1>4. IsFiniteSet(0 .. n - 1) /\ \A k \in 0 .. n - 1 : DaysOfMonth[k] \in Nat
  <2>1. IsFiniteSet(0 .. n - 1)
    BY <1>1, FS_Interval
  <2> QED BY <1>1, <2>1, CalendarTyped
<1>5. DaysBefore(m + 1) <= DaysBefore(n)
  BY <1>3, <1>4, SumMonotone DEF DaysBefore
<1> QED BY <1>2, <1>5

LEMMA DaysOfYearPositive == DaysOfYear \in Nat \ {0}
<1>1. 0 \in Months /\ MonthsPerYear \in 0 .. MonthsPerYear /\ 0 < MonthsPerYear
  BY CalendarTyped DEF Months
<1>2. DaysBefore(0) < DaysBefore(0 + 1) /\ DaysBefore(0 + 1) <= DaysBefore(MonthsPerYear)
  BY <1>1, DaysBeforeGrows
<1>3. DaysBefore(0) \in Nat /\ DaysBefore(0 + 1) \in Nat /\ DaysBefore(MonthsPerYear) \in Nat
  BY <1>1, DaysBeforeNat, CalendarTyped
<1> QED BY <1>2, <1>3 DEF DaysOfYear

\* The start of a month, the one after the last included.
LEMMA UTCOfMonth ==
  ASSUME NEW y \in Int, NEW m \in 0 .. MonthsPerYear
  PROVE  UTC(y, m) = InstantsPerDay * (y * DaysOfYear + DaysBefore(m))
<1>1. MonthsPerYear \in Nat \ {0} /\ DaysOfYear \in Nat /\ InstantsPerDay \in Nat
  BY CalendarTyped, DaysOfYearPositive
<1>2. CASE m < MonthsPerYear
  <2>1. m \div MonthsPerYear = 0
    <3>1. MonthsPerYear * 0 <= m /\ m < MonthsPerYear * (0 + 1)
      BY <1>1, <1>2
    <3> QED BY <1>1, <3>1, DivUnique
  <2>2. m % MonthsPerYear = m
    BY <1>1, <1>2
  <2> QED BY <1>1, <2>1, <2>2 DEF UTC
<1>3. CASE m = MonthsPerYear
  <2>1. m \div MonthsPerYear = 1
    <3>1. MonthsPerYear * 1 <= m /\ m < MonthsPerYear * (1 + 1)
      BY <1>1, <1>3
    <3> QED BY <1>1, <3>1, DivUnique
  <2>2. m % MonthsPerYear = 0
    BY <1>1, <1>3
  <2>3. DaysBefore(0) = 0
    BY <1>1, DaysBeforeNext DEF Months
  <2>4. (y + 1) * DaysOfYear + 0 = y * DaysOfYear + DaysOfYear
    BY <1>1
  <2>5. UTC(y, m) = InstantsPerDay * ((y + 1) * DaysOfYear + 0)
    BY <2>1, <2>2, <2>3 DEF UTC
  <2> QED BY <1>3, <2>4, <2>5 DEF DaysOfYear
<1> QED BY <1>1, <1>2, <1>3

LEMMA UTCInt ==
  ASSUME NEW y \in Int, NEW m \in 0 .. MonthsPerYear
  PROVE  UTC(y, m) \in Int
<1>1. DaysBefore(m) \in Nat /\ DaysOfYear \in Nat /\ InstantsPerDay \in Nat
  BY DaysBeforeNat, DaysOfYearPositive, CalendarTyped
<1> QED BY <1>1, UTCOfMonth

LEMMA UTCGrows ==
  ASSUME NEW y \in Int, NEW m \in Months, NEW n \in 0 .. MonthsPerYear, m < n
  PROVE  UTC(y, m) < UTC(y, m + 1) /\ UTC(y, m + 1) <= UTC(y, n)
<1>1. m \in 0 .. MonthsPerYear /\ m + 1 \in 0 .. MonthsPerYear
  BY CalendarTyped DEF Months
<1>2. /\ DaysBefore(m) \in Nat /\ DaysBefore(m + 1) \in Nat /\ DaysBefore(n) \in Nat
      /\ DaysOfYear \in Nat /\ InstantsPerDay \in Nat \ {0}
  BY <1>1, DaysBeforeNat, DaysOfYearPositive, CalendarTyped
<1>3. DaysBefore(m) < DaysBefore(m + 1) /\ DaysBefore(m + 1) <= DaysBefore(n)
  BY DaysBeforeGrows
<1> DEFINE day(k) == y * DaysOfYear + DaysBefore(k)
<1>4. /\ day(m) \in Int /\ day(m + 1) \in Int /\ day(n) \in Int
      /\ day(m) < day(m + 1) /\ day(m + 1) <= day(n)
  BY <1>2, <1>3
<1>5. /\ UTC(y, m) = InstantsPerDay * day(m)
      /\ UTC(y, m + 1) = InstantsPerDay * day(m + 1)
      /\ UTC(y, n) = InstantsPerDay * day(n)
  BY <1>1, UTCOfMonth
<1> HIDE DEF day
<1> QED BY <1>2, <1>4, <1>5, ScaleKeepsOrder

\* An instant lies in one month of one year only, which is the one date_trunc finds.
LEMMA MonthIsUnique ==
  ASSUME NEW y \in Int, NEW m \in Months, NEW n \in Months, NEW t \in Int,
         UTC(y, m) <= t, t < UTC(y, m + 1), UTC(y, n) <= t, t < UTC(y, n + 1)
  PROVE  m = n
<1>1. /\ m \in 0 .. MonthsPerYear /\ m + 1 \in 0 .. MonthsPerYear
      /\ n \in 0 .. MonthsPerYear /\ n + 1 \in 0 .. MonthsPerYear
  BY CalendarTyped DEF Months
<1>2. UTC(y, m) \in Int /\ UTC(y, m + 1) \in Int /\ UTC(y, n) \in Int /\ UTC(y, n + 1) \in Int
  BY <1>1, UTCInt
<1>3. CASE m < n
  <2>1. UTC(y, m + 1) <= UTC(y, n)
    BY <1>1, <1>3, UTCGrows
  <2> QED BY <1>2, <2>1
<1>4. CASE n < m
  <2>1. UTC(y, n + 1) <= UTC(y, m)
    BY <1>1, <1>4, UTCGrows
  <2> QED BY <1>2, <2>1
<1> QED BY <1>1, <1>3, <1>4

LEMMA YearOfInstant ==
  ASSUME NEW y \in Int, NEW m \in Months, NEW t \in Int, UTC(y, m) <= t, t < UTC(y, m + 1)
  PROVE  (t \div InstantsPerDay) \div DaysOfYear = y
<1> DEFINE day == t \div InstantsPerDay
           first == y * DaysOfYear + DaysBefore(m)
           next == y * DaysOfYear + DaysBefore(m + 1)
<1>1. m \in 0 .. MonthsPerYear /\ m + 1 \in 0 .. MonthsPerYear /\ MonthsPerYear \in 0 .. MonthsPerYear
  BY CalendarTyped DEF Months
<1>2. /\ DaysBefore(m) \in Nat /\ DaysBefore(m + 1) \in Nat
      /\ DaysOfYear \in Nat \ {0} /\ InstantsPerDay \in Nat \ {0}
  BY <1>1, DaysBeforeNat, DaysOfYearPositive, CalendarTyped
<1>3. DaysBefore(m + 1) <= DaysOfYear
  <2>1. m < MonthsPerYear
    BY CalendarTyped DEF Months
  <2> QED BY <1>1, <2>1, DaysBeforeGrows DEF DaysOfYear
<1>4. /\ day \in Int
      /\ InstantsPerDay * day <= t /\ t < InstantsPerDay * (day + 1)
  BY <1>2, DivBounds
<1>5. InstantsPerDay * first <= t /\ t < InstantsPerDay * next
  BY <1>1, UTCOfMonth
<1>6. first \in Int /\ next \in Int
  BY <1>2
<1>7. first < day + 1 /\ day < next
  <2> HIDE DEF day, first, next
  <2>1. /\ InstantsPerDay * first \in Int /\ InstantsPerDay * next \in Int
        /\ InstantsPerDay * day \in Int /\ InstantsPerDay * (day + 1) \in Int
    BY <1>2, <1>4, <1>6, ScaleKeepsOrder
  <2>2. InstantsPerDay * first < InstantsPerDay * (day + 1)
        /\ InstantsPerDay * day < InstantsPerDay * next
    BY <1>4, <1>5, <2>1
  <2> QED BY <1>2, <1>4, <1>6, <2>2, ScaleKeepsOrder
<1>8. DaysOfYear * y <= day /\ day < DaysOfYear * (y + 1)
  <2> HIDE DEF day
  <2>1. y * DaysOfYear = DaysOfYear * y /\ DaysOfYear * (y + 1) = DaysOfYear * y + DaysOfYear
    BY <1>2
  <2>2. DaysOfYear * y \in Int
    BY <1>2
  <2> QED BY <1>2, <1>3, <1>4, <1>7, <2>1, <2>2
<1> HIDE DEF day
<1>9. day \div DaysOfYear = y
  BY <1>2, <1>4, <1>8, DivUnique
<1> QED BY <1>9 DEF day

LEMMA DateTruncMonth ==
  ASSUME NEW y \in Int, NEW m \in Months, NEW t \in Int, UTC(y, m) <= t, t < UTC(y, m + 1)
  PROVE  DateTrunc("month", t) = UTC(y, m)
<1> DEFINE Holds(n) == UTC(y, n) <= t /\ t < UTC(y, n + 1)
           chosen == CHOOSE n \in Months : Holds(n)
<1>1. chosen \in Months /\ Holds(chosen)
  OBVIOUS
<1>2. chosen = m
  <2> HIDE DEF chosen
  <2> QED BY <1>1, MonthIsUnique
<1>3. DateTrunc("month", t) = UTC(y, chosen)
  BY YearOfInstant DEF DateTrunc, Months
<1> QED BY <1>2, <1>3

\* Every instant lies in a month.
LEMMA MonthOfInstant ==
  ASSUME NEW t \in Nat
  PROVE  \E y \in Nat, m \in Months : UTC(y, m) <= t /\ t < UTC(y, m + 1)
<1> DEFINE day == t \div InstantsPerDay
           y == day \div DaysOfYear
           rest == day - DaysOfYear * y
           started == {m \in Months : DaysBefore(m) <= rest}
           month == Max(started)
<1>1. DaysOfYear \in Nat \ {0} /\ InstantsPerDay \in Nat \ {0} /\ MonthsPerYear \in Nat \ {0}
  BY DaysOfYearPositive, CalendarTyped
<1>2. /\ day \in Int
      /\ InstantsPerDay * day <= t /\ t < InstantsPerDay * (day + 1)
  BY <1>1, DivBounds
<1>3. day >= 0
  <2> HIDE DEF day
  <2>1. 0 < day + 1
    <3>1. InstantsPerDay * 0 < InstantsPerDay * (day + 1)
      BY <1>1, <1>2
    <3> QED BY <1>1, <1>2, <3>1, ScaleKeepsOrder
  <2> QED BY <1>2, <2>1
<1>4. /\ y \in Int
      /\ DaysOfYear * y <= day /\ day < DaysOfYear * (y + 1)
  <2> HIDE DEF day
  <2> QED BY <1>1, <1>2, DivBounds
<1> HIDE DEF day
<1>5. y \in Nat
  <2> HIDE DEF y
  <2>1. 0 < y + 1
    <3>1. DaysOfYear * 0 < DaysOfYear * (y + 1)
      BY <1>1, <1>2, <1>3, <1>4
    <3> QED BY <1>1, <1>4, <3>1, ScaleKeepsOrder
  <2> QED BY <1>4, <2>1
<1> HIDE DEF y
<1>6. rest \in Nat /\ rest < DaysOfYear /\ day = DaysOfYear * y + rest
  <2>1. DaysOfYear * y \in Int /\ DaysOfYear * (y + 1) = DaysOfYear * y + DaysOfYear
    BY <1>1, <1>5
  <2> QED BY <1>1, <1>2, <1>4, <2>1
<1> HIDE DEF rest
<1>7. month \in Months /\ DaysBefore(month) <= rest /\ \A m \in started : m <= month
  <2>1. 0 \in started
    BY <1>1, <1>6, DaysBeforeNext DEF Months
  <2>2. started \in SUBSET Months /\ IsFiniteSet(Months) /\ Months \in SUBSET Int
    BY <1>1, FS_Interval DEF Months
  <2>3. IsFiniteSet(started) /\ started \in SUBSET Int
    BY <2>2, FS_Subset
  <2>4. month \in started /\ \A m \in started : m <= month
    <3> HIDE DEF started
    <3> QED BY <2>1, <2>3, MaxIn
  <2> QED BY <2>4
<1> HIDE DEF month
<1>8. rest < DaysBefore(month + 1)
  <2>1. CASE month + 1 \in Months
    <3>1. month + 1 \notin started
      BY <1>7 DEF Months
    <3>2. DaysBefore(month + 1) \in Nat
      BY <2>1, DaysBeforeNext
    <3> QED BY <1>6, <2>1, <3>1, <3>2
  <2>2. CASE month + 1 \notin Months
    <3>1. month + 1 = MonthsPerYear
      BY <1>1, <1>7, <2>2 DEF Months
    <3> QED BY <1>6, <3>1 DEF DaysOfYear
  <2> QED BY <2>1, <2>2
<1>9. UTC(y, month) <= t /\ t < UTC(y, month + 1)
  <2> DEFINE first == y * DaysOfYear + DaysBefore(month)
             next == y * DaysOfYear + DaysBefore(month + 1)
  <2>1. month \in 0 .. MonthsPerYear /\ month + 1 \in 0 .. MonthsPerYear
    BY <1>1, <1>7 DEF Months
  <2>2. UTC(y, month) = InstantsPerDay * first /\ UTC(y, month + 1) = InstantsPerDay * next
    BY <1>5, <2>1, UTCOfMonth
  <2>3. DaysBefore(month) \in Nat /\ DaysBefore(month + 1) \in Nat
    BY <2>1, DaysBeforeNat
  <2>4. y * DaysOfYear = DaysOfYear * y /\ DaysOfYear * y \in Int
    BY <1>1, <1>5
  <2>5. first \in Int /\ next \in Int /\ first <= day /\ day + 1 <= next
    BY <1>2, <1>6, <1>7, <1>8, <2>3, <2>4
  <2> HIDE DEF first, next
  <2>6. /\ InstantsPerDay * first <= InstantsPerDay * day
        /\ InstantsPerDay * (day + 1) <= InstantsPerDay * next
        /\ InstantsPerDay * first \in Int /\ InstantsPerDay * next \in Int
        /\ InstantsPerDay * day \in Int /\ InstantsPerDay * (day + 1) \in Int
    BY <1>1, <1>2, <2>5, ScaleKeepsOrder
  <2> QED BY <1>2, <2>2, <2>6
<1> QED BY <1>5, <1>7, <1>9

-----------------------------------------------------------------------------
(* Filters                                                                 *)

\* A date alone is the first instant of its day, so that cutting it to the start of the
\* day, which only the reports do, changes nothing.
LEMMA SameDate ==
  ASSUME NEW v \in DateValues, NEW endOfDay \in BOOLEAN
  PROVE  ReportParseDate(v, endOfDay) = ParseDate(v, endOfDay)
<1>1. v.at \in Nat /\ v.dateOnly \in BOOLEAN BY ValuesTyped DEF DateValue
<1>2. InstantsPerDay \in Nat \ {0} BY CalendarTyped
<1>3. CASE v.dateOnly
  <2>1. v.at % InstantsPerDay = 0 BY <1>3, ValuesTyped
  <2>2. (v.at \div InstantsPerDay) * InstantsPerDay = v.at BY <1>1, <1>2, <2>1, SMTT(30)
  <2> QED BY <1>1, <1>2, <1>3, <2>2 DEF ReportParseDate, ParseDate
<1>4. CASE ~v.dateOnly BY <1>1, <1>4 DEF ReportParseDate, ParseDate
<1> QED BY <1>1, <1>3, <1>4

LEMMA SameDateRange ==
  ASSUME NEW f \in Filter
  PROVE  ReportDateRange(f) = ToDateRange(f)
<1>1. f.startDate # None => f.startDate \in DateValues BY DEF Filter, Optional
<1>2. f.endDate # None => f.endDate \in DateValues BY DEF Filter, Optional
<1>3. ReportCalendarRange(f) = CalendarRange(f)
  BY DEF ReportCalendarRange, CalendarRange, MonthRange, YearRange
<1> QED BY <1>1, <1>2, <1>3, SameDate DEF ReportDateRange, ToDateRange

-----------------------------------------------------------------------------
(* Rows and their totals                                                   *)

RowsTyped == transactions \in [TransactionId -> Optional(Row)]
Present   == {x \in TransactionId : transactions[x] # None}

Amounts == [x \in TransactionId |-> IF transactions[x] = None THEN 0 ELSE transactions[x].amount]

LargestAmount == Max(Amount)

LEMMA LargestAmountFacts == LargestAmount \in Nat /\ \A a \in Amount : a \in 1 .. LargestAmount
<1>1. Amount \in SUBSET Int /\ IsFiniteSet(Amount) /\ Amount # {}
  BY ValuesTyped
<1>2. LargestAmount \in Amount /\ \A a \in Amount : a <= LargestAmount
  BY <1>1, MaxIn DEF LargestAmount
<1>3. Amount \in SUBSET (Nat \ {0})
  BY ValuesTyped
<1> QED BY <1>2, <1>3

LEMMA RowFacts ==
  ASSUME RowsTyped, NEW x \in Present
  PROVE  /\ transactions[x] \in Row
         /\ transactions[x].category \in CategoryId /\ transactions[x].type \in Type
         /\ transactions[x].createdAt \in CreatedAt /\ transactions[x].createdAt \in Nat
         /\ transactions[x].amount \in Amount /\ Amounts[x] = transactions[x].amount
         /\ Amounts[x] \in 1 .. LargestAmount
<1>1. transactions[x] \in Row
  BY DEF RowsTyped, Present, Optional
<1>2. /\ transactions[x].category \in CategoryId /\ transactions[x].type \in Type
      /\ transactions[x].createdAt \in CreatedAt /\ transactions[x].amount \in Amount
  BY <1>1 DEF Row
<1>3. Amounts[x] = transactions[x].amount
  BY DEF Amounts, Present
<1>4. CreatedAt \subseteq Nat
  BY ValuesTyped
<1> QED BY <1>1, <1>2, <1>3, <1>4, LargestAmountFacts

LEMMA MatchingPresent ==
  ASSUME NEW range, NEW type, NEW category
  PROVE  Matching(range, type, category) \in SUBSET Present
BY DEF Matching, Present

LEMMA TotalIsSum ==
  ASSUME RowsTyped, NEW S \in SUBSET Present
  PROVE  /\ IsFiniteSet(S)
         /\ \A x \in S : Amounts[x] \in 1 .. LargestAmount /\ Amounts[x] \in Nat
         /\ Total(S) = SumFunctionOnSet(Amounts, S)
         /\ Total(S) \in Nat
<1>1. IsFiniteSet(S)
  <2>1. S \in SUBSET TransactionId /\ IsFiniteSet(TransactionId)
    BY ValuesTyped DEF Present
  <2> QED BY <2>1, FS_Subset
<1>2. \A x \in S : Amounts[x] = transactions[x].amount /\ Amounts[x] \in 1 .. LargestAmount
  BY RowFacts
<1>3. \A x \in S : Amounts[x] \in Nat
  BY <1>2, LargestAmountFacts
<1> DEFINE column == [x \in S |-> transactions[x].amount]
<1>4. Total(S) = SumFunctionOnSet(column, S)
  BY DEF Total, SumFunction
<1>5. \A x \in S : Amounts[x] \in Int /\ Amounts[x] = column[x]
  BY <1>2, <1>3
<1> HIDE DEF column
<1>6. SumFunctionOnSet(Amounts, S) = SumFunctionOnSet(column, S)
  BY <1>1, <1>5, SumSame
<1>7. SumFunctionOnSet(Amounts, S) \in Nat
  BY <1>1, <1>3, SumNat
<1> QED BY <1>1, <1>2, <1>3, <1>4, <1>6, <1>7

LEMMA TotalOfNone == Total({}) = 0
<1>1. Total({}) = SumFunctionOnSet([x \in {} |-> transactions[x].amount], {})
  BY DEF Total, SumFunction
<1> QED BY <1>1, SumEmpty

\* The total of some of the rows is no larger, and zero of no rows only.
LEMMA TotalMonotone ==
  ASSUME RowsTyped, NEW S \in SUBSET Present, NEW T \in SUBSET S
  PROVE  Total(T) <= Total(S)
<1>1. T \in SUBSET Present
  OBVIOUS
<1>2. /\ Total(S) = SumFunctionOnSet(Amounts, S) /\ Total(T) = SumFunctionOnSet(Amounts, T)
      /\ IsFiniteSet(S) /\ \A x \in S : Amounts[x] \in Nat
  BY <1>1, TotalIsSum
<1>3. SumFunctionOnSet(Amounts, T) <= SumFunctionOnSet(Amounts, S)
  BY <1>2, SumMonotone
<1> QED BY <1>2, <1>3

LEMMA TotalAtLeast ==
  ASSUME RowsTyped, NEW S \in SUBSET Present, NEW x \in S
  PROVE  transactions[x].amount \in Nat \ {0} /\ transactions[x].amount <= Total(S)
<1>1. /\ Total(S) = SumFunctionOnSet(Amounts, S)
      /\ IsFiniteSet(S) /\ \A y \in S : Amounts[y] \in Nat
  BY TotalIsSum
<1>2. Amounts[x] <= SumFunctionOnSet(Amounts, S)
  BY <1>1, SumAtLeast
<1>3. Amounts[x] = transactions[x].amount /\ Amounts[x] \in 1 .. LargestAmount
  BY RowFacts
<1>4. Amounts[x] \in Nat \ {0}
  BY <1>3, LargestAmountFacts
<1> QED BY <1>1, <1>2, <1>3, <1>4

LEMMA TotalIsZero ==
  ASSUME RowsTyped, NEW S \in SUBSET Present
  PROVE  Total(S) = 0 <=> S = {}
<1>1. CASE S = {}
  BY <1>1, TotalOfNone
<1>2. CASE S # {}
  <2>1. PICK x \in S : TRUE
    BY <1>2
  <2>2. transactions[x].amount \in Nat \ {0} /\ transactions[x].amount <= Total(S)
    BY TotalAtLeast
  <2>3. Total(S) \in Nat
    BY TotalIsSum
  <2> QED BY <1>2, <2>2, <2>3
<1> QED BY <1>1, <1>2

\* Groups of rows by a column: their totals add up.
LEMMA TotalByGroup ==
  ASSUME RowsTyped, NEW S \in SUBSET Present, NEW K, IsFiniteSet(K),
         NEW key, \A x \in S : key[x] \in K,
         NEW g, \A k \in K : g[k] = Total({x \in S : key[x] = k})
  PROVE  SumFunctionOnSet(g, K) = Total(S)
<1>1. IsFiniteSet(S) /\ Total(S) = SumFunctionOnSet(Amounts, S) /\ \A x \in S : Amounts[x] \in Int
  BY TotalIsSum
<1>2. \A k \in K : g[k] = SumFunctionOnSet(Amounts, {x \in S : key[x] = k})
  <2> SUFFICES ASSUME NEW k \in K
               PROVE  g[k] = SumFunctionOnSet(Amounts, {x \in S : key[x] = k})
    OBVIOUS
  <2> DEFINE group == {x \in S : key[x] = k}
  <2>1. group \in SUBSET Present
    OBVIOUS
  <2>2. g[k] = Total(group)
    OBVIOUS
  <2> HIDE DEF group
  <2>3. g[k] = SumFunctionOnSet(Amounts, group)
    BY <2>1, <2>2, TotalIsSum
  <2> QED BY <2>3 DEF group
<1> QED BY <1>1, <1>2, SumByGroup

-----------------------------------------------------------------------------
(* The two modules                                                         *)

LEMMA FilterType ==
  ASSUME NEW f \in Filter
  PROVE  f.type \in {None, "INCOME", "EXPENSE"} /\ None \notin {"INCOME", "EXPENSE"}
BY ValuesTyped DEF Filter, Optional, Type

LEMMA SameWhere ==
  ASSUME NEW f \in Filter
  PROVE  ReportWhere(f) = Where(f, f.type)
BY SameDateRange DEF ReportWhere, Where

LEMMA WherePresent ==
  ASSUME NEW f, NEW type
  PROVE  Where(f, type) \in SUBSET Present
BY MatchingPresent DEF Where

LEMMA ReportPresent ==
  ASSUME NEW f, NEW type
  PROVE  ReportWhere(f) \in SUBSET Present /\ OfType(ReportWhere(f), type) \in SUBSET Present
BY MatchingPresent DEF ReportWhere, OfType

\* The rows of a type, asked for by the filter or split off afterwards.
LEMMA SameOfType ==
  ASSUME RowsTyped, NEW f \in Filter, NEW type \in Type, f.type \in {None, type}
  PROVE  Where(f, type) = OfType(ReportWhere(f), type)
<1>1. type # None
  BY ValuesTyped
<1>2. \A x \in Where(f, f.type) : transactions[x].type \in Type
  BY WherePresent, RowFacts
<1> QED BY <1>1, <1>2, SameWhere, ValuesTyped DEF Where, Matching, OfType

LEMMA OtherTypeIsEmpty ==
  ASSUME RowsTyped, NEW f \in Filter, NEW type \in Type, f.type \notin {None, type}
  PROVE  OfType(ReportWhere(f), type) = {}
BY ValuesTyped DEF OfType, ReportWhere, Matching

LEMMA SplitByType ==
  ASSUME RowsTyped, NEW S \in SUBSET Present
  PROVE  /\ S = OfType(S, "INCOME") \cup OfType(S, "EXPENSE")
         /\ OfType(S, "INCOME") \cap OfType(S, "EXPENSE") = {}
         /\ Cardinality(S) = Cardinality(OfType(S, "INCOME")) + Cardinality(OfType(S, "EXPENSE"))
<1> DEFINE income == OfType(S, "INCOME")
           expense == OfType(S, "EXPENSE")
<1>1. \A x \in S : transactions[x].type \in {"INCOME", "EXPENSE"}
  BY RowFacts DEF Type
<1>2. S = income \cup expense
  BY <1>1 DEF OfType
<1>3. income \cap expense = {}
  BY DEF OfType
<1>4. IsFiniteSet(income) /\ IsFiniteSet(expense)
  <2>1. income \in SUBSET S /\ expense \in SUBSET S
    BY DEF OfType
  <2> QED BY <2>1, TotalIsSum
<1> HIDE DEF income, expense
<1>5. Cardinality(income \cup expense) = Cardinality(income) + Cardinality(expense)
                                         - Cardinality(income \cap expense)
  BY <1>4, FS_Union
<1>6. Cardinality(income \cap expense) = 0
  BY <1>3, FS_EmptySet
<1>7. Cardinality(S) = Cardinality(income \cup expense)
  BY <1>2
<1>8. Cardinality(income) \in Nat /\ Cardinality(expense) \in Nat
  BY <1>4, FS_CardinalityType
<1>9. Cardinality(S) = Cardinality(income) + Cardinality(expense)
  BY <1>5, <1>6, <1>7, <1>8
<1> QED BY <1>2, <1>3, <1>9 DEF income, expense

\* The totals of the overview, which asks for each type alone, are those of the summary.
LEMMA SameTotals ==
  ASSUME RowsTyped, NEW f \in Filter, NEW type \in Type
  PROVE  /\ TotalByType(f, type) = Total(OfType(ReportWhere(f), type))
         /\ TotalByType(f, type) \in Nat
<1>1. CASE f.type \in {None, type}
  BY <1>1, SameOfType, ReportPresent, TotalIsSum DEF TotalByType
<1>2. CASE f.type \notin {None, type}
  <2>1. TotalByType(f, type) = 0
    BY <1>2 DEF TotalByType
  <2>2. Total(OfType(ReportWhere(f), type)) = Total({})
    BY <1>2, OtherTypeIsEmpty
  <2> QED BY <2>1, <2>2, TotalOfNone
<1> QED BY <1>1, <1>2

LEMMA SameAverage ==
  ASSUME RowsTyped, NEW f \in Filter
  PROVE  /\ AverageExpense(f) = Mean(OfType(ReportWhere(f), "EXPENSE"))
         /\ AverageExpense(f) \in [sum : Nat, of : Nat]
<1>1. AverageExpense(f) = Mean(OfType(ReportWhere(f), "EXPENSE"))
  <2>1. CASE f.type = "INCOME"
    <3>1. OfType(ReportWhere(f), "EXPENSE") = {}
      BY <2>1, FilterType, OtherTypeIsEmpty DEF Type
    <3>2. Mean(OfType(ReportWhere(f), "EXPENSE")) = Mean({})
      BY <3>1
    <3> QED BY <2>1, <3>2 DEF AverageExpense
  <2>2. CASE f.type # "INCOME"
    <3>1. Where(f, "EXPENSE") = OfType(ReportWhere(f), "EXPENSE")
      BY <2>2, FilterType, SameOfType DEF Type
    <3>2. Mean(Where(f, "EXPENSE")) = Mean(OfType(ReportWhere(f), "EXPENSE"))
      BY <3>1
    <3> QED BY <2>2, <3>2 DEF AverageExpense
  <2> QED BY <2>1, <2>2
<1> DEFINE rows == OfType(ReportWhere(f), "EXPENSE")
<1>2. IsFiniteSet(rows) /\ Total(rows) \in Nat
  BY ReportPresent, TotalIsSum
<1>3. Cardinality(rows) \in Nat
  BY <1>2, FS_CardinalityType
<1> QED BY <1>1, <1>2, <1>3 DEF Mean

LEMMA SameCount ==
  ASSUME RowsTyped, NEW f \in Filter
  PROVE  /\ CountTransactions(f) = Cardinality(ReportWhere(f))
         /\ Summary(f).totalTransactions = Cardinality(ReportWhere(f))
         /\ Cardinality(ReportWhere(f)) \in Nat
<1>1. CountTransactions(f) = Cardinality(ReportWhere(f))
  BY SameWhere DEF CountTransactions
<1>2. Summary(f).totalTransactions = Cardinality(ReportWhere(f))
  BY ReportPresent, SplitByType DEF Summary
<1>3. IsFiniteSet(ReportWhere(f))
  BY ReportPresent, TotalIsSum
<1> QED BY <1>1, <1>2, <1>3, FS_CardinalityType

-----------------------------------------------------------------------------
(* Categories                                                              *)

\* Only categories of rows are grouped.
LEMMA GroupedFacts ==
  ASSUME RowsTyped, NEW f, NEW type
  PROVE  Grouped(f, type) \in SUBSET CategoryId /\ IsFiniteSet(Grouped(f, type))
<1>1. Grouped(f, type) \in SUBSET CategoryId
  BY WherePresent, RowFacts DEF Grouped
<1> QED BY <1>1, FS_Subset, ValuesTyped

LEMMA CategoryTotalNat ==
  ASSUME RowsTyped, NEW f, NEW type, NEW k
  PROVE  CategoryTotal(f, type, k) \in Nat
<1>1. {x \in Where(f, type) : transactions[x].category = k} \in SUBSET Present
  BY WherePresent
<1> QED BY <1>1, TotalIsSum DEF CategoryTotal

\* What a category of a type adds up to in the report.
ReportRows(f, type)    == IF f.type \in {None, type} THEN OfType(ReportWhere(f), type) ELSE {}
ReportTotals(f, type)  ==
  [k \in CategoryId |-> Total({x \in ReportRows(f, type) : transactions[x].category = k})]

LEMMA ReportTotalsFacts ==
  ASSUME RowsTyped, NEW f \in Filter, NEW type \in Type, NEW k \in CategoryId
  PROVE  /\ ReportTotals(f, type)[k] \in Nat
         /\ k \in Grouped(f, type) =>
              /\ ReportTotals(f, type)[k] = CategoryTotal(f, type, k)
              /\ ReportTotals(f, type)[k] > 0
         /\ k \notin Grouped(f, type) => ReportTotals(f, type)[k] = 0
<1> DEFINE rows == {x \in ReportRows(f, type) : transactions[x].category = k}
<1>1. ReportTotals(f, type)[k] = Total(rows)
  BY DEF ReportTotals
<1>2. rows \in SUBSET Present
  BY ReportPresent DEF ReportRows
<1>3. Total(rows) \in Nat /\ (Total(rows) = 0 <=> rows = {})
  BY <1>2, TotalIsSum, TotalIsZero
<1>4. CASE f.type \in {None, type}
  <2>1. ReportRows(f, type) = Where(f, type)
    BY <1>4, SameOfType DEF ReportRows
  <2>2. rows = {x \in Where(f, type) : transactions[x].category = k}
    BY <2>1
  <2>3. CategoryTotal(f, type, k) = Total(rows)
    BY <2>2 DEF CategoryTotal
  <2>4. k \in Grouped(f, type) <=> rows # {}
    BY <1>4, <2>2 DEF Grouped
  <2> HIDE DEF rows
  <2> QED BY <1>1, <1>3, <2>3, <2>4
<1>5. CASE f.type \notin {None, type}
  <2>1. rows = {} /\ Grouped(f, type) = {}
    BY <1>5 DEF ReportRows, Grouped
  <2> QED BY <1>1, <1>3, <2>1
<1> QED BY <1>4, <1>5

LEMMA HighestReportedIsLargest ==
  ASSUME NEW f, NEW type
  PROVE  HighestReported(f, type) = Largest(ReportTotals(f, type), CategoryId)
<1>1. {Total({x \in ReportRows(f, type) : transactions[x].category = k}) : k \in CategoryId}
        = {ReportTotals(f, type)[k] : k \in CategoryId}
  BY DEF ReportTotals
<1> QED BY <1>1 DEF HighestReported, ReportRows, Largest

\* The highest category by the database's ordering is the largest of all totals.
LEMMA HighestIsLargest ==
  ASSUME RowsTyped, NEW f \in Filter, NEW type \in Type
  PROVE  /\ HighestTotal(f, type) = Largest(ReportTotals(f, type), CategoryId)
         /\ HighestTotal(f, type) \in Nat
<1> DEFINE all == Grouped(f, type)
           totals == ReportTotals(f, type)
           largest == Largest(totals, CategoryId)
           grouped == CategoryTotals(f, type)
           top == CHOOSE t \in Top(1, grouped) : TRUE
           column == [k \in top |-> grouped[k]]
           taken == Min({1, Cardinality(all)})
<1>1. all \in SUBSET CategoryId /\ IsFiniteSet(all) /\ Cardinality(all) \in Nat
  BY GroupedFacts, FS_CardinalityType
<1>2. \A k \in CategoryId : totals[k] \in Nat
  BY ReportTotalsFacts
<1>3. /\ largest \in Nat
      /\ \A k \in CategoryId : totals[k] <= largest
      /\ largest = 0 \/ \E k \in CategoryId : totals[k] = largest
  <2> HIDE DEF totals
  <2> QED BY <1>2, MaxOfValues, ValuesTyped
<1>4. HighestTotal(f, type) = SumFunctionOnSet(column, top)
  BY DEF HighestTotal, SumFunction
<1>5. /\ DOMAIN grouped = all
      /\ \A k \in all : grouped[k] = CategoryTotal(f, type, k)
      /\ Top(1, grouped) =
           {t \in SUBSET all :
              /\ Cardinality(t) = taken
              /\ \A k \in t, l \in all \ t : CategoryTotal(f, type, k) >= CategoryTotal(f, type, l)}
  <2>1. DOMAIN grouped = all /\ \A k \in all : grouped[k] = CategoryTotal(f, type, k)
    BY DEF CategoryTotals
  <2>2. 1 # None
    BY ValuesTyped
  <2> HIDE DEF grouped
  <2> QED BY <2>1, <2>2 DEF Top, ComesFirst
<1>6. CASE all = {}
  <2>1. top = {}
    <3>1. \A t \in Top(1, grouped) : t = {}
      BY <1>5, <1>6
    <3>2. Cardinality(all) = 0
      BY <1>1, <1>6, FS_EmptySet
    <3>3. taken = 0
      <4>1. 0 \in {1, Cardinality(all)} /\ \A v \in {1, Cardinality(all)} : 0 <= v
        BY <3>2
      <4>2. \A m \in {1, Cardinality(all)} : (\A v \in {1, Cardinality(all)} : m <= v) => m = 0
        BY <3>2
      <4> QED BY <4>1, <4>2 DEF Min
    <3>4. Cardinality({}) = 0
      BY FS_EmptySet
    <3> HIDE DEF taken
    <3>5. {} \in Top(1, grouped)
      BY <1>5, <3>3, <3>4
    <3> QED BY <3>1, <3>5
  <2>2. HighestTotal(f, type) = 0
    <3>1. SumFunctionOnSet(column, top) = SumFunctionOnSet(column, {})
      BY <2>1
    <3> QED BY <1>4, <3>1, SumEmpty
  <2>3. \A k \in CategoryId : totals[k] = 0
    BY <1>6, ReportTotalsFacts
  <2> QED BY <1>3, <2>2, <2>3
<1>7. CASE all # {}
  <2>1. PICK k1 \in all : TRUE
    BY <1>7
  <2>2. totals[k1] > 0
    BY <1>1, <2>1, ReportTotalsFacts
  <2>3. PICK k2 \in CategoryId : totals[k2] = largest
    BY <1>1, <1>2, <1>3, <2>1, <2>2
  <2>4. k2 \in all
    <3>1. largest > 0
      BY <1>1, <1>2, <1>3, <2>1, <2>2
    <3> QED BY <2>3, <3>1, ReportTotalsFacts
  <2>5. taken = 1
    <3>1. Cardinality(all) >= 1
      BY <1>1, <1>7, FS_EmptySet
    <3>2. 1 \in {1, Cardinality(all)} /\ \A v \in {1, Cardinality(all)} : 1 <= v
      BY <1>1, <3>1
    <3>3. \A m \in {1, Cardinality(all)} : (\A v \in {1, Cardinality(all)} : m <= v) => m = 1
      BY <1>1, <3>1
    <3> QED BY <3>2, <3>3 DEF Min
  <2>6. \A k \in all : CategoryTotal(f, type, k) = totals[k] /\ totals[k] \in Nat
    BY <1>1, ReportTotalsFacts
  <2> HIDE DEF taken, totals, largest, all, grouped
  <2>7. {k2} \in Top(1, grouped)
    <3>1. Cardinality({k2}) = 1
      BY FS_Singleton
    <3>2. \A l \in all : CategoryTotal(f, type, k2) >= CategoryTotal(f, type, l)
      BY <1>1, <1>3, <2>3, <2>4, <2>6
    <3> QED BY <1>5, <2>4, <2>5, <3>1, <3>2
  <2>8. top \in Top(1, grouped)
    BY <2>7
  <2> HIDE DEF top
  <2>9. PICK k3 : top = {k3}
    <3>1. top \in SUBSET all /\ Cardinality(top) = 1
      BY <1>5, <2>5, <2>8
    <3>2. IsFiniteSet(top)
      BY <1>1, <3>1, FS_Subset
    <3> QED BY <3>1, <3>2, FS_Singleton
  <2>10. k3 \in all /\ CategoryTotal(f, type, k3) >= CategoryTotal(f, type, k2)
    <3>1. k3 \in all
      BY <1>5, <2>8, <2>9
    <3>2. CASE k2 = k3
      BY <2>6, <3>1, <3>2
    <3>3. CASE k2 # k3
      BY <1>5, <2>4, <2>8, <2>9, <3>3
    <3> QED BY <3>1, <3>2, <3>3
  <2>11. CategoryTotal(f, type, k3) = largest
    BY <1>1, <1>3, <2>3, <2>4, <2>6, <2>10
  <2>12. SumFunctionOnSet(column, top) = largest
    <3>1. column[k3] = largest
      BY <1>5, <2>9, <2>10, <2>11
    <3> HIDE DEF column
    <3>2. column[k3] \in Int
      BY <1>3, <3>1
    <3>3. SumFunctionOnSet(column, {k3}) = column[k3]
      BY <3>2, SumOfSingleton
    <3> QED BY <2>9, <3>1, <3>3
  <2> QED BY <1>3, <1>4, <2>12 DEF largest, totals
<1> QED BY <1>6, <1>7

-----------------------------------------------------------------------------
(* Statements, and how far a write moves what they return                  *)

Counts         == {"transactionCount", "aggregates", "count"}
Sums           == {"totalIncome", "totalExpense", "highestExpense", "highestIncome"}
StatementNames == Counts \cup Sums \cup {"averageExpense"}

\* A statement returns what the other module makes of the same rows.
LEMMA ReturnedFacts ==
  ASSUME RowsTyped, NEW f \in Filter, NEW s \in StatementNames
  PROVE  Returned(s, f) = Counterpart(s, f) /\ FigureTyped(s, Counterpart(s, f))
<1>1. CASE s = "totalIncome"
  BY <1>1, SameTotals DEF Returned, Counterpart, FigureTyped, Summary, Type
<1>2. CASE s = "totalExpense"
  BY <1>2, SameTotals DEF Returned, Counterpart, FigureTyped, Summary, Type
<1>3. CASE s = "averageExpense"
  BY <1>3, SameAverage DEF Returned, Counterpart, FigureTyped, Summary
<1>4. CASE s = "highestExpense"
  BY <1>4, HighestIsLargest, HighestReportedIsLargest DEF Returned, Counterpart, FigureTyped, Type
<1>5. CASE s = "highestIncome"
  BY <1>5, HighestIsLargest, HighestReportedIsLargest DEF Returned, Counterpart, FigureTyped, Type
<1>6. CASE s \in Counts
  <2>1. Returned(s, f) = Cardinality(ReportWhere(f))
    BY <1>6, SameCount DEF Returned, CountReported, Counts
  <2>2. Counterpart(s, f) = Cardinality(ReportWhere(f))
    BY <1>6, SameCount DEF Counterpart, CountReported, Counts
  <2> QED BY <1>6, <2>1, <2>2, SameCount DEF FigureTyped, Counts
<1> QED BY <1>1, <1>2, <1>3, <1>4, <1>5, <1>6 DEF StatementNames, Sums

LEMMA DriftedNow ==
  ASSUME NEW s \in StatementNames, NEW now, FigureTyped(s, now), NEW n \in Nat
  PROVE  Drifted(s, now, now, n)
<1>1. LargestAmount * n \in Nat
  BY LargestAmountFacts
<1>2. CASE s = "averageExpense"
  BY <1>1, <1>2 DEF Drifted, Near, FigureTyped, LargestAmount
<1>3. CASE s # "averageExpense"
  BY <1>1, <1>3 DEF Drifted, Near, FigureTyped, LargestAmount
<1> QED BY <1>2, <1>3

\* One write more adds at most what one write can do.
LEMMA DriftedFurther ==
  ASSUME NEW s \in StatementNames, NEW n \in Nat,
         NEW was, NEW now, NEW later,
         FigureTyped(s, was), FigureTyped(s, now), FigureTyped(s, later),
         Drifted(s, was, now, n), Drifted(s, now, later, 1)
  PROVE  Drifted(s, was, later, n + 1)
<1> DEFINE drift == LargestAmount * n
<1>1. /\ LargestAmount \in Nat /\ drift \in Nat
      /\ LargestAmount * 1 = LargestAmount /\ LargestAmount * (n + 1) = drift + LargestAmount
  BY LargestAmountFacts
<1> HIDE DEF drift
<1>2. LargestAmount * n = drift
  BY DEF drift
<1>3. CASE s = "averageExpense"
  BY <1>1, <1>2, <1>3 DEF Drifted, Near, FigureTyped, LargestAmount
<1>4. CASE s \in Counts
  BY <1>4 DEF Drifted, Near, FigureTyped, Counts
<1>5. CASE s \in Sums
  BY <1>1, <1>2, <1>5 DEF Drifted, Near, FigureTyped, LargestAmount, Sums
<1> QED BY <1>3, <1>4, <1>5 DEF StatementNames

\* A step that changes row x at most.
RowMoves(x) == /\ RowsTyped /\ RowsTyped'
               /\ \A y \in TransactionId \ {x} : transactions'[y] = transactions[y]

\* Rows S before the step and T after it, the same but for x.
LEMMA TotalMoves ==
  ASSUME NEW x, RowMoves(x), NEW S \in SUBSET Present, NEW T \in SUBSET Present',
         S \ {x} = T \ {x},
         NEW total, total = SumFunction([y \in T |-> transactions'[y].amount])
  PROVE  /\ total \in Nat /\ Total(S) \in Nat
         /\ total \in Total(S) - LargestAmount .. Total(S) + LargestAmount
         /\ Cardinality(T) \in Cardinality(S) - 1 .. Cardinality(S) + 1
<1> DEFINE column == [y \in S |-> transactions[y].amount]
           moved  == [y \in T |-> transactions'[y].amount]
<1>1. S \in SUBSET TransactionId /\ T \in SUBSET TransactionId
  BY DEF Present
<1>2. IsFiniteSet(S) /\ IsFiniteSet(T)
  BY <1>1, FS_Subset, ValuesTyped
<1>3. \A y \in S : column[y] \in 1 .. LargestAmount
  BY RowFacts DEF RowMoves
<1>4. \A y \in T : moved[y] \in 1 .. LargestAmount
  <2>1. \A y \in T : transactions'[y] \in Row
    BY DEF RowMoves, RowsTyped, Present, Optional
  <2> QED BY <2>1, LargestAmountFacts DEF Row
<1>5. \A y \in S \ {x} : column[y] = moved[y]
  BY <1>1 DEF RowMoves
<1>6. LargestAmount \in Nat
  BY LargestAmountFacts
<1>7. Total(S) = SumFunctionOnSet(column, S) /\ total = SumFunctionOnSet(moved, T)
  BY DEF Total, SumFunction
<1> HIDE DEF column, moved
<1>8. /\ \A y \in S : column[y] \in 0 .. LargestAmount /\ column[y] \in Nat
      /\ \A y \in T : moved[y] \in 0 .. LargestAmount /\ moved[y] \in Nat
  BY <1>3, <1>4, <1>6
<1>9. SumFunctionOnSet(moved, T)
        \in SumFunctionOnSet(column, S) - LargestAmount .. SumFunctionOnSet(column, S) + LargestAmount
  BY <1>2, <1>5, <1>6, <1>8, SumMoves
<1>10. SumFunctionOnSet(moved, T) \in Nat /\ SumFunctionOnSet(column, S) \in Nat
  BY <1>2, <1>8, SumNat
<1>11. Cardinality(T) \in Cardinality(S) - 1 .. Cardinality(S) + 1
  BY <1>2, CardinalityMoves
<1> QED BY <1>7, <1>9, <1>10, <1>11

\* What the reports make of a filter: the rows of each type, and of each category.
LEMMA ReportMoves ==
  ASSUME NEW x, RowMoves(x), NEW f, NEW type
  PROVE  /\ OfType(ReportWhere(f), type) \in SUBSET Present
         /\ OfType(ReportWhere(f), type)' \in SUBSET Present'
         /\ OfType(ReportWhere(f), type) \ {x} = OfType(ReportWhere(f), type)' \ {x}
         /\ ReportWhere(f) \in SUBSET Present
         /\ ReportWhere(f)' \in SUBSET Present'
         /\ ReportWhere(f) \ {x} = ReportWhere(f)' \ {x}
         /\ ReportRows(f, type) \in SUBSET Present
         /\ ReportRows(f, type)' \in SUBSET Present'
         /\ ReportRows(f, type) \ {x} = ReportRows(f, type)' \ {x}
<1>1. /\ ReportWhere(f) \in SUBSET Present
      /\ ReportWhere(f)' \in SUBSET Present'
      /\ ReportWhere(f) \ {x} = ReportWhere(f)' \ {x}
  BY DEF RowMoves, ReportWhere, Matching, Present
<1>2. /\ OfType(ReportWhere(f), type) \in SUBSET Present
      /\ OfType(ReportWhere(f), type)' \in SUBSET Present'
  BY <1>1 DEF OfType
<1>3. OfType(ReportWhere(f), type) \ {x} = OfType(ReportWhere(f), type)' \ {x}
  <2>1. \A y \in ReportWhere(f) \ {x} : transactions'[y] = transactions[y]
    BY <1>1 DEF RowMoves, Present
  <2> QED BY <1>1, <2>1 DEF OfType
<1> QED BY <1>1, <1>2, <1>3 DEF ReportRows

LEMMA ReportTotalsMove ==
  ASSUME NEW x, RowMoves(x), NEW f, NEW type, NEW k \in CategoryId
  PROVE  /\ ReportTotals(f, type)[k] \in Nat /\ ReportTotals(f, type)'[k] \in Nat
         /\ ReportTotals(f, type)'[k] \in ReportTotals(f, type)[k] - LargestAmount
                                         .. ReportTotals(f, type)[k] + LargestAmount
<1> DEFINE rows == ReportRows(f, type)
           group == {y \in rows : transactions[y].category = k}
           later == {y \in rows' : transactions'[y].category = k}
           total == SumFunction([y \in later |-> transactions'[y].amount])
<1>1. group \in SUBSET Present /\ later \in SUBSET Present'
  BY ReportMoves
<1>2. group \ {x} = later \ {x}
  <2>1. \A y \in rows \ {x} : transactions'[y] = transactions[y]
    BY ReportMoves DEF RowMoves, Present
  <2> QED BY <2>1, ReportMoves
<1>3. ReportTotals(f, type)[k] = Total(group)
  BY DEF ReportTotals
<1>4. ReportTotals(f, type)'[k] = total
  BY DEF ReportTotals, Total
<1> HIDE DEF group, later
<1>5. /\ total \in Nat /\ Total(group) \in Nat
      /\ total \in Total(group) - LargestAmount .. Total(group) + LargestAmount
  BY <1>1, <1>2, TotalMoves
<1> QED BY <1>3, <1>4, <1>5

LEMMA HighestReportedMoves ==
  ASSUME NEW x, RowMoves(x), NEW f, NEW type
  PROVE  Near(HighestReported(f, type), HighestReported(f, type)', LargestAmount)
<1> DEFINE now == ReportTotals(f, type)
           later == ReportTotals(f, type)'
<1>1. HighestReported(f, type) = Largest(now, CategoryId)
  BY HighestReportedIsLargest
<1>2. HighestReported(f, type)' = Largest(later, CategoryId)
  BY DEF HighestReported, ReportRows, ReportTotals, Largest
<1>3. \A k \in CategoryId : /\ now[k] \in Nat /\ later[k] \in Nat
                            /\ later[k] \in now[k] - LargestAmount .. now[k] + LargestAmount
  BY ReportTotalsMove
<1>4. IsFiniteSet(CategoryId) /\ LargestAmount \in Nat
  BY ValuesTyped, LargestAmountFacts
<1> HIDE DEF now, later
<1>5. Largest(later, CategoryId) \in Largest(now, CategoryId) - LargestAmount
                                     .. Largest(now, CategoryId) + LargestAmount
  BY <1>3, <1>4, MaxMoves
<1>6. Largest(now, CategoryId) \in Nat
  BY <1>3, <1>4, MaxOfValues
<1> QED BY <1>1, <1>2, <1>4, <1>5, <1>6 DEF Near

\* Every count is of the same rows, before a step and after it.
CounterpartsTyped ==
  \A f \in Filter, s \in StatementNames :
    /\ FigureTyped(s, Counterpart(s, f))
    /\ s \in Counts => Counterpart(s, f) = Cardinality(ReportWhere(f))

LEMMA CounterpartsAreTyped == RowsTyped => CounterpartsTyped
<1> SUFFICES ASSUME RowsTyped, NEW f \in Filter, NEW s \in StatementNames
             PROVE  /\ FigureTyped(s, Counterpart(s, f))
                    /\ s \in Counts => Counterpart(s, f) = Cardinality(ReportWhere(f))
  BY DEF CounterpartsTyped
<1>1. FigureTyped(s, Counterpart(s, f))
  BY ReturnedFacts
<1>2. s \in Counts => Counterpart(s, f) = Cardinality(ReportWhere(f))
  BY SameCount DEF Counterpart, CountReported, Counts
<1> QED BY <1>1, <1>2

LEMMA CounterpartsStayTyped == RowsTyped' => CounterpartsTyped'
BY CounterpartsAreTyped, PTL

\* One write moves what a statement would return by what one row can weigh.
LEMMA CounterpartMoves ==
  ASSUME NEW x, RowMoves(x), NEW f \in Filter, NEW s \in StatementNames
  PROVE  Drifted(s, Counterpart(s, f), Counterpart(s, f)', 1)
<1> DEFINE rows(type) == OfType(ReportWhere(f), type)
<1>1. LargestAmount \in Nat /\ LargestAmount * 1 = LargestAmount
  BY LargestAmountFacts
<1>2. ASSUME NEW type
      PROVE  /\ Near(Total(rows(type)), Total(rows(type))', LargestAmount)
             /\ Near(Cardinality(rows(type)), Cardinality(rows(type))', 1)
  <2>1. /\ rows(type) \in SUBSET Present /\ rows(type)' \in SUBSET Present'
        /\ rows(type) \ {x} = rows(type)' \ {x}
    BY ReportMoves
  <2>2. Total(rows(type))' = SumFunction([y \in rows(type)' |-> transactions'[y].amount])
    BY DEF Total
  <2>3. IsFiniteSet(rows(type))
    BY <2>1, TotalIsSum DEF RowMoves
  <2>4. Cardinality(rows(type)) \in Nat
    BY <2>3, FS_CardinalityType
  <2> HIDE DEF rows
  <2>5. /\ Total(rows(type)) \in Nat /\ Total(rows(type))' \in Nat
        /\ Total(rows(type))' \in Total(rows(type)) - LargestAmount .. Total(rows(type)) + LargestAmount
        /\ Cardinality(rows(type)') \in Cardinality(rows(type)) - 1 .. Cardinality(rows(type)) + 1
    BY <2>1, <2>2, TotalMoves
  <2>6. Near(Total(rows(type)), Total(rows(type))', LargestAmount)
    BY <1>1, <2>5 DEF Near
  <2>7. Near(Cardinality(rows(type)), Cardinality(rows(type))', 1)
    BY <2>4, <2>5 DEF Near
  <2> QED BY <2>6, <2>7
<1>3. CASE s = "totalIncome"
  BY <1>1, <1>2, <1>3 DEF Drifted, Counterpart, Summary, LargestAmount
<1>4. CASE s = "totalExpense"
  BY <1>1, <1>2, <1>4 DEF Drifted, Counterpart, Summary, LargestAmount
<1>5. CASE s = "averageExpense"
  BY <1>1, <1>2, <1>5 DEF Drifted, Counterpart, Summary, Mean, LargestAmount
<1>6. CASE s = "highestExpense"
  BY <1>1, <1>6, HighestReportedMoves DEF Drifted, Counterpart, LargestAmount
<1>7. CASE s = "highestIncome"
  BY <1>1, <1>7, HighestReportedMoves DEF Drifted, Counterpart, LargestAmount
<1>8. CASE s \in Counts
  <2>1. /\ Counterpart(s, f) = Cardinality(ReportWhere(f))
        /\ Counterpart(s, f)' = Cardinality(ReportWhere(f)')
    BY <1>8, CounterpartsAreTyped, CounterpartsStayTyped DEF RowMoves, CounterpartsTyped
  <2>2. /\ ReportWhere(f) \in SUBSET Present /\ ReportWhere(f)' \in SUBSET Present'
        /\ ReportWhere(f) \ {x} = ReportWhere(f)' \ {x}
    BY ReportMoves
  <2>3. IsFiniteSet(ReportWhere(f))
    BY <2>2, TotalIsSum DEF RowMoves
  <2>4. Cardinality(ReportWhere(f)) \in Nat
    BY <2>3, FS_CardinalityType
  <2>5. Cardinality(ReportWhere(f)') \in Cardinality(ReportWhere(f)) - 1 .. Cardinality(ReportWhere(f)) + 1
    BY <2>2, TotalMoves
  <2> QED BY <1>8, <2>1, <2>4, <2>5 DEF Drifted, Near, Counts
<1> QED BY <1>3, <1>4, <1>5, <1>6, <1>7, <1>8 DEF StatementNames, Sums

LEMMA CounterpartStays ==
  ASSUME UNCHANGED transactions, NEW f, NEW s \in StatementNames
  PROVE  Counterpart(s, f)' = Counterpart(s, f)
<1>1. ASSUME NEW S PROVE Total(S)' = Total(S)
  BY DEF Total
<1>2. ReportWhere(f)' = ReportWhere(f)
  BY DEF ReportWhere, Matching
<1>3. ASSUME NEW type PROVE OfType(ReportWhere(f), type)' = OfType(ReportWhere(f), type)
  BY <1>2 DEF OfType
<1>4. Summary(f)' = Summary(f)
  BY <1>2, <1>3 DEF Summary, Total, Mean, Highest
<1>5. ASSUME NEW type PROVE HighestReported(f, type)' = HighestReported(f, type)
  <2> DEFINE rows == ReportRows(f, type)
             totals(t, r) == {SumFunction([x \in {y \in r : t[y].category = k} |-> t[x].amount]) :
                                k \in CategoryId}
  <2>1. rows' = rows
    BY <1>2, <1>3 DEF ReportRows
  <2>2. HighestReported(f, type) = Max({0} \cup totals(transactions, rows))
    BY DEF HighestReported, ReportRows, Total
  <2>3. HighestReported(f, type)' = Max({0} \cup totals(transactions', rows'))
    BY DEF HighestReported, ReportRows, Total
  <2> HIDE DEF rows, totals
  <2> QED BY <2>1, <2>2, <2>3
<1> QED BY <1>2, <1>4, <1>5 DEF Counterpart, CountReported

-----------------------------------------------------------------------------
(* The inductive invariant                                                 *)

ForeignKey == \A x \in TransactionId : transactions[x] # None => transactions[x].category \in categories

Referenced == {transactions[x].category : x \in Present}

\* What was grouped is referenced until a first write, and a category until a second:
\* the first may take the last reference away, and only then can the category go.
GroupedKept == req.at = "findCategories" =>
                 /\ req.writes = 0 => req.grouped \subseteq Referenced
                 /\ req.writes < 2 => req.grouped \subseteq categories

IInv == TypeOK /\ ForeignKey /\ GroupedKept /\ FiguresDriftByWrites

TablesTyped == categories \subseteq CategoryId /\ RowsTyped

RequestTyped == /\ DOMAIN req = DOMAIN Idle
                /\ req.at \in DOMAIN Statements
                /\ req.filter \in Filter
                /\ req.grouped \subseteq CategoryId
                /\ DOMAIN req.figures \subseteq Statements[req.at]
                /\ DOMAIN req.figures # {} => DOMAIN req.figures # Statements[req.at]
                /\ \A s \in DOMAIN req.figures : FigureTyped(s, req.figures[s])
                /\ IF req.at = "idle" THEN req = Idle ELSE req.writes \in 0 .. MaxWrites[req.at]

LEMMA TypeParts == TypeOK <=> TablesTyped /\ RequestTyped
BY DEF TypeOK, TablesTyped, RequestTyped, RowsTyped

LEMMA StatementsFacts ==
  /\ DOMAIN Statements = {"idle", "findCategories", "overview", "exportPreview"}
  /\ Statements["idle"] = {} /\ Statements["findCategories"] = {}
  /\ Statements["overview"] # {} /\ Statements["exportPreview"] # {}
  /\ \A at \in DOMAIN Statements :
       Statements[at] \subseteq StatementNames /\ (at # "idle" => MaxWrites[at] \in Nat)
<1>1. DOMAIN Statements = {"idle", "findCategories", "overview", "exportPreview"}
  BY DEF Statements
<1>2. /\ Statements["idle"] = {} /\ Statements["findCategories"] = {}
      /\ Statements["overview"] # {} /\ Statements["exportPreview"] # {}
  BY DEF Statements
<1>3. \A at \in DOMAIN Statements : Statements[at] \subseteq StatementNames
  BY DEF Statements, StatementNames, Sums, Counts
<1>4. \A at \in DOMAIN Statements : at # "idle" => MaxWrites[at] \in Nat
  BY ValuesTyped
<1> QED BY <1>1, <1>2, <1>3, <1>4

LEMMA IdleFacts ==
  /\ DOMAIN Idle = {"at", "filter", "grouped", "figures", "writes"}
  /\ Idle.at = "idle" /\ Idle.writes = 0 /\ Idle.grouped = {}
  /\ Idle.filter \in Filter /\ DOMAIN Idle.figures = {}
<1>1. /\ DOMAIN Idle = {"at", "filter", "grouped", "figures", "writes"}
      /\ Idle.at = "idle" /\ Idle.writes = 0 /\ Idle.grouped = {}
      /\ Idle.filter = NoFilter /\ Idle.figures = <<>>
  BY DEF Idle
<1>2. NoFilter \in Filter
  BY DEF NoFilter, Filter, Optional
<1>3. DOMAIN <<>> = {}
  OBVIOUS
<1> QED BY <1>1, <1>2, <1>3

\* A request that has not begun, or none of whose statements has returned.
Begun(at, f, grouped) ==
  /\ DOMAIN req' = DOMAIN Idle
  /\ req'.at = at /\ req'.filter = f /\ req'.grouped = grouped
  /\ req'.figures = Idle.figures /\ req'.writes = 0

LEMMA FreshRequest ==
  ASSUME NEW at \in DOMAIN Statements, NEW f \in Filter, NEW grouped \in SUBSET CategoryId,
         req' = Idle \/ (at # "idle" /\ Begun(at, f, grouped))
  PROVE  RequestTyped' /\ FiguresDriftByWrites'
<1>1. /\ DOMAIN req' = DOMAIN Idle
      /\ req'.at \in DOMAIN Statements /\ req'.filter \in Filter
      /\ req'.grouped \in SUBSET CategoryId /\ req'.figures = Idle.figures /\ req'.writes = 0
      /\ req'.at = "idle" => req' = Idle
  BY IdleFacts, StatementsFacts DEF Begun
<1>2. DOMAIN req'.figures = {}
  BY <1>1, IdleFacts
<1>3. req'.at # "idle" => req'.writes \in 0 .. MaxWrites[req'.at]
  BY <1>1, StatementsFacts
<1> QED BY <1>1, <1>2, <1>3 DEF RequestTyped, FiguresDriftByWrites

LEMMA IInvInit == Init => IInv
<1> SUFFICES ASSUME Init PROVE IInv
  OBVIOUS
<1>1. req = Idle
  BY DEF Init
<1>2. RequestTyped /\ FiguresDriftByWrites
  BY <1>1, IdleFacts, StatementsFacts DEF RequestTyped, FiguresDriftByWrites
<1>3. TablesTyped /\ ForeignKey
  BY DEF Init, TablesTyped, RowsTyped, ForeignKey, Optional
<1>4. GroupedKept
  BY <1>1, IdleFacts DEF GroupedKept
<1> QED BY <1>2, <1>3, <1>4, TypeParts DEF IInv

LEMMA TypePartsLater == TypeOK' <=> TablesTyped' /\ RequestTyped'
BY TypeParts, PTL

LEMMA TablesStay ==
  ASSUME TablesTyped, ForeignKey, UNCHANGED <<categories, transactions>>
  PROVE  TablesTyped' /\ ForeignKey' /\ Referenced' = Referenced
BY DEF TablesTyped, RowsTyped, ForeignKey, Referenced, Present

\* Only categories of rows of the user are grouped.
LEMMA TopReferenced ==
  ASSUME RowsTyped, NEW f, NEW type, NEW limit,
         NEW top \in Top(limit, CategoryTotals(f, type))
  PROVE  top \subseteq Referenced /\ top \in SUBSET CategoryId
<1>1. top \subseteq Grouped(f, type)
  BY DEF Top, CategoryTotals
<1>2. Where(f, type) \subseteq Present
  BY WherePresent
<1>3. Grouped(f, type) \in SUBSET CategoryId
  BY GroupedFacts
<1> QED BY <1>1, <1>2, <1>3 DEF Grouped, Referenced

LEMMA GroupingStep ==
  ASSUME IInv, NEW f \in Filter, NEW type, NEW limit, GetCategoryTotals(f, type, limit)
  PROVE  IInv'
<1>1. PICK top \in Top(limit, CategoryTotals(f, type)) :
        Begin(IF top = {} THEN Idle
              ELSE [Idle EXCEPT !.at = "findCategories", !.filter = f, !.grouped = top])
  BY DEF GetCategoryTotals
<1>2. TablesTyped /\ ForeignKey
  BY TypeParts DEF IInv
<1>3. TablesTyped' /\ ForeignKey' /\ Referenced' = Referenced
  BY <1>1, <1>2, TablesStay DEF Begin
<1>4. top \subseteq Referenced /\ top \in SUBSET CategoryId
  BY <1>2, TopReferenced DEF TablesTyped
<1>5. Referenced \subseteq categories'
  BY <1>1, <1>2 DEF ForeignKey, Referenced, Present, Begin
<1>6. req' = Idle \/ Begun("findCategories", f, top)
  BY <1>1 DEF Begin, Begun, Idle
<1>7. RequestTyped' /\ FiguresDriftByWrites'
  BY <1>4, <1>6, FreshRequest, StatementsFacts
<1>8. GroupedKept'
  <2>1. req'.grouped \subseteq top
    BY <1>6, IdleFacts DEF Begun
  <2> QED BY <1>3, <1>4, <1>5, <2>1 DEF GroupedKept
<1> QED BY <1>3, <1>7, <1>8, TypePartsLater DEF IInv

LEMMA BeginStep ==
  ASSUME IInv, NEW f \in Filter, NEW at \in {"overview", "exportPreview"},
         Begin([Idle EXCEPT !.at = at, !.filter = f])
  PROVE  IInv'
<1>1. TablesTyped' /\ ForeignKey'
  BY TablesStay, TypeParts DEF IInv, Begin
<1>2. Begun(at, f, {})
  BY DEF Begin, Idle, Begun
<1>3. RequestTyped' /\ FiguresDriftByWrites'
  BY <1>2, FreshRequest, StatementsFacts
<1>4. GroupedKept'
  BY <1>2 DEF GroupedKept, Begun
<1> QED BY <1>1, <1>3, <1>4, TypePartsLater DEF IInv

LEMMA FindCategoriesStep ==
  ASSUME IInv, FindCategories
  PROVE  IInv'
<1>1. TablesTyped' /\ ForeignKey'
  BY TablesStay, TypeParts DEF IInv, FindCategories
<1>2. req' = Idle
  BY DEF FindCategories
<1>3. RequestTyped' /\ FiguresDriftByWrites'
  BY <1>2, FreshRequest, StatementsFacts, IdleFacts
<1>4. GroupedKept'
  BY <1>2, IdleFacts DEF GroupedKept
<1> QED BY <1>1, <1>3, <1>4, TypePartsLater DEF IInv

\* A statement adds the figure of the tables as they are; those of before keep.
LEMMA StatementStep ==
  ASSUME IInv, NEW s, Statement(s)
  PROVE  IInv'
<1> DEFINE figures == [t \in DOMAIN req.figures \cup {s} |->
                         IF t = s THEN Returned(s, req.filter) ELSE req.figures[t]]
           next == [req EXCEPT !.figures = figures]
<1>1. TablesTyped /\ RowsTyped /\ RequestTyped /\ FiguresDriftByWrites
  BY TypeParts DEF IInv, TablesTyped
<1>2. TablesTyped' /\ ForeignKey'
  BY TablesStay, TypeParts DEF IInv, Statement
<1>3. UNCHANGED transactions /\ s \in Statements[req.at] \ DOMAIN req.figures
  BY DEF Statement
<1>4. req.at \in DOMAIN Statements /\ req.at \notin {"idle", "findCategories"}
  BY <1>1, <1>3, StatementsFacts DEF RequestTyped
<1>5. Statements[req.at] \subseteq StatementNames
  BY <1>4, StatementsFacts
<1>6. PICK f \in Filter : f = req.filter
  BY <1>1 DEF RequestTyped
<1>7. req' = Answered(next)
  BY DEF Statement
<1>8. CASE req' = Idle
  <2>1. RequestTyped' /\ FiguresDriftByWrites'
    BY <1>8, FreshRequest, StatementsFacts, IdleFacts
  <2>2. GroupedKept'
    BY <1>8, IdleFacts DEF GroupedKept
  <2> QED BY <1>2, <2>1, <2>2, TypePartsLater DEF IInv
<1>9. CASE req' = next /\ DOMAIN next.figures # Statements[next.at]
  <2>1. /\ DOMAIN req' = DOMAIN req /\ req'.at = req.at /\ req'.filter = f
        /\ req'.grouped = req.grouped /\ req'.writes = req.writes /\ req'.figures = figures
        /\ DOMAIN figures # Statements[req.at]
    BY <1>1, <1>6, <1>9, IdleFacts DEF RequestTyped
  <2>2. req.writes \in Nat /\ req.writes \in 0 .. MaxWrites[req.at]
    BY <1>1, <1>4, StatementsFacts DEF RequestTyped
  <2>3. DOMAIN figures = DOMAIN req.figures \cup {s}
    OBVIOUS
  <2>4. figures[s] = Counterpart(s, f) /\ FigureTyped(s, figures[s])
    BY <1>1, <1>3, <1>5, <1>6, ReturnedFacts
  <2>5. \A t \in DOMAIN req.figures : figures[t] = req.figures[t] /\ FigureTyped(t, figures[t])
    BY <1>1, <1>3 DEF RequestTyped
  <2> HIDE DEF figures, next
  <2>6. RequestTyped'
    BY <1>1, <1>3, <1>4, <1>6, <2>1, <2>2, <2>3, <2>4, <2>5 DEF RequestTyped
  <2>7. GroupedKept'
    BY <1>4, <2>1 DEF GroupedKept
  <2>8. ASSUME NEW t \in DOMAIN figures
        PROVE  Drifted(t, figures[t], Counterpart(t, f)', req.writes)
    <3>1. t \in StatementNames
      BY <1>1, <1>3, <1>5, <2>3 DEF RequestTyped
    <3>2. Counterpart(t, f)' = Counterpart(t, f)
      BY <1>3, <3>1, CounterpartStays
    <3>3. Drifted(t, figures[t], Counterpart(t, f), req.writes)
      <4>1. CASE t = s
        BY <2>2, <2>4, <3>1, <4>1, DriftedNow
      <4>2. CASE t # s
        BY <1>1, <1>6, <2>3, <2>5, <4>2 DEF FiguresDriftByWrites
      <4> QED BY <4>1, <4>2
    <3> QED BY <3>2, <3>3
  <2>9. FiguresDriftByWrites'
    BY <2>1, <2>8 DEF FiguresDriftByWrites
  <2> QED BY <1>2, <2>6, <2>7, <2>9, TypePartsLater DEF IInv
<1> QED BY <1>7, <1>8, <1>9 DEF Answered

\* A write changes one row at most, and takes no category that is referenced.
LEMMA TablesStep ==
  ASSUME TablesTyped, ForeignKey, WriteOfOthers
  PROVE  /\ TablesTyped' /\ ForeignKey' /\ Referenced \cap categories \subseteq categories'
         /\ \E x : RowMoves(x)
<1> DEFINE rows == IF req.at = "idle" THEN Row ELSE BusyRows
<1>1. rows \subseteq Row
  BY ValuesTyped
<1>2. ASSUME NEW x \in TransactionId, NEW row \in Optional(Row), Write(row, x),
             row # None => row.category \in categories
      PROVE  /\ TablesTyped' /\ ForeignKey' /\ Referenced \cap categories \subseteq categories'
             /\ RowMoves(x)
  BY <1>2, ValuesTyped DEF Write, TablesTyped, RowsTyped, ForeignKey, RowMoves
<1>3. ASSUME UNCHANGED transactions, categories' \in SUBSET CategoryId,
             Referenced \cap categories \subseteq categories'
      PROVE  TablesTyped' /\ ForeignKey' /\ RowMoves(None)
  BY <1>3 DEF TablesTyped, RowsTyped, ForeignKey, Referenced, Present, RowMoves
<1>4. CASE \E x \in TransactionId, row \in rows : row.category \in categories /\ Write(row, x)
  BY <1>1, <1>2, <1>4 DEF Optional
<1>5. CASE \E x \in TransactionId : Write(None, x)
  BY <1>2, <1>5 DEF Optional
<1>6. CASE \E k \in CategoryId \ categories :
             categories' = categories \cup {k} /\ UNCHANGED transactions
  BY <1>3, <1>6 DEF TablesTyped
<1>7. CASE \E k \in categories :
             NotReferenced(k) /\ categories' = categories \ {k} /\ UNCHANGED transactions
  <2>1. Referenced \cap categories \subseteq categories'
    BY <1>7 DEF NotReferenced, Referenced, Present
  <2> QED BY <1>3, <1>7, <2>1 DEF TablesTyped
<1> QED BY <1>4, <1>5, <1>6, <1>7 DEF WriteOfOthers

LEMMA WriteStep ==
  ASSUME IInv, WriteOfOthers
  PROVE  IInv'
<1>1. TablesTyped /\ ForeignKey /\ RowsTyped /\ RequestTyped
  BY TypeParts DEF IInv, TablesTyped
<1>2. TablesTyped' /\ ForeignKey' /\ Referenced \cap categories \subseteq categories'
  BY <1>1, TablesStep
<1>3. PICK x : RowMoves(x)
  BY <1>1, TablesStep
<1>4. CASE req.at = "idle"
  <2>1. req' = Idle
    BY <1>1, <1>4 DEF WriteOfOthers, RequestTyped
  <2>2. RequestTyped' /\ FiguresDriftByWrites'
    BY <2>1, FreshRequest, StatementsFacts, IdleFacts
  <2>3. GroupedKept'
    BY <2>1, IdleFacts DEF GroupedKept
  <2> QED BY <1>2, <2>2, <2>3, TypePartsLater DEF IInv
<1>5. CASE req.at # "idle"
  <2>1. req' = [req EXCEPT !.writes = @ + 1] /\ req.writes < MaxWrites[req.at]
    BY <1>5 DEF WriteOfOthers
  <2>2. /\ DOMAIN req' = DOMAIN req /\ req'.at = req.at /\ req'.filter = req.filter
        /\ req'.grouped = req.grouped /\ req'.figures = req.figures
        /\ req'.writes = req.writes + 1
    BY <1>1, <2>1, IdleFacts DEF RequestTyped
  <2>3. req.writes \in Nat /\ req'.writes \in 0 .. MaxWrites[req.at]
    BY <1>1, <1>5, <2>1, <2>2, StatementsFacts DEF RequestTyped
  <2>4. RequestTyped'
    BY <1>1, <1>5, <2>2, <2>3 DEF RequestTyped
  <2>5. GroupedKept'
    <3> SUFFICES ASSUME req.at = "findCategories" PROVE GroupedKept'
      BY <2>2 DEF GroupedKept
    <3>1. req.writes = 0 => req.grouped \subseteq categories'
      BY <1>2 DEF IInv, GroupedKept
    <3> QED BY <2>2, <2>3, <3>1 DEF GroupedKept
  <2>6. FiguresDriftByWrites'
    <3>1. PICK f \in Filter : f = req.filter
      BY <1>1 DEF RequestTyped
    <3>2. ASSUME NEW s \in DOMAIN req.figures
          PROVE  Drifted(s, req.figures[s], Counterpart(s, f)', req.writes + 1)
      <4>1. s \in StatementNames
        BY <1>1, StatementsFacts DEF RequestTyped
      <4>2. Drifted(s, req.figures[s], Counterpart(s, f), req.writes)
        BY <3>1 DEF IInv, FiguresDriftByWrites
      <4>3. Drifted(s, Counterpart(s, f), Counterpart(s, f)', 1)
        BY <1>3, <4>1, CounterpartMoves
      <4>4. FigureTyped(s, Counterpart(s, f)) /\ FigureTyped(s, Counterpart(s, f)')
        BY <1>1, <1>3, <4>1, CounterpartsAreTyped, CounterpartsStayTyped
           DEF RowMoves, CounterpartsTyped
      <4>5. FigureTyped(s, req.figures[s])
        BY <1>1 DEF RequestTyped
      <4> QED BY <2>3, <4>1, <4>2, <4>3, <4>4, <4>5, DriftedFurther
    <3> QED BY <2>2, <3>1, <3>2 DEF FiguresDriftByWrites
  <2> QED BY <1>2, <2>4, <2>5, <2>6, TypePartsLater DEF IInv
<1> QED BY <1>4, <1>5

LEMMA StutteringStep ==
  ASSUME IInv, UNCHANGED vars
  PROVE  IInv'
<1>1. TablesTyped /\ RequestTyped /\ UNCHANGED transactions /\ UNCHANGED req
  BY TypeParts DEF IInv, vars
<1>2. TablesTyped' /\ ForeignKey' /\ Referenced' = Referenced
  BY <1>1, TablesStay DEF IInv, vars
<1>3. RequestTyped'
  BY <1>1 DEF RequestTyped
<1>4. GroupedKept'
  BY <1>2 DEF IInv, GroupedKept, vars
<1>5. FiguresDriftByWrites'
  <2>1. PICK f : f = req.filter
    OBVIOUS
  <2>2. ASSUME NEW s \in DOMAIN req.figures
        PROVE  Drifted(s, req.figures[s], Counterpart(s, f)', req.writes)
    <3>1. s \in StatementNames
      BY <1>1, StatementsFacts DEF RequestTyped
    <3>2. Counterpart(s, f)' = Counterpart(s, f)
      BY <1>1, <3>1, CounterpartStays
    <3> QED BY <2>1, <3>2 DEF IInv, FiguresDriftByWrites
  <2> QED BY <1>1, <2>1, <2>2 DEF FiguresDriftByWrites
<1> QED BY <1>2, <1>3, <1>4, <1>5, TypePartsLater DEF IInv

LEMMA IInvStep == IInv /\ [Next]_vars => IInv'
<1> SUFFICES ASSUME IInv, [Next]_vars PROVE IInv'
  OBVIOUS
<1>1. RequestFilters \subseteq Filter
  BY ValuesTyped
<1>2. ASSUME NEW f \in RequestFilters, GetExpenseByCategory(f) PROVE IInv'
  BY <1>1, <1>2, GroupingStep DEF GetExpenseByCategory
<1>3. ASSUME NEW f \in RequestFilters, NEW limit \in Optional(Limits), GetTopCategories(f, limit)
      PROVE  IInv'
  BY <1>1, <1>3, GroupingStep DEF GetTopCategories
<1>4. ASSUME NEW f \in RequestFilters, GetOverview(f) PROVE IInv'
  BY <1>1, <1>4, BeginStep DEF GetOverview
<1>5. ASSUME NEW f \in RequestFilters, GetExportPreview(f) PROVE IInv'
  BY <1>1, <1>5, BeginStep DEF GetExportPreview
<1>6. CASE FindCategories
  BY <1>6, FindCategoriesStep
<1>7. ASSUME NEW s, Statement(s) PROVE IInv'
  BY <1>7, StatementStep
<1>8. CASE WriteOfOthers
  BY <1>8, WriteStep
<1>9. CASE UNCHANGED vars
  BY <1>9, StutteringStep
<1> QED BY <1>2, <1>3, <1>4, <1>5, <1>6, <1>7, <1>8, <1>9 DEF Next

\* In every reachable state the tables and the request are typed, the rows keep to the
\* foreign key, what a request grouped is kept as said above, and what its statements
\* returned has drifted no further than the writes can have moved it.
THEOREM Invariance == Spec => []IInv
BY IInvInit, IInvStep, PTL DEF Spec

\* The tables and the request in flight have their types: what its statements return
\* are natural numbers, and it is over as soon as the last of them has returned.
THEOREM TypeCorrect == Spec => []TypeOK
<1>1. IInv => TypeOK
  BY DEF IInv
<1> QED BY <1>1, Invariance, PTL

\* The figures of an overview and of an export preview, read by statements between
\* which others write, each stay as near as those writes allow to what the other module
\* would answer now.
THEOREM DriftBounded == Spec => []FiguresDriftByWrites
<1>1. IInv => FiguresDriftByWrites
  BY DEF IInv
<1> QED BY <1>1, Invariance, PTL

\* No chart names a category "Unknown" unless others wrote twice between its grouping
\* and its lookup: getCategoryTotals reads the two in two statements.
THEOREM UnknownAfterTwoWrites == Spec => []UnknownNeedsTwoWrites
<1>1. IInv => UnknownNeedsTwoWrites
  BY DEF IInv, GroupedKept, UnknownNeedsTwoWrites, Unknown
<1> QED BY <1>1, Invariance, PTL

LEMMA RowsAlwaysTyped == IInv => RowsTyped
BY TypeParts DEF IInv, TablesTyped

-----------------------------------------------------------------------------
(* Figures of one state: the two modules                                   *)

LEMMA OverviewFields ==
  ASSUME NEW f
  PROVE  /\ Overview(f).totalIncome = TotalByType(f, "INCOME")
         /\ Overview(f).totalExpense = TotalByType(f, "EXPENSE")
         /\ Overview(f).netBalance = TotalByType(f, "INCOME") - TotalByType(f, "EXPENSE")
         /\ Overview(f).savingsRate = Percent(Overview(f).netBalance, Overview(f).totalIncome)
         /\ Overview(f).transactionCount = CountTransactions(f)
         /\ Overview(f).averageExpense = AverageExpense(f)
         /\ Overview(f).highestExpense = HighestTotal(f, "EXPENSE")
         /\ Overview(f).highestIncome = HighestTotal(f, "INCOME")
BY DEF Overview

LEMMA SummaryFields ==
  ASSUME NEW f
  PROVE  /\ Summary(f).totalIncome = Total(OfType(ReportWhere(f), "INCOME"))
         /\ Summary(f).totalExpense = Total(OfType(ReportWhere(f), "EXPENSE"))
         /\ Summary(f).netBalance = Total(OfType(ReportWhere(f), "INCOME"))
                                    - Total(OfType(ReportWhere(f), "EXPENSE"))
         /\ Summary(f).savingsRate = Percent(Summary(f).netBalance, Summary(f).totalIncome)
         /\ Summary(f).averageExpense = Mean(OfType(ReportWhere(f), "EXPENSE"))
         /\ Summary(f).highestExpense = Highest(OfType(ReportWhere(f), "EXPENSE"))
BY DEF Summary

LEMMA SameListed ==
  ASSUME NEW f
  PROVE  Listed(f, AmountRange(None, None)) = ReportWhere(f)
BY DEF Listed, AmountRange, Within

\* In every reachable state, under every filter, the dashboard's overview and the
\* reports' summary give the same totals, savings rate, count and average, of the same
\* transactions, which both list.
THEOREM ModulesAgree == Spec => []DashboardAgreesWithReports
<1>1. RowsTyped => DashboardAgreesWithReports
  <2> SUFFICES ASSUME RowsTyped, NEW f \in Filters
               PROVE  /\ Overview(f).totalIncome = Summary(f).totalIncome
                      /\ Overview(f).totalExpense = Summary(f).totalExpense
                      /\ Overview(f).savingsRate = Summary(f).savingsRate
                      /\ Overview(f).transactionCount = Summary(f).totalTransactions
                      /\ Overview(f).averageExpense = Summary(f).averageExpense
                      /\ RecentTransactions(f) = Listed(f, AmountRange(None, None))
                      /\ Summary(f).netBalance =
                           Total(OfType(Listed(f, AmountRange(None, None)), "INCOME"))
                           - Total(OfType(Listed(f, AmountRange(None, None)), "EXPENSE"))
    BY DEF DashboardAgreesWithReports
  <2>1. f \in Filter
    BY ValuesTyped
  <2>2. /\ TotalByType(f, "INCOME") = Total(OfType(ReportWhere(f), "INCOME"))
        /\ TotalByType(f, "EXPENSE") = Total(OfType(ReportWhere(f), "EXPENSE"))
    BY <2>1, SameTotals DEF Type
  <2>3. /\ Overview(f).totalIncome = Summary(f).totalIncome
        /\ Overview(f).totalExpense = Summary(f).totalExpense
        /\ Overview(f).netBalance = Summary(f).netBalance
    BY <2>2, OverviewFields, SummaryFields
  <2>4. Overview(f).savingsRate = Summary(f).savingsRate
    BY <2>3, OverviewFields, SummaryFields
  <2>5. Overview(f).transactionCount = Summary(f).totalTransactions
    BY <2>1, OverviewFields, SameCount
  <2>6. Overview(f).averageExpense = Summary(f).averageExpense
    BY <2>1, OverviewFields, SummaryFields, SameAverage
  <2>7. RecentTransactions(f) = Listed(f, AmountRange(None, None))
    BY <2>1, SameWhere, SameListed DEF RecentTransactions
  <2>8. Summary(f).netBalance = Total(OfType(Listed(f, AmountRange(None, None)), "INCOME"))
                                - Total(OfType(Listed(f, AmountRange(None, None)), "EXPENSE"))
    BY SameListed, SummaryFields
  <2> QED BY <2>3, <2>4, <2>5, <2>6, <2>7, <2>8
<1> QED BY <1>1, RowsAlwaysTyped, Invariance, PTL

-----------------------------------------------------------------------------
(* Figures of one state: years and months                                  *)

\* An instant of month m of year y is one of no other year, and of no other month.
LEMMA NextYear ==
  ASSUME NEW y \in Int
  PROVE  UTC(y + 1, 0) = UTC(y, MonthsPerYear) /\ UTC(y + 1, 0) \in Int
<1>1. 0 \in 0 .. MonthsPerYear /\ MonthsPerYear \in 0 .. MonthsPerYear /\ 0 \in Months
  BY CalendarTyped DEF Months
<1>2. UTC(y + 1, 0) = InstantsPerDay * ((y + 1) * DaysOfYear + DaysBefore(0))
  BY <1>1, UTCOfMonth
<1>3. UTC(y, MonthsPerYear) = InstantsPerDay * (y * DaysOfYear + DaysOfYear)
  BY <1>1, UTCOfMonth DEF DaysOfYear
<1>4. DaysBefore(0) = 0
  BY <1>1, DaysBeforeNext
<1>5. (y + 1) * DaysOfYear + 0 = y * DaysOfYear + DaysOfYear
  BY DaysOfYearPositive
<1> QED BY <1>1, <1>2, <1>3, <1>4, <1>5, UTCInt

LEMMA YearsInOrder ==
  ASSUME NEW y \in Int, NEW z \in Int, y < z
  PROVE  UTC(y + 1, 0) <= UTC(z, 0) /\ UTC(z, 0) \in Int
<1>1. 0 \in 0 .. MonthsPerYear /\ 0 \in Months
  BY CalendarTyped DEF Months
<1>2. DaysOfYear \in Nat \ {0} /\ InstantsPerDay \in Nat \ {0} /\ DaysBefore(0) = 0
  BY <1>1, DaysOfYearPositive, CalendarTyped, DaysBeforeNext
<1>3. UTC(y + 1, 0) = InstantsPerDay * ((y + 1) * DaysOfYear) /\ UTC(z, 0) = InstantsPerDay * (z * DaysOfYear)
  <2>1. /\ UTC(y + 1, 0) = InstantsPerDay * ((y + 1) * DaysOfYear + 0)
        /\ UTC(z, 0) = InstantsPerDay * (z * DaysOfYear + 0)
    BY <1>1, <1>2, UTCOfMonth
  <2>2. (y + 1) * DaysOfYear + 0 = (y + 1) * DaysOfYear /\ z * DaysOfYear + 0 = z * DaysOfYear
    BY <1>2
  <2> QED BY <2>1, <2>2
<1>4. DaysOfYear * (y + 1) <= DaysOfYear * z
  BY <1>2, ScaleKeepsOrder
<1>5. (y + 1) * DaysOfYear = DaysOfYear * (y + 1) /\ z * DaysOfYear = DaysOfYear * z
  BY <1>2
<1> DEFINE a == (y + 1) * DaysOfYear
           b == z * DaysOfYear
<1>6. a \in Int /\ b \in Int /\ a <= b
  BY <1>2, <1>4, <1>5
<1> HIDE DEF a, b
<1>7. InstantsPerDay * a <= InstantsPerDay * b /\ InstantsPerDay * b \in Int
  BY <1>2, <1>6, ScaleKeepsOrder
<1> QED BY <1>3, <1>7 DEF a, b

LEMMA WithinYear ==
  ASSUME NEW y \in Int, NEW z \in Int, NEW m \in Months, NEW t \in Nat,
         UTC(z, m) <= t, t < UTC(z, m + 1)
  PROVE  Within(YearRange(y), t) <=> y = z
<1>1. /\ 0 \in 0 .. MonthsPerYear /\ 0 \in Months /\ m \in 0 .. MonthsPerYear
      /\ m + 1 \in 0 .. MonthsPerYear /\ MonthsPerYear \in 0 .. MonthsPerYear
      /\ m < MonthsPerYear /\ MonthsPerYear \in Nat
  BY CalendarTyped DEF Months
<1>2. /\ UTC(z, 0) \in Int /\ UTC(z, m) \in Int /\ UTC(z, m + 1) \in Int
      /\ UTC(z + 1, 0) \in Int /\ UTC(y, 0) \in Int /\ UTC(y + 1, 0) \in Int
  BY <1>1, UTCInt, NextYear
<1>3. UTC(z, 0) <= UTC(z, m)
  <2>1. CASE m = 0
    BY <1>2, <2>1
  <2>2. CASE m # 0
    <3>1. UTC(z, 0) < UTC(z, 0 + 1) /\ UTC(z, 0 + 1) <= UTC(z, m)
      BY <1>1, <2>2, UTCGrows DEF Months
    <3>2. UTC(z, 0 + 1) \in Int
      BY <1>1, UTCInt
    <3> QED BY <1>2, <3>1, <3>2
  <2> QED BY <2>1, <2>2
<1>4. UTC(z, m + 1) <= UTC(z + 1, 0)
  BY <1>1, UTCGrows, NextYear
<1>5. Within(YearRange(y), t) <=> UTC(y, 0) <= t /\ t < UTC(y + 1, 0)
  <2>1. UTC(y, 0) # None /\ UTC(y + 1, 0) - 1 # None
    BY <1>2, ValuesTyped
  <2> QED BY <1>2, <2>1 DEF Within, YearRange
<1>6. CASE y = z
  BY <1>2, <1>3, <1>4, <1>5, <1>6
<1>7. CASE y < z
  <2>1. UTC(y + 1, 0) <= UTC(z, 0)
    BY <1>7, YearsInOrder
  <2> QED BY <1>2, <1>3, <1>5, <1>7, <2>1
<1>8. CASE z < y
  <2>1. UTC(z + 1, 0) <= UTC(y, 0)
    BY <1>8, YearsInOrder
  <2> QED BY <1>2, <1>4, <1>5, <1>8, <2>1
<1> QED BY <1>6, <1>7, <1>8

LEMMA WithinMonth ==
  ASSUME NEW y \in Int, NEW n \in 1 .. MonthsPerYear, NEW z \in Int, NEW m \in Months, NEW t \in Nat,
         UTC(z, m) <= t, t < UTC(z, m + 1)
  PROVE  Within(MonthRange(y, n), t) <=> y = z /\ n = m + 1
<1>1. /\ n \in 0 .. MonthsPerYear /\ n - 1 \in 0 .. MonthsPerYear /\ n - 1 \in Months
      /\ (n - 1) + 1 = n
  BY CalendarTyped DEF Months
<1>2. UTC(y, n - 1) \in Int /\ UTC(y, n) \in Int
  BY <1>1, UTCInt
<1>3. Within(MonthRange(y, n), t) <=> UTC(y, n - 1) <= t /\ t < UTC(y, (n - 1) + 1)
  <2>1. UTC(y, n - 1) # None /\ UTC(y, n) - 1 # None
    BY <1>2, ValuesTyped
  <2>2. UTC(y, (n - 1) + 1) = UTC(y, n)
    BY <1>1
  <2> QED BY <1>2, <2>1, <2>2 DEF Within, MonthRange
<1>4. ASSUME Within(MonthRange(y, n), t)
      PROVE  y = z /\ n = m + 1
  <2>1. PICK k \in Months : k = n - 1 /\ UTC(y, k) <= t /\ t < UTC(y, k + 1)
    BY <1>1, <1>3, <1>4
  <2>2. (t \div InstantsPerDay) \div DaysOfYear = y
    BY <2>1, YearOfInstant
  <2>3. (t \div InstantsPerDay) \div DaysOfYear = z
    BY YearOfInstant
  <2>4. k = m
    BY <2>1, <2>2, <2>3, MonthIsUnique
  <2> QED BY <2>1, <2>2, <2>3, <2>4 DEF Months
<1>5. ASSUME y = z, n = m + 1
      PROVE  Within(MonthRange(y, n), t)
  <2>1. n - 1 = m
    BY <1>5 DEF Months
  <2> QED BY <1>1, <1>3, <1>5, <2>1
<1> QED BY <1>4, <1>5

LEMMA WithoutFilter ==
  NoFilter \in Filter /\ NoFilter.type = None /\ Where(NoFilter, None) = Present
<1>1. NoFilter \in Filter /\ NoFilter.type = None /\ NoFilter.category = None
  BY DEF NoFilter, Filter, Optional
<1>2. ToDateRange(NoFilter) = [gte |-> None, lte |-> None]
  BY DEF NoFilter, ToDateRange, Dated, CalendarRange
<1>3. Where(NoFilter, None) = Present
  BY <1>1, <1>2 DEF Where, Matching, Present, Within
<1> QED BY <1>1, <1>3

LEMMA RowsOfYear ==
  ASSUME NEW y \in Year
  PROVE  /\ InYear(y) \in Filter /\ InYear(y).type = None
         /\ Where(InYear(y), None) = {x \in Present : Within(YearRange(y), transactions[x].createdAt)}
<1>1. y # None
  BY ValuesTyped
<1>2. InYear(y) \in Filter /\ InYear(y).type = None /\ InYear(y).category = None
  BY DEF NoFilter, InYear, Filter, Optional
<1>3. ToDateRange(InYear(y)) = YearRange(y)
  BY <1>1 DEF NoFilter, InYear, ToDateRange, Dated, CalendarRange
<1> QED BY <1>2, <1>3 DEF Where, Matching, Present

LEMMA RowsOfMonth ==
  ASSUME NEW y \in Year, NEW n \in 1 .. MonthsPerYear, NEW type
  PROVE  /\ InMonth(y, n) \in Filter /\ InMonth(y, n).type = None
         /\ Where(InMonth(y, n), type) =
              {x \in Present : /\ type \in {None, transactions[x].type}
                               /\ Within(MonthRange(y, n), transactions[x].createdAt)}
<1>1. y # None /\ n # None
  BY ValuesTyped, CalendarTyped
<1>2. InMonth(y, n) \in Filter /\ InMonth(y, n).type = None /\ InMonth(y, n).category = None
  BY DEF NoFilter, InMonth, Filter, Optional
<1>3. ToDateRange(InMonth(y, n)) = MonthRange(y, n)
  BY <1>1 DEF NoFilter, InMonth, ToDateRange, Dated, CalendarRange
<1> QED BY <1>2, <1>3 DEF Where, Matching, Present

\* In every reachable state every transaction counts in one year and in one month of it:
\* the counts of the years add up to the count of all, those of a year's months to the
\* year's.
THEOREM MonthsAddUp == Spec => []MonthsPartitionYears
<1>1. RowsTyped => MonthsPartitionYears
  <2> SUFFICES ASSUME RowsTyped
               PROVE  /\ SumFunction([y \in Year |-> CountTransactions(InYear(y))])
                           = CountTransactions(NoFilter)
                      /\ \A y \in Year :
                           SumFunction([m \in 1 .. MonthsPerYear |-> CountTransactions(InMonth(y, m))])
                             = CountTransactions(InYear(y))
    BY DEF MonthsPartitionYears
  <2> DEFINE at(x) == transactions[x].createdAt
             year == [x \in Present |-> CHOOSE y \in Year : Within(YearRange(y), at(x))]
  <2>1. \A y \in Year : y \in Int
    BY ValuesTyped
  <2>2. ASSUME NEW x \in Present
        PROVE  \E z \in Year, m \in Months : UTC(z, m) <= at(x) /\ at(x) < UTC(z, m + 1)
    <3>1. at(x) \in Nat /\ at(x) \in CreatedAt
      BY RowFacts
    <3>2. PICK z \in Nat, m \in Months : UTC(z, m) <= at(x) /\ at(x) < UTC(z, m + 1)
      BY <3>1, MonthOfInstant
    <3>3. PICK y \in Year : Within(YearRange(y), at(x))
      BY <3>1, ValuesTyped
    <3>4. y = z
      BY <2>1, <3>1, <3>2, <3>3, WithinYear
    <3> QED BY <3>2, <3>4
  <2>3. IsFiniteSet(Present)
    BY TotalIsSum
  <2>4. SumFunction([y \in Year |-> CountTransactions(InYear(y))]) = CountTransactions(NoFilter)
    <3> DEFINE count == [y \in Year |-> CountTransactions(InYear(y))]
    <3>1. \A x \in Present : /\ year[x] \in Year
                             /\ \A y \in Year : Within(YearRange(y), at(x)) <=> year[x] = y
      <4> SUFFICES ASSUME NEW x \in Present
                   PROVE  /\ year[x] \in Year
                          /\ \A y \in Year : Within(YearRange(y), at(x)) <=> year[x] = y
        OBVIOUS
      <4>1. PICK z \in Year, m \in Months : UTC(z, m) <= at(x) /\ at(x) < UTC(z, m + 1)
        BY <2>2
      <4>2. at(x) \in Nat
        BY RowFacts
      <4>3. \A y \in Year : Within(YearRange(y), at(x)) <=> y = z
        BY <2>1, <4>1, <4>2, WithinYear
      <4>4. year[x] = z
        BY <4>3
      <4> QED BY <4>3, <4>4
    <3> HIDE DEF year
    <3>2. ASSUME NEW y \in Year
          PROVE  count[y] = Cardinality({x \in Present : year[x] = y})
      <4>1. /\ InYear(y).type = None
            /\ Where(InYear(y), None) = {x \in Present : Within(YearRange(y), at(x))}
        BY RowsOfYear
      <4>2. {x \in Present : Within(YearRange(y), at(x))} = {x \in Present : year[x] = y}
        BY <3>1
      <4>3. Where(InYear(y), None) = {x \in Present : year[x] = y}
        BY <4>1, <4>2
      <4>4. count[y] = Cardinality(Where(InYear(y), None))
        BY <4>1 DEF CountTransactions
      <4> QED BY <4>3, <4>4
    <3>3. SumFunction(count) = SumFunctionOnSet(count, Year)
      BY DEF SumFunction
    <3> HIDE DEF count
    <3>4. SumFunctionOnSet(count, Year) = Cardinality(Present)
      <4>1. IsFiniteSet(Year)
        BY ValuesTyped
      <4>2. \A x \in Present : year[x] \in Year
        BY <3>1
      <4>3. \A y \in Year : count[y] = Cardinality({x \in Present : year[x] = y})
        BY <3>2
      <4> QED BY <2>3, <4>1, <4>2, <4>3, CountByGroup
    <3>5. CountTransactions(NoFilter) = Cardinality(Present)
      BY WithoutFilter DEF CountTransactions
    <3> QED BY <3>3, <3>4, <3>5 DEF count
  <2>5. ASSUME NEW y \in Year
        PROVE  SumFunction([m \in 1 .. MonthsPerYear |-> CountTransactions(InMonth(y, m))])
                 = CountTransactions(InYear(y))
    <3> DEFINE months == 1 .. MonthsPerYear
               count == [m \in months |-> CountTransactions(InMonth(y, m))]
               rows == Where(InYear(y), None)
               month == [x \in rows |-> CHOOSE n \in months : Within(MonthRange(y, n), at(x))]
    <3>1. /\ InYear(y).type = None
          /\ rows = {x \in Present : Within(YearRange(y), at(x))}
      BY RowsOfYear
    <3>2. ASSUME NEW x \in Present, NEW n \in months, Within(MonthRange(y, n), at(x))
          PROVE  x \in rows
      <4>1. PICK z \in Year, m \in Months : UTC(z, m) <= at(x) /\ at(x) < UTC(z, m + 1)
        BY <2>2
      <4>2. at(x) \in Nat
        BY RowFacts
      <4>3. y = z
        BY <2>1, <3>2, <4>1, <4>2, WithinMonth
      <4>4. Within(YearRange(y), at(x))
        BY <2>1, <4>1, <4>2, <4>3, WithinYear
      <4> QED BY <3>1, <4>4
    <3>3. \A x \in rows : /\ month[x] \in months
                          /\ \A n \in months : Within(MonthRange(y, n), at(x)) <=> month[x] = n
      <4> SUFFICES ASSUME NEW x \in rows
                   PROVE  /\ month[x] \in months
                          /\ \A n \in months : Within(MonthRange(y, n), at(x)) <=> month[x] = n
        OBVIOUS
      <4>0. x \in Present /\ Within(YearRange(y), at(x))
        BY <3>1
      <4>1. PICK z \in Year, m \in Months : UTC(z, m) <= at(x) /\ at(x) < UTC(z, m + 1)
        BY <2>2, <4>0
      <4>2. at(x) \in Nat
        BY <4>0, RowFacts
      <4>3. y = z
        BY <2>1, <4>0, <4>1, <4>2, WithinYear
      <4>4. m + 1 \in months
        BY CalendarTyped DEF Months
      <4>5. \A n \in months : Within(MonthRange(y, n), at(x)) <=> n = m + 1
        BY <2>1, <4>1, <4>2, <4>3, WithinMonth
      <4>6. month[x] = m + 1
        BY <4>4, <4>5
      <4> QED BY <4>4, <4>5, <4>6
    <3>4. rows \in SUBSET Present /\ IsFiniteSet(rows) /\ IsFiniteSet(months)
      <4>1. rows \in SUBSET Present
        BY <3>1
      <4>2. IsFiniteSet(rows)
        <5> HIDE DEF rows
        <5> QED BY <2>3, <4>1, FS_Subset
      <4>3. IsFiniteSet(months)
        BY FS_Interval, CalendarTyped
      <4> QED BY <4>1, <4>2, <4>3
    <3> HIDE DEF month
    <3>5. ASSUME NEW n \in months
          PROVE  count[n] = Cardinality({x \in rows : month[x] = n})
      <4>1. /\ InMonth(y, n).type = None
            /\ Where(InMonth(y, n), None) = {x \in Present : Within(MonthRange(y, n), at(x))}
        BY RowsOfMonth
      <4>2. {x \in Present : Within(MonthRange(y, n), at(x))} = {x \in rows : month[x] = n}
        BY <3>2, <3>3, <3>4
      <4>3. Where(InMonth(y, n), None) = {x \in rows : month[x] = n}
        BY <4>1, <4>2
      <4>4. count[n] = Cardinality(Where(InMonth(y, n), None))
        BY <4>1 DEF CountTransactions
      <4> QED BY <4>3, <4>4
    <3>6. SumFunction(count) = SumFunctionOnSet(count, months)
      BY DEF SumFunction
    <3>7. CountTransactions(InYear(y)) = Cardinality(rows)
      BY <3>1 DEF CountTransactions
    <3> HIDE DEF count, rows, months
    <3>8. SumFunctionOnSet(count, months) = Cardinality(rows)
      <4>1. \A x \in rows : month[x] \in months
        BY <3>3
      <4>2. \A n \in months : count[n] = Cardinality({x \in rows : month[x] = n})
        BY <3>5
      <4> QED BY <3>4, <4>1, <4>2, CountByGroup
    <3> QED BY <3>6, <3>7, <3>8 DEF count, months
  <2> QED BY <2>4, <2>5
<1> QED BY <1>1, RowsAlwaysTyped, Invariance, PTL

-----------------------------------------------------------------------------
(* Figures of one state: periods                                           *)

Period(unit, x) == DateTrunc(unit, transactions[x].createdAt)

OfPeriod(rows, type, unit, p) == {x \in OfType(rows, type) : Period(unit, x) = p}

\* Grouped by period and type and put together again: of each period in which there are
\* rows, the total of each type, zero when there are none of the other type.
LEMMA TrendOfRows ==
  ASSUME RowsTyped, NEW rows \in SUBSET Present, NEW unit, NEW trend,
         trend = PeriodMap(PeriodTotals(rows, unit))
  PROVE  /\ DOMAIN trend = {Period(unit, x) : x \in rows}
         /\ \A p \in DOMAIN trend :
              trend[p] = [income  |-> Total(OfPeriod(rows, "INCOME", unit, p)),
                          expense |-> Total(OfPeriod(rows, "EXPENSE", unit, p))]
<1> DEFINE items == PeriodTotals(rows, unit)
           item(x) == [period |-> Period(unit, x), type |-> transactions[x].type,
                       total |-> Total(OfPeriod(rows, transactions[x].type, unit, Period(unit, x)))]
           of(p, type) == SumFunction([i \in {j \in items : j.period = p /\ j.type = type} |-> i.total])
<1>1. items = {item(x) : x \in rows}
  <2> DEFINE period == [x \in rows |-> DateTrunc(unit, transactions[x].createdAt)]
             grouped(x) == {y \in OfType(rows, transactions[x].type) : period[y] = period[x]}
  <2>1. items = {[period |-> period[x], type |-> transactions[x].type, total |-> Total(grouped(x))] :
                   x \in rows}
    BY DEF PeriodTotals
  <2>2. ASSUME NEW x \in rows
        PROVE  [period |-> period[x], type |-> transactions[x].type, total |-> Total(grouped(x))] = item(x)
    <3>1. period[x] = Period(unit, x)
      BY DEF Period
    <3>2. grouped(x) = OfPeriod(rows, transactions[x].type, unit, Period(unit, x))
      BY DEF OfPeriod, Period, OfType
    <3>3. Total(grouped(x)) = Total(OfPeriod(rows, transactions[x].type, unit, Period(unit, x)))
      BY <3>2
    <3> QED BY <3>1, <3>3
  <2> HIDE DEF grouped, period, item, items
  <2> QED BY <2>1, <2>2
<1>2. trend = [p \in {i.period : i \in items} |-> [income |-> of(p, "INCOME"), expense |-> of(p, "EXPENSE")]]
  BY DEF PeriodMap
<1>3. {i.period : i \in items} = {Period(unit, x) : x \in rows}
  <2> HIDE DEF items
  <2>1. \A x \in rows : item(x).period = Period(unit, x)
    OBVIOUS
  <2> HIDE DEF item
  <2> QED BY <1>1, <2>1
<1>4. ASSUME NEW p, NEW type
      PROVE  of(p, type) = Total(OfPeriod(rows, type, unit, p))
  <2> DEFINE group == OfPeriod(rows, type, unit, p)
             those == {j \in items : j.period = p /\ j.type = type}
             column == [i \in those |-> i.total]
  <2>1. of(p, type) = SumFunctionOnSet(column, those)
    BY DEF SumFunction
  <2>2. \A x \in rows : item(x) \in those <=> x \in group
    BY <1>1 DEF OfPeriod, OfType
  <2>3. \A x \in group : item(x).total = Total(group)
    <3> SUFFICES ASSUME NEW x \in group PROVE item(x).total = Total(group)
      OBVIOUS
    <3>1. transactions[x].type = type /\ Period(unit, x) = p
      BY DEF OfPeriod, OfType
    <3> QED BY <3>1
  <2>4. \A x \in group : item(x).period = p /\ item(x).type = type
    BY DEF OfPeriod, OfType
  <2>5. \A i \in those : \E x \in group : i = item(x)
    BY <1>1, <2>2
  <2>6. CASE group = {}
    <3>1. those = {}
      BY <2>5, <2>6
    <3>2. SumFunctionOnSet(column, those) = 0
      <4> HIDE DEF column, those
      <4>1. SumFunctionOnSet(column, those) = SumFunctionOnSet(column, {})
        BY <3>1
      <4> QED BY <4>1, SumEmpty
    <3>3. Total(group) = Total({})
      BY <2>6
    <3> QED BY <2>1, <3>2, <3>3, TotalOfNone
  <2>7. CASE group # {}
    <3>1. PICK x \in group : TRUE
      BY <2>7
    <3>2. group \in SUBSET rows
      BY DEF OfPeriod, OfType
    <3>3. \A y \in group : item(y) = item(x)
      BY <2>3, <2>4
    <3>4. those = {item(x)}
      <4> HIDE DEF item, those, group
      <4> QED BY <2>2, <2>5, <3>1, <3>2, <3>3
    <3>5. column[item(x)] = Total(group)
      BY <2>3, <3>1, <3>4
    <3>6. Total(group) \in Nat
      <4>1. group \in SUBSET Present
        BY <3>2
      <4> HIDE DEF group
      <4> QED BY <4>1, TotalIsSum
    <3> HIDE DEF column, those, item, group
    <3>7. SumFunctionOnSet(column, {item(x)}) = Total(group)
      BY <3>5, <3>6, SumOfSingleton
    <3> QED BY <2>1, <3>4, <3>7 DEF group
  <2> QED BY <2>6, <2>7
<1> HIDE DEF of, items
<1> QED BY <1>2, <1>3, <1>4

\* The periods of the trend are dates, and the same in either module.
LEMMA TrendOfFilter ==
  ASSUME NEW f \in Filter, NEW unit
  PROVE  /\ Trend(f, unit) = PeriodMap(PeriodTotals(ReportWhere(f), unit))
         /\ ReportTrend(f, unit) = Trend(f, unit)
BY SameWhere DEF Trend, ReportTrend

LEMMA PeriodInt ==
  ASSUME RowsTyped, NEW unit \in Unit, NEW x \in Present
  PROVE  Period(unit, x) \in Int
<1>1. PICK t \in Nat : t = transactions[x].createdAt
  BY RowFacts
<1>2. InstantsPerDay \in Nat \ {0} /\ DaysPerWeek \in Nat \ {0}
  BY CalendarTyped
<1>3. t \div InstantsPerDay \in Int
  BY <1>2, DivBounds
<1> DEFINE day == t \div InstantsPerDay
<1>4. day \in Int
  BY <1>3
<1>5. CASE unit = "day"
  <2>1. DateTrunc(unit, t) = day * InstantsPerDay
    BY <1>5 DEF DateTrunc
  <2> HIDE DEF day
  <2> QED BY <1>1, <1>2, <1>4, <2>1 DEF Period
<1>6. CASE unit = "week"
  <2>1. DateTrunc(unit, t) = (day - (day % DaysPerWeek)) * InstantsPerDay
    BY <1>6 DEF DateTrunc
  <2> HIDE DEF day
  <2>2. day % DaysPerWeek \in Int
    BY <1>2, <1>4
  <2> QED BY <1>1, <1>2, <1>4, <2>1, <2>2 DEF Period
<1>7. CASE unit = "month"
  <2>1. PICK y \in Nat, m \in Months : UTC(y, m) <= t /\ t < UTC(y, m + 1)
    BY MonthOfInstant
  <2>2. DateTrunc("month", t) = UTC(y, m)
    BY <2>1, DateTruncMonth
  <2>3. m \in 0 .. MonthsPerYear
    BY CalendarTyped DEF Months
  <2> QED BY <1>1, <1>7, <2>1, <2>2, <2>3, UTCInt DEF Period
<1> QED BY <1>5, <1>6, <1>7 DEF Unit

\* The balances of all periods add up to the net balance of the overview.
LEMMA BalancesAddUp ==
  ASSUME RowsTyped, NEW f \in Filter, NEW unit, NEW trend, trend = Trend(f, unit),
         NEW balance, \A p \in DOMAIN trend : balance[p] = trend[p].income - trend[p].expense
  PROVE  /\ IsFiniteSet(DOMAIN trend)
         /\ SumFunctionOnSet(balance, DOMAIN trend) = Overview(f).netBalance
<1> DEFINE rows == ReportWhere(f)
           periods == DOMAIN trend
           period == [x \in rows |-> Period(unit, x)]
           column(type) == [p \in periods |-> Total(OfPeriod(rows, type, unit, p))]
<1>1. rows \in SUBSET Present /\ IsFiniteSet(rows)
  BY ReportPresent, TotalIsSum
<1>2. trend = PeriodMap(PeriodTotals(rows, unit))
  BY TrendOfFilter
<1>3. periods = {period[x] : x \in rows}
  <2>1. periods = {Period(unit, x) : x \in rows}
    <3> HIDE DEF rows
    <3> QED BY <1>1, <1>2, TrendOfRows
  <2> QED BY <2>1
<1>4. \A p \in periods : /\ trend[p].income = column("INCOME")[p]
                         /\ trend[p].expense = column("EXPENSE")[p]
  <2>1. \A p \in DOMAIN trend :
          trend[p] = [income  |-> Total(OfPeriod(rows, "INCOME", unit, p)),
                      expense |-> Total(OfPeriod(rows, "EXPENSE", unit, p))]
    <3> HIDE DEF rows
    <3> QED BY <1>1, <1>2, TrendOfRows
  <2> SUFFICES ASSUME NEW p \in DOMAIN trend
               PROVE  /\ trend[p].income = column("INCOME")[p]
                      /\ trend[p].expense = column("EXPENSE")[p]
    OBVIOUS
  <2>2. /\ column("INCOME")[p] = Total(OfPeriod(rows, "INCOME", unit, p))
        /\ column("EXPENSE")[p] = Total(OfPeriod(rows, "EXPENSE", unit, p))
    OBVIOUS
  <2> HIDE DEF column, rows
  <2> QED BY <2>1, <2>2
<1>5. IsFiniteSet(periods)
  <2> HIDE DEF period, rows, periods
  <2> QED BY <1>1, <1>3, FiniteImage
<1>6. ASSUME NEW type \in Type
      PROVE  /\ SumFunctionOnSet(column(type), periods) = TotalByType(f, type)
             /\ TotalByType(f, type) \in Nat
             /\ \A p \in periods : column(type)[p] \in Nat
  <2> DEFINE S == OfType(rows, type)
             g == column(type)
  <2>1. S \in SUBSET Present /\ S \in SUBSET rows
    BY ReportPresent DEF OfType
  <2>2. \A x \in S : period[x] \in periods
    BY <1>3, <2>1
  <2>3. \A p \in periods : g[p] = Total({x \in S : period[x] = p})
    <3> SUFFICES ASSUME NEW p \in periods PROVE g[p] = Total({x \in S : period[x] = p})
      OBVIOUS
    <3>1. OfPeriod(rows, type, unit, p) = {x \in S : period[x] = p}
      BY <2>1 DEF OfPeriod
    <3>2. Total(OfPeriod(rows, type, unit, p)) = Total({x \in S : period[x] = p})
      BY <3>1
    <3> QED BY <3>2
  <2>4. ASSUME NEW p \in periods PROVE g[p] \in Nat
    <3>1. {x \in S : period[x] = p} \in SUBSET Present
      BY <2>1
    <3>2. Total({x \in S : period[x] = p}) \in Nat
      BY <3>1, TotalIsSum
    <3> QED BY <2>3, <3>2
  <2>5. TotalByType(f, type) = Total(S) /\ TotalByType(f, type) \in Nat
    BY SameTotals
  <2> HIDE DEF S, g, periods, period
  <2>6. SumFunctionOnSet(g, periods) = Total(S)
    BY <1>5, <2>1, <2>2, <2>3, TotalByGroup
  <2> QED BY <2>4, <2>5, <2>6 DEF g
<1> DEFINE income == column("INCOME")
           expense == column("EXPENSE")
<1>7. /\ SumFunctionOnSet(income, periods) = TotalByType(f, "INCOME")
      /\ SumFunctionOnSet(expense, periods) = TotalByType(f, "EXPENSE")
  BY <1>6 DEF Type
<1>8. \A p \in periods : /\ income[p] \in Int /\ expense[p] \in Int
                         /\ balance[p] = income[p] - expense[p]
  <2>1. \A p \in periods : income[p] \in Nat /\ expense[p] \in Nat
    BY <1>6 DEF Type
  <2>2. \A p \in periods : balance[p] = income[p] - expense[p]
    BY <1>4
  <2> QED BY <2>1, <2>2
<1>9. SumFunctionOnSet(balance, periods)
        = SumFunctionOnSet(income, periods) - SumFunctionOnSet(expense, periods)
  <2> HIDE DEF income, expense, periods
  <2> QED BY <1>5, <1>8, SumDifference
<1> HIDE DEF income, expense
<1>10. SumFunctionOnSet(balance, periods) = Overview(f).netBalance
  BY <1>7, <1>9, OverviewFields
<1> QED BY <1>5, <1>10

\* In every reachable state the running balance of every filter, by day, week or month,
\* ends at the net balance of the overview of the same filter.
THEOREM CashFlowComplete == Spec => []CashFlowEndsAtNetBalance
<1>1. RowsTyped => CashFlowEndsAtNetBalance
  <2> SUFFICES ASSUME RowsTyped, NEW f \in Filters, NEW unit \in Unit,
                      DOMAIN CashFlow(Trend(f, unit)) # {}
               PROVE  CashFlow(Trend(f, unit))[Max(DOMAIN CashFlow(Trend(f, unit)))]
                        = Overview(f).netBalance
    BY DEF CashFlowEndsAtNetBalance
  <2> DEFINE trend == Trend(f, unit)
             flow == CashFlow(trend)
             periods == DOMAIN trend
             last == Max(periods)
             sofar(p) == {r \in periods : r <= p}
             balance(p) == [q \in sofar(p) |-> trend[q].income - trend[q].expense]
  <2>1. f \in Filter
    BY ValuesTyped
  <2>2. DOMAIN flow = periods /\ \A p \in periods : flow[p] = SumFunctionOnSet(balance(p), sofar(p))
    BY DEF CashFlow, SumFunction
  <2>3. periods \in SUBSET Int
    <3>1. ReportWhere(f) \in SUBSET Present
      BY ReportPresent
    <3>2. periods = {Period(unit, x) : x \in ReportWhere(f)}
      BY <2>1, <3>1, TrendOfFilter, TrendOfRows
    <3> QED BY <3>1, <3>2, PeriodInt
  <2>4. IsFiniteSet(periods)
    <3> DEFINE h == [p \in periods |-> trend[p].income - trend[p].expense]
    <3>1. \A p \in periods : h[p] = trend[p].income - trend[p].expense
      OBVIOUS
    <3> HIDE DEF h
    <3> QED BY <2>1, <3>1, BalancesAddUp
  <2>5. periods # {}
    BY <2>2
  <2>6. last \in periods /\ \A p \in periods : p <= last
    <3> HIDE DEF periods
    <3> QED BY <2>3, <2>4, <2>5, MaxIn
  <2>7. sofar(last) = periods
    <3> HIDE DEF periods, last
    <3> QED BY <2>6
  <2> DEFINE total == balance(last)
  <2>8. \A p \in periods : total[p] = trend[p].income - trend[p].expense
    <3> HIDE DEF trend, periods, last
    <3> QED BY <2>7
  <2>9. SumFunctionOnSet(total, periods) = Overview(f).netBalance
    <3> HIDE DEF total
    <3> QED BY <2>1, <2>8, BalancesAddUp
  <2>10. flow[last] = SumFunctionOnSet(total, sofar(last))
    BY <2>2, <2>6
  <2>11. SumFunctionOnSet(total, sofar(last)) = SumFunctionOnSet(total, periods)
    BY <2>7
  <2> HIDE DEF total, sofar
  <2> QED BY <2>2, <2>9, <2>10, <2>11
<1> QED BY <1>1, RowsAlwaysTyped, Invariance, PTL

LEMMA MonthlyReportsOf ==
  ASSUME NEW f, NEW trend, trend = ReportTrend(f, "month")
  PROVE  /\ DOMAIN MonthlyReports(f) = DOMAIN trend
         /\ \A p \in DOMAIN trend :
              MonthlyReports(f)[p] = [balance     |-> trend[p].income - trend[p].expense,
                                      savingsRate |-> Percent(trend[p].income - trend[p].expense,
                                                              trend[p].income)]
BY DEF MonthlyReports, SpendingTrend

\* The database's month of a transaction is the one whose filter matches it.
LEMMA PeriodOfMonth ==
  ASSUME RowsTyped, NEW y \in Year, NEW n \in 1 .. MonthsPerYear, NEW x \in Present
  PROVE  Period("month", x) = DateTrunc("month", UTC(y, n - 1))
           <=> Within(MonthRange(y, n), transactions[x].createdAt)
<1>1. PICK t \in Nat : t = transactions[x].createdAt
  BY RowFacts
<1>2. PICK z \in Nat, m \in Months : UTC(z, m) <= t /\ t < UTC(z, m + 1)
  BY MonthOfInstant
<1>3. PICK k \in Months : k = n - 1
  BY CalendarTyped DEF Months
<1>4. y \in Int /\ z \in Int
  BY ValuesTyped
<1>5. /\ k \in 0 .. MonthsPerYear /\ m \in 0 .. MonthsPerYear
      /\ k + 1 \in 0 .. MonthsPerYear /\ m + 1 \in 0 .. MonthsPerYear
  BY CalendarTyped DEF Months
<1>6. Within(MonthRange(y, n), t) <=> y = z /\ n = m + 1
  BY <1>2, <1>4, WithinMonth
<1>7. Period("month", x) = UTC(z, m)
  BY <1>1, <1>2, <1>4, DateTruncMonth DEF Period
<1>8. /\ UTC(y, k) \in Int /\ UTC(y, k) <= UTC(y, k) /\ UTC(y, k) < UTC(y, k + 1)
      /\ UTC(z, m) \in Int /\ UTC(z, m) <= UTC(z, m) /\ UTC(z, m) < UTC(z, m + 1)
  <2>1. k < k + 1 /\ m < m + 1
    BY DEF Months
  <2>2. UTC(y, k) \in Int /\ UTC(z, m) \in Int
    BY <1>4, <1>5, UTCInt
  <2>3. UTC(y, k) < UTC(y, k + 1) /\ UTC(z, m) < UTC(z, m + 1)
    BY <1>4, <1>5, <2>1, UTCGrows
  <2> QED BY <2>2, <2>3
<1>9. DateTrunc("month", UTC(y, n - 1)) = UTC(y, k)
  BY <1>3, <1>4, <1>8, DateTruncMonth
<1>10. ASSUME UTC(z, m) = UTC(y, k)
       PROVE  y = z /\ k = m
  <2>1. PICK s \in Int : s = UTC(y, k) /\ s = UTC(z, m)
    BY <1>8, <1>10
  <2>2. /\ UTC(y, k) <= s /\ s < UTC(y, k + 1)
        /\ UTC(z, m) <= s /\ s < UTC(z, m + 1)
    BY <1>8, <2>1
  <2>3. (s \div InstantsPerDay) \div DaysOfYear = y
    BY <1>4, <2>2, YearOfInstant
  <2>4. (s \div InstantsPerDay) \div DaysOfYear = z
    BY <1>4, <2>2, YearOfInstant
  <2>5. y = z
    BY <2>3, <2>4
  <2>6. k = m
    BY <1>4, <2>2, <2>5, MonthIsUnique
  <2> QED BY <2>5, <2>6
<1>11. k = m <=> n = m + 1
  BY <1>3 DEF Months
<1> QED BY <1>1, <1>6, <1>7, <1>9, <1>10, <1>11

\* In every reachable state the bars of the monthly chart are the totals of the month
\* filter, and the balances of the monthly report its net balances; a month without a
\* bar has no transaction.
THEOREM TrendAgreesWithFilter == Spec => []TrendMatchesMonths
<1>1. RowsTyped => TrendMatchesMonths
  <2> SUFFICES ASSUME RowsTyped
               PROVE  \A y \in Year, n \in 1 .. MonthsPerYear :
                        LET period == DateTrunc("month", UTC(y, n - 1))
                            overview == Overview(InMonth(y, n))
                            trend == Trend(NoFilter, "month")
                        IN IF period \in DOMAIN trend
                           THEN /\ trend[period] = [income  |-> overview.totalIncome,
                                                    expense |-> overview.totalExpense]
                                /\ MonthlyReports(NoFilter)[period]
                                     = [balance     |-> overview.netBalance,
                                        savingsRate |-> overview.savingsRate]
                           ELSE overview.transactionCount = 0
    BY DEF TrendMatchesMonths
  <2> TAKE y \in Year, n \in 1 .. MonthsPerYear
  <2> DEFINE period == DateTrunc("month", UTC(y, n - 1))
             f == InMonth(y, n)
             overview == Overview(f)
             trend == Trend(NoFilter, "month")
             Matches(x) == Within(MonthRange(y, n), transactions[x].createdAt)
  <2>1. trend = PeriodMap(PeriodTotals(Present, "month"))
    BY WithoutFilter DEF Trend
  <2>2. /\ DOMAIN trend = {Period("month", x) : x \in Present}
        /\ \A p \in DOMAIN trend :
             trend[p] = [income  |-> Total(OfPeriod(Present, "INCOME", "month", p)),
                         expense |-> Total(OfPeriod(Present, "EXPENSE", "month", p))]
    <3> HIDE DEF trend
    <3> QED BY <2>1, TrendOfRows
  <2>3. \A x \in Present : Period("month", x) = period <=> Matches(x)
    BY PeriodOfMonth
  <2>4. ASSUME NEW type \in Type
        PROVE  TotalByType(f, type) = Total(OfPeriod(Present, type, "month", period))
    <3>1. /\ f.type = None /\ type # None
          /\ Where(f, type) = {x \in Present : type \in {None, transactions[x].type} /\ Matches(x)}
      BY RowsOfMonth, ValuesTyped
    <3> HIDE DEF f, period, Matches
    <3>2. OfPeriod(Present, type, "month", period) = Where(f, type)
      BY <2>3, <3>1 DEF OfPeriod, OfType
    <3>3. Total(OfPeriod(Present, type, "month", period)) = Total(Where(f, type))
      BY <3>2
    <3> QED BY <3>1, <3>3 DEF TotalByType
  <2>5. /\ overview.totalIncome = TotalByType(f, "INCOME")
        /\ overview.totalExpense = TotalByType(f, "EXPENSE")
        /\ overview.netBalance = TotalByType(f, "INCOME") - TotalByType(f, "EXPENSE")
        /\ overview.savingsRate = Percent(overview.netBalance, overview.totalIncome)
        /\ overview.transactionCount = CountTransactions(f)
    BY OverviewFields
  <2>6. ReportTrend(NoFilter, "month") = trend
    BY WithoutFilter, TrendOfFilter
  <2>7. ASSUME period \in DOMAIN trend
        PROVE  /\ trend[period] = [income  |-> overview.totalIncome,
                                   expense |-> overview.totalExpense]
               /\ MonthlyReports(NoFilter)[period] = [balance     |-> overview.netBalance,
                                                      savingsRate |-> overview.savingsRate]
    <3>1. /\ TotalByType(f, "INCOME") = Total(OfPeriod(Present, "INCOME", "month", period))
          /\ TotalByType(f, "EXPENSE") = Total(OfPeriod(Present, "EXPENSE", "month", period))
      BY <2>4 DEF Type
    <3> HIDE DEF period, f, overview, trend
    <3>2. trend[period] = [income |-> overview.totalIncome, expense |-> overview.totalExpense]
      BY <2>2, <2>5, <2>7, <3>1
    <3>3. trend[period].income = overview.totalIncome /\ trend[period].expense = overview.totalExpense
      BY <3>2
    <3>4. MonthlyReports(NoFilter)[period]
            = [balance     |-> trend[period].income - trend[period].expense,
               savingsRate |-> Percent(trend[period].income - trend[period].expense,
                                       trend[period].income)]
      BY <2>6, <2>7, MonthlyReportsOf
    <3>5. trend[period].income - trend[period].expense = overview.netBalance
      BY <2>5, <3>3
    <3> QED BY <2>5, <3>2, <3>3, <3>4, <3>5
  <2>8. ASSUME period \notin DOMAIN trend
        PROVE  overview.transactionCount = 0
    <3>1. f.type = None /\ Where(f, None) = {x \in Present : Matches(x)}
      <4>1. /\ f.type = None
            /\ Where(f, None) = {x \in Present : None \in {None, transactions[x].type} /\ Matches(x)}
        BY RowsOfMonth
      <4> HIDE DEF f
      <4> QED BY <4>1
    <3>2. Where(f, None) = {}
      <4> HIDE DEF f, Matches, period, trend
      <4> QED BY <2>2, <2>3, <2>8, <3>1
    <3>3. CountTransactions(f) = Cardinality({})
      <4> HIDE DEF f
      <4> QED BY <3>1, <3>2 DEF CountTransactions
    <3> QED BY <2>5, <3>3, FS_EmptySet
  <2> QED BY <2>7, <2>8
<1> QED BY <1>1, RowsAlwaysTyped, Invariance, PTL

-----------------------------------------------------------------------------
(* Figures of one state: charts                                            *)

\* Every share of a chart is one of the sum of what was grouped.
LEMMA SharesOf ==
  ASSUME NEW totals
  PROVE  /\ DOMAIN Shares(totals) = DOMAIN totals
         /\ \A k \in DOMAIN totals :
              Shares(totals)[k].whole = SumFunctionOnSet(totals, DOMAIN totals)
BY DEF Shares, Percent, SumFunction

\* The categories of some rows: their totals add up to that of the rows.
CategoriesOf(rows) == {transactions[x].category : x \in rows}

OfCategory(rows, k) == {x \in rows : transactions[x].category = k}

LEMMA CategoriesAddUp ==
  ASSUME RowsTyped, NEW rows \in SUBSET Present, NEW totals,
         totals = [k \in CategoriesOf(rows) |-> Total(OfCategory(rows, k))]
  PROVE  SumFunctionOnSet(totals, CategoriesOf(rows)) = Total(rows)
<1> DEFINE category == [x \in rows |-> transactions[x].category]
           K == CategoriesOf(rows)
<1>1. IsFiniteSet(rows)
  BY TotalIsSum
<1>2. K = {category[x] : x \in rows}
  BY DEF CategoriesOf
<1>3. IsFiniteSet(K)
  <2> HIDE DEF category, K
  <2> QED BY <1>1, <1>2, FiniteImage
<1>4. \A x \in rows : category[x] \in K
  BY <1>2
<1>5. \A k \in K : totals[k] = Total({x \in rows : category[x] = k})
  <2> SUFFICES ASSUME NEW k \in K PROVE totals[k] = Total({x \in rows : category[x] = k})
    OBVIOUS
  <2>1. OfCategory(rows, k) = {x \in rows : category[x] = k}
    BY DEF OfCategory
  <2>2. Total(OfCategory(rows, k)) = Total({x \in rows : category[x] = k})
    BY <2>1
  <2> QED BY <2>2
<1> HIDE DEF category, K
<1>6. SumFunctionOnSet(totals, K) = Total(rows)
  BY <1>3, <1>4, <1>5, TotalByGroup
<1> QED BY <1>6 DEF K

\* The expenses, as chart, list and summary see them.
LEMMA ChartOfExpenses ==
  ASSUME RowsTyped, NEW f \in Filter
  PROVE  /\ \A k \in DOMAIN CategoryChart(f) : CategoryChart(f)[k].whole = TotalByType(f, "EXPENSE")
         /\ DOMAIN CategoryChart(f) = {} <=> TotalByType(f, "EXPENSE") = 0
<1> DEFINE totals == CategoryTotals(f, "EXPENSE")
           rows == Where(f, "EXPENSE")
<1>1. /\ DOMAIN totals = Grouped(f, "EXPENSE")
      /\ CategoryChart(f) = Shares(totals)
  BY DEF CategoryTotals, CategoryChart
<1>2. rows \in SUBSET Present
  BY WherePresent
<1>3. CASE f.type \in {None, "EXPENSE"}
  <2>1. Grouped(f, "EXPENSE") = CategoriesOf(rows) /\ TotalByType(f, "EXPENSE") = Total(rows)
    BY <1>3 DEF Grouped, CategoriesOf, TotalByType
  <2>2. totals = [k \in CategoriesOf(rows) |-> Total(OfCategory(rows, k))]
    BY <2>1 DEF CategoryTotals, CategoryTotal, OfCategory
  <2>3. CategoriesOf(rows) = {} <=> rows = {}
    BY DEF CategoriesOf
  <2> HIDE DEF totals, rows
  <2>4. SumFunctionOnSet(totals, CategoriesOf(rows)) = Total(rows)
    BY <1>2, <2>2, CategoriesAddUp
  <2>5. Total(rows) = 0 <=> rows = {}
    BY <1>2, TotalIsZero
  <2> DEFINE categories_of == CategoriesOf(rows)
             chart == CategoryChart(f)
  <2>6. DOMAIN totals = categories_of
    BY <1>1, <2>1
  <2>7. DOMAIN chart = categories_of
    BY <1>1, <2>6, SharesOf
  <2>8. SumFunctionOnSet(totals, DOMAIN totals) = Total(rows)
    BY <2>4, <2>6
  <2>9. \A k \in DOMAIN chart : chart[k].whole = Total(rows)
    BY <1>1, <2>6, <2>7, <2>8, SharesOf
  <2>10. DOMAIN chart = {} <=> Total(rows) = 0
    BY <2>3, <2>5, <2>7
  <2> HIDE DEF chart, categories_of
  <2>11. TotalByType(f, "EXPENSE") = Total(rows)
    BY <2>1
  <2> QED BY <2>9, <2>10, <2>11 DEF chart
<1>4. CASE f.type \notin {None, "EXPENSE"}
  <2>1. Grouped(f, "EXPENSE") = {} /\ TotalByType(f, "EXPENSE") = 0
    BY <1>4 DEF Grouped, TotalByType
  <2>2. DOMAIN CategoryChart(f) = {}
    BY <1>1, <2>1, SharesOf
  <2> QED BY <2>1, <2>2
<1> QED BY <1>3, <1>4

\* Asking for a type is splitting it off.
LEMMA ReportOfType ==
  ASSUME NEW f \in Filter, NEW type \in Type, f.type \in {None, type}
  PROVE  ReportWhere([f EXCEPT !.type = type]) = OfType(ReportWhere(f), type)
<1> DEFINE g == [f EXCEPT !.type = type]
<1>1. /\ g.type = type /\ g.category = f.category /\ g.startDate = f.startDate
      /\ g.endDate = f.endDate /\ g.month = f.month /\ g.year = f.year
  BY DEF Filter
<1> HIDE DEF g
<1>2. ReportDateRange(g) = ReportDateRange(f)
  BY <1>1 DEF ReportDateRange, Dated, ReportCalendarRange
<1>3. ReportWhere(g) = OfType(ReportWhere(f), type)
  BY <1>1, <1>2, ValuesTyped DEF ReportWhere, Matching, OfType
<1> QED BY <1>3 DEF g

\* The report groups by category what the dashboard does.
LEMMA SameCategoryTotals ==
  ASSUME RowsTyped, NEW f \in Filter
  PROVE  ReportCategoryTotals(f) = CategoryTotals(f, CategoryType(f))
<1> DEFINE type == CategoryType(f)
           g == [f EXCEPT !.type = type]
           rows == ReportWhere(g)
<1>1. type \in Type /\ f.type \in {None, type}
  BY FilterType DEF CategoryType, Type
<1>2. rows = Where(f, type)
  <2> HIDE DEF type
  <2> QED BY <1>1, ReportOfType, SameOfType
<1>3. Grouped(f, type) = {transactions[x].category : x \in rows}
  <2> HIDE DEF type, g, rows
  <2> QED BY <1>1, <1>2 DEF Grouped
<1>4. \A k : Total({x \in rows : transactions[x].category = k}) = CategoryTotal(f, type, k)
  <2> SUFFICES ASSUME NEW k
               PROVE  Total({x \in rows : transactions[x].category = k}) = CategoryTotal(f, type, k)
    OBVIOUS
  <2>1. {x \in rows : transactions[x].category = k} = {x \in Where(f, type) : transactions[x].category = k}
    BY <1>2
  <2> QED BY <2>1 DEF CategoryTotal
<1>5. ReportCategoryTotals(f) = [k \in {transactions[x].category : x \in rows} |->
                                   Total({x \in rows : transactions[x].category = k})]
  BY DEF ReportCategoryTotals
<1> HIDE DEF type, g, rows
<1>6. CategoryTotals(f, type) = [k \in Grouped(f, type) |-> CategoryTotal(f, type, k)]
  BY DEF CategoryTotals
<1>7. ReportCategoryTotals(f) = CategoryTotals(f, type)
  BY <1>3, <1>4, <1>5, <1>6
<1> QED BY <1>7 DEF type

\* What a limit leaves: everything when fewer than the limit are left, never more than
\* the limit, and nothing is left out that is larger than all it leaves.
LEMMA TopFacts ==
  ASSUME NEW totals, IsFiniteSet(DOMAIN totals), \A k \in DOMAIN totals : totals[k] \in Nat,
         NEW limit \in Optional(Nat \ {0}), NEW top \in Top(limit, totals)
  PROVE  /\ top \in SUBSET DOMAIN totals /\ IsFiniteSet(top)
         /\ limit = None \/ Cardinality(top) < limit => top = DOMAIN totals
         /\ limit # None => Cardinality(top) <= limit
         /\ \A k \in DOMAIN totals : \E l \in top : totals[k] <= totals[l]
<1> DEFINE all == DOMAIN totals
           taken == IF limit = None THEN Cardinality(all) ELSE Min({limit, Cardinality(all)})
<1>1. /\ top \in SUBSET all /\ Cardinality(top) = taken
      /\ \A k \in top, l \in all \ top : totals[k] >= totals[l]
  BY DEF Top, ComesFirst
<1>2. /\ IsFiniteSet(top) /\ Cardinality(top) \in Nat /\ Cardinality(all) \in Nat
      /\ Cardinality(all) = Cardinality(top) => top = all
  BY <1>1, FS_Subset, FS_CardinalityType
<1>3. limit # None => limit \in Nat \ {0}
  BY DEF Optional
<1>4. limit # None => /\ taken <= limit /\ taken <= Cardinality(all)
                      /\ taken = limit \/ taken = Cardinality(all)
  <2> SUFFICES ASSUME limit # None
               PROVE  /\ taken <= limit /\ taken <= Cardinality(all)
                      /\ taken = limit \/ taken = Cardinality(all)
    OBVIOUS
  <2>1. taken = Min({limit, Cardinality(all)})
    OBVIOUS
  <2> DEFINE least == IF limit <= Cardinality(all) THEN limit ELSE Cardinality(all)
  <2>2. least \in {limit, Cardinality(all)} /\ \A v \in {limit, Cardinality(all)} : least <= v
    BY <1>2, <1>3
  <2>3. \A m \in {limit, Cardinality(all)} :
          (\A v \in {limit, Cardinality(all)} : m <= v) => m = least
    BY <1>2, <1>3
  <2>4. taken = least
    BY <2>1, <2>2, <2>3 DEF Min
  <2> HIDE DEF taken
  <2> QED BY <1>2, <1>3, <2>4
<1>5. limit = None => taken = Cardinality(all)
  OBVIOUS
<1> HIDE DEF taken
<1>6. limit = None \/ Cardinality(top) < limit => top = all
  BY <1>1, <1>2, <1>3, <1>4, <1>5
<1>7. limit # None => Cardinality(top) <= limit
  BY <1>1, <1>4
<1>8. ASSUME NEW k \in all PROVE \E l \in top : totals[k] <= totals[l]
  <2>1. CASE k \in top
    BY <2>1
  <2>2. CASE k \notin top
    <3>1. top # {}
      <4>1. Cardinality(all) # 0
        BY <1>8, FS_EmptySet
      <4>2. taken # 0
        BY <1>3, <1>4, <1>5, <4>1
      <4> QED BY <1>1, <4>2, FS_EmptySet
    <3> QED BY <1>1, <1>8, <2>2, <3>1
  <2> QED BY <2>1, <2>2
<1> HIDE DEF all
<1> QED BY <1>1, <1>2, <1>6, <1>7, <1>8 DEF all

\* Two upper bounds of the same values that are attained are the same.
LEMMA LargestIs ==
  ASSUME NEW K, IsFiniteSet(K), NEW f, \A k \in K : f[k] \in Nat,
         NEW m \in Nat, \A k \in K : f[k] <= m, m = 0 \/ \E k \in K : f[k] = m
  PROVE  Largest(f, K) = m
<1>1. /\ Largest(f, K) \in Nat
      /\ \A k \in K : f[k] <= Largest(f, K)
      /\ Largest(f, K) = 0 \/ \E k \in K : f[k] = Largest(f, K)
  BY MaxOfValues
<1> QED BY <1>1

LEMMA BreakdownOfType ==
  ASSUME RowsTyped, NEW f \in Filter, NEW limit \in Optional(Nat \ {0}),
         NEW breakdown \in CategoryBreakdowns(f, limit)
  PROVE  BreakdownAddsUp(breakdown, limit, TotalByType(f, CategoryType(f)),
                         HighestTotal(f, CategoryType(f)))
<1> DEFINE type == CategoryType(f)
           totals == CategoryTotals(f, type)
           rows == Where(f, type)
           highest == HighestTotal(f, type)
           all == Grouped(f, type)
<1>1. type \in Type /\ f.type \in {None, type}
  BY FilterType DEF CategoryType, Type
<1>2. PICK top \in Top(limit, totals) : breakdown = Shares([k \in top |-> totals[k]])
  BY SameCategoryTotals DEF CategoryBreakdowns
<1>3. rows \in SUBSET Present
  BY WherePresent
<1> HIDE DEF type
<1>4. /\ DOMAIN totals = all /\ IsFiniteSet(all) /\ all \in SUBSET CategoryId
      /\ totals = [k \in CategoriesOf(rows) |-> Total(OfCategory(rows, k))]
  <2>1. all = CategoriesOf(rows)
    BY <1>1 DEF Grouped, CategoriesOf
  <2> QED BY <2>1, GroupedFacts DEF CategoryTotals, CategoryTotal, OfCategory
<1>5. \A k \in all : /\ totals[k] \in Nat \ {0}
                     /\ ReportTotals(f, type)[k] = totals[k]
  <2> SUFFICES ASSUME NEW k \in all
               PROVE  totals[k] \in Nat \ {0} /\ ReportTotals(f, type)[k] = totals[k]
    OBVIOUS
  <2>1. totals[k] = CategoryTotal(f, type, k)
    BY DEF CategoryTotals
  <2>2. /\ ReportTotals(f, type)[k] \in Nat /\ ReportTotals(f, type)[k] > 0
        /\ ReportTotals(f, type)[k] = CategoryTotal(f, type, k)
    BY <1>1, <1>4, ReportTotalsFacts
  <2> QED BY <2>1, <2>2
<1>6. \A k \in CategoryId \ all : ReportTotals(f, type)[k] = 0
  BY <1>1, ReportTotalsFacts
<1>7. /\ highest \in Nat
      /\ \A k \in all : totals[k] <= highest
      /\ highest = 0 \/ \E k \in all : totals[k] = highest
  <2> DEFINE reported == ReportTotals(f, type)
  <2>1. highest = Largest(reported, CategoryId) /\ highest \in Nat
    BY <1>1, HighestIsLargest
  <2>2. \A k \in CategoryId : reported[k] \in Nat
    BY <1>1, ReportTotalsFacts
  <2>3. \A k \in all : reported[k] = totals[k]
    BY <1>5
  <2>4. \A k \in CategoryId \ all : reported[k] = 0
    BY <1>6
  <2> HIDE DEF reported, highest, totals, all
  <2>5. /\ \A k \in CategoryId : reported[k] <= highest
        /\ highest = 0 \/ \E k \in CategoryId : reported[k] = highest
    BY <2>1, <2>2, MaxOfValues, ValuesTyped
  <2> QED BY <1>4, <2>1, <2>3, <2>4, <2>5
<1>8. TotalByType(f, type) = SumFunctionOnSet(totals, all) /\ TotalByType(f, type) \in Nat
  <2>1. CategoriesOf(rows) = all
    BY <1>4
  <2>2. SumFunctionOnSet(totals, CategoriesOf(rows)) = Total(rows)
    <3> HIDE DEF totals, rows
    <3> QED BY <1>3, <1>4, CategoriesAddUp
  <2>3. TotalByType(f, type) = Total(rows)
    BY <1>1 DEF TotalByType
  <2>4. TotalByType(f, type) \in Nat
    BY <1>1, SameTotals
  <2> QED BY <2>1, <2>2, <2>3, <2>4
<1> HIDE DEF totals, rows, highest, all
<1>9. /\ top \in SUBSET all /\ IsFiniteSet(top)
      /\ limit = None \/ Cardinality(top) < limit => top = all
      /\ limit # None => Cardinality(top) <= limit
      /\ \A k \in all : \E l \in top : totals[k] <= totals[l]
  BY <1>2, <1>4, <1>5, TopFacts
<1> DEFINE left == [k \in top |-> totals[k]]
           shown == SumFunctionOnSet(left, top)
           parts == [k \in DOMAIN breakdown |-> breakdown[k].part]
<1>10. /\ DOMAIN left = top
       /\ \A k \in top : left[k] = totals[k] /\ left[k] \in Nat \ {0}
  BY <1>5, <1>9
<1> HIDE DEF left
<1>11. DOMAIN breakdown = top /\ \A k \in top : breakdown[k] = Percent(left[k], shown)
  BY <1>2, <1>10 DEF Shares, SumFunction, left
<1>12. /\ shown \in Nat
       /\ \A k \in top : left[k] <= shown
       /\ shown = SumFunctionOnSet(totals, top)
  <2>1. \A k \in top : left[k] \in Nat /\ left[k] \in Int /\ left[k] = totals[k]
    BY <1>10
  <2>2. SumFunctionOnSet(left, top) = SumFunctionOnSet(totals, top)
    BY <1>9, <2>1, SumSame
  <2>3. shown \in Nat
    BY <1>9, <2>1, SumNat
  <2>4. \A k \in top : left[k] <= shown
    BY <1>9, <2>1, SumAtLeast
  <2> QED BY <2>2, <2>3, <2>4
<1> HIDE DEF shown
<1>13. \A k \in top : breakdown[k].part = totals[k] /\ breakdown[k].whole = shown
  <2> SUFFICES ASSUME NEW k \in top PROVE breakdown[k].part = totals[k] /\ breakdown[k].whole = shown
    OBVIOUS
  <2>1. shown > 0 /\ left[k] = totals[k]
    BY <1>10, <1>12
  <2> QED BY <1>11, <2>1 DEF Percent
<1>14. DOMAIN parts = top /\ \A k \in top : parts[k] = totals[k] /\ parts[k] \in Nat
  BY <1>10, <1>11, <1>13
<1> HIDE DEF parts
<1>15. SumFunction(parts) = shown
  <2>1. \A k \in top : parts[k] \in Int /\ parts[k] = totals[k]
    BY <1>14
  <2>2. SumFunctionOnSet(parts, top) = SumFunctionOnSet(totals, top)
    BY <1>9, <2>1, SumSame
  <2> QED BY <1>12, <1>14, <2>2 DEF SumFunction
<1>16. shown <= TotalByType(f, type)
  <2>1. \A k \in all : totals[k] \in Nat
    BY <1>5
  <2>2. SumFunctionOnSet(totals, top) <= SumFunctionOnSet(totals, all)
    BY <1>4, <1>9, <2>1, SumMonotone
  <2> QED BY <1>8, <1>12, <2>2
<1>17. top = all => shown = TotalByType(f, type)
  BY <1>8, <1>12
<1>18. Largest(parts, top) = highest
  <2>1. \A k \in top : parts[k] \in Nat /\ parts[k] <= highest
    BY <1>7, <1>9, <1>14
  <2>2. highest = 0 \/ \E k \in top : parts[k] = highest
    <3> SUFFICES ASSUME highest # 0 PROVE \E k \in top : parts[k] = highest
      OBVIOUS
    <3>1. PICK k \in all : totals[k] = highest
      BY <1>7
    <3>2. PICK l \in top : totals[k] <= totals[l]
      BY <1>9
    <3>3. l \in all /\ totals[l] <= highest /\ totals[l] \in Nat /\ parts[l] = totals[l]
      BY <1>5, <1>7, <1>9, <1>14
    <3> QED BY <1>7, <3>1, <3>2, <3>3
  <2> QED BY <1>7, <1>9, <2>1, <2>2, LargestIs
<1>19. Max({0} \cup {parts[k] : k \in DOMAIN breakdown}) = highest
  BY <1>11, <1>18 DEF Largest
<1>20. BreakdownAddsUp(breakdown, limit, TotalByType(f, type), highest)
  <2>1. \A k \in DOMAIN breakdown : breakdown[k].whole = SumFunction(parts)
    BY <1>11, <1>13, <1>15
  <2>2. SumFunction(parts) <= TotalByType(f, type)
    BY <1>15, <1>16
  <2>3. limit = None \/ Cardinality(DOMAIN breakdown) < limit => SumFunction(parts) = TotalByType(f, type)
    BY <1>9, <1>11, <1>15, <1>17
  <2>4. limit # None => Cardinality(DOMAIN breakdown) <= limit
    BY <1>9, <1>11
  <2> QED BY <1>19, <2>1, <2>2, <2>3, <2>4 DEF BreakdownAddsUp, parts
<1> QED BY <1>20 DEF type, highest

LEMMA HighestOf ==
  ASSUME RowsTyped, NEW rows \in SUBSET Present
  PROVE  /\ Highest(rows) \in Nat
         /\ \A x \in rows : transactions[x].amount \in Nat /\ transactions[x].amount <= Highest(rows)
         /\ Highest(rows) > 0 => \E x \in rows : transactions[x].amount = Highest(rows)
<1> DEFINE amount == [x \in rows |-> transactions[x].amount]
           amounts == {amount[x] : x \in rows}
<1>1. \A x \in rows : amount[x] = transactions[x].amount /\ amount[x] \in Nat
  BY TotalAtLeast
<1>2. CASE rows = {}
  BY <1>2 DEF Highest
<1>3. CASE rows # {}
  <2>1. Highest(rows) = Max(amounts)
    BY <1>3 DEF Highest
  <2>2. IsFiniteSet(rows)
    BY TotalIsSum
  <2>3. IsFiniteSet(amounts)
    <3> HIDE DEF amount
    <3> QED BY <2>2, FiniteImage
  <2>4. amounts \in SUBSET Int /\ amounts # {}
    BY <1>1, <1>3
  <2> HIDE DEF amounts
  <2>5. Max(amounts) \in amounts /\ \A a \in amounts : a <= Max(amounts)
    BY <2>3, <2>4, MaxIn
  <2> HIDE DEF amount
  <2> QED BY <1>1, <2>1, <2>5 DEF amounts
<1> QED BY <1>2, <1>3

\* The highest category has spent the highest expense at least, and all at most.
LEMMA HighestCategoryBounds ==
  ASSUME RowsTyped, NEW f \in Filter
  PROVE  HighestTotal(f, "EXPENSE") \in Highest(OfType(ReportWhere(f), "EXPENSE"))
                                        .. TotalByType(f, "EXPENSE")
<1> DEFINE rows == OfType(ReportWhere(f), "EXPENSE")
           totals == ReportTotals(f, "EXPENSE")
           largest == Largest(totals, CategoryId)
<1>1. rows \in SUBSET Present
  BY ReportPresent
<1>2. HighestTotal(f, "EXPENSE") = largest /\ largest \in Nat
  BY HighestIsLargest DEF Type
<1>3. TotalByType(f, "EXPENSE") = Total(rows) /\ Total(rows) \in Nat
  BY SameTotals DEF Type
<1>4. \A k \in CategoryId : totals[k] = Total(OfCategory(rows, k))
  <2>1. ReportRows(f, "EXPENSE") = rows
    BY OtherTypeIsEmpty DEF ReportRows, Type
  <2> SUFFICES ASSUME NEW k \in CategoryId PROVE totals[k] = Total(OfCategory(rows, k))
    OBVIOUS
  <2>2. {x \in ReportRows(f, "EXPENSE") : transactions[x].category = k} = OfCategory(rows, k)
    BY <2>1 DEF OfCategory
  <2>3. Total({x \in ReportRows(f, "EXPENSE") : transactions[x].category = k}) = Total(OfCategory(rows, k))
    BY <2>2
  <2> QED BY <2>3 DEF ReportTotals
<1>5. \A k \in CategoryId : totals[k] \in Nat
  BY ReportTotalsFacts DEF Type
<1> HIDE DEF totals
<1>6. /\ \A k \in CategoryId : totals[k] <= largest
      /\ largest = 0 \/ \E k \in CategoryId : totals[k] = largest
  BY <1>5, MaxOfValues, ValuesTyped
<1> HIDE DEF rows, largest
<1>7. largest <= Total(rows)
  <2>1. \A k \in CategoryId : totals[k] <= Total(rows)
    <3> SUFFICES ASSUME NEW k \in CategoryId PROVE totals[k] <= Total(rows)
      OBVIOUS
    <3>1. OfCategory(rows, k) \in SUBSET rows
      BY DEF OfCategory
    <3>2. Total(OfCategory(rows, k)) <= Total(rows)
      BY <1>1, <3>1, TotalMonotone
    <3> QED BY <1>4, <3>2
  <2> QED BY <1>3, <1>6, <2>1
<1>8. Highest(rows) \in Nat /\ Highest(rows) <= largest
  <2>1. Highest(rows) \in Nat
    BY <1>1, HighestOf
  <2>2. CASE Highest(rows) = 0
    BY <1>2, <2>1, <2>2
  <2>3. CASE Highest(rows) > 0
    <3>1. PICK x \in rows : transactions[x].amount = Highest(rows)
      BY <1>1, <2>3, HighestOf
    <3>2. PICK k \in CategoryId : k = transactions[x].category
      BY <1>1, RowFacts
    <3>3. x \in OfCategory(rows, k) /\ OfCategory(rows, k) \in SUBSET Present
      BY <1>1, <3>2 DEF OfCategory
    <3>4. Highest(rows) <= Total(OfCategory(rows, k))
      BY <3>1, <3>3, TotalAtLeast
    <3>5. Highest(rows) <= totals[k] /\ totals[k] <= largest /\ totals[k] \in Nat
      BY <1>4, <1>5, <1>6, <3>4
    <3> QED BY <1>2, <2>1, <3>5
  <2> QED BY <2>1, <2>2, <2>3
<1> QED BY <1>2, <1>3, <1>7, <1>8 DEF rows

\* The expenses listed from the highest up are those of that amount.
LEMMA DrilledToHighest ==
  ASSUME RowsTyped, NEW f \in Filter,
         NEW highest, highest = Highest(OfType(ReportWhere(f), "EXPENSE")), highest > 0,
         NEW drilled, drilled = Listed([f EXCEPT !.type = "EXPENSE"], AmountRange(highest, None))
  PROVE  drilled # {} /\ \A x \in drilled : transactions[x].amount = highest
<1> DEFINE rows == OfType(ReportWhere(f), "EXPENSE")
           g == [f EXCEPT !.type = "EXPENSE"]
<1>1. rows \in SUBSET Present
  BY ReportPresent
<1>2. f.type \in {None, "EXPENSE"}
  <2> SUFFICES ASSUME f.type \notin {None, "EXPENSE"} PROVE FALSE
    OBVIOUS
  <2>1. rows = {}
    BY OtherTypeIsEmpty DEF Type
  <2>2. Highest(rows) = 0
    BY <2>1 DEF Highest
  <2> QED BY <2>2
<1>3. ReportWhere(g) = rows
  BY <1>2, ReportOfType DEF Type
<1> HIDE DEF rows, g
<1>4. /\ highest \in Nat
      /\ \A x \in rows : transactions[x].amount \in Nat /\ transactions[x].amount <= highest
      /\ \E x \in rows : transactions[x].amount = highest
  <2>1. highest = Highest(rows)
    BY DEF rows
  <2> QED BY <1>1, <2>1, HighestOf
<1>5. highest # None
  BY <1>4, ValuesTyped
<1>6. drilled = {x \in rows : transactions[x].amount >= highest}
  <2>1. drilled = Listed(g, AmountRange(highest, None))
    BY DEF g
  <2> QED BY <1>3, <1>5, <2>1 DEF Listed, AmountRange, Within
<1> QED BY <1>4, <1>6

\* In every reachable state and under every filter the dashboard's chart shares the
\* overview's total of expenses, and the report's breakdown, under any limit, what it
\* lists: all of its type unless the limit cuts it off, the highest category in any case.
\* The monthly balances add up to the net balance, the highest category lies between the
\* summary's highest expense and all expenses, and the list from the highest expense up
\* holds expenses of that amount only, and one at least.
THEOREM ChartsComplete == Spec => []ChartsAddUp
<1>1. RowsTyped => ChartsAddUp
  <2> SUFFICES ASSUME RowsTyped, NEW f \in Filters
               PROVE  LET highest == Summary(f).highestExpense
                          chart == CategoryChart(f)
                          months == MonthlyReports(f)
                          drilled == Listed([f EXCEPT !.type = "EXPENSE"], AmountRange(highest, None))
                      IN /\ \A k \in DOMAIN chart : chart[k].whole = Overview(f).totalExpense
                         /\ DOMAIN chart = {} <=> Overview(f).totalExpense = 0
                         /\ \A limit \in Optional(Limits) : \A breakdown \in CategoryBreakdowns(f, limit) :
                              IF f.type = "INCOME"
                              THEN BreakdownAddsUp(breakdown, limit, Overview(f).totalIncome,
                                                   Overview(f).highestIncome)
                              ELSE BreakdownAddsUp(breakdown, limit, Overview(f).totalExpense,
                                                   Overview(f).highestExpense)
                         /\ SumFunction([p \in DOMAIN months |-> months[p].balance])
                              = Overview(f).netBalance
                         /\ Overview(f).highestExpense \in highest .. Overview(f).totalExpense
                         /\ highest > 0 => /\ drilled # {}
                                           /\ \A x \in drilled : transactions[x].amount = highest
    BY DEF ChartsAddUp
  <2> DEFINE highest == Summary(f).highestExpense
             months == MonthlyReports(f)
             drilled == Listed([f EXCEPT !.type = "EXPENSE"], AmountRange(highest, None))
  <2>1. f \in Filter
    BY ValuesTyped
  <2>2. /\ Overview(f).totalIncome = TotalByType(f, "INCOME")
        /\ Overview(f).totalExpense = TotalByType(f, "EXPENSE")
        /\ Overview(f).highestExpense = HighestTotal(f, "EXPENSE")
        /\ Overview(f).highestIncome = HighestTotal(f, "INCOME")
        /\ highest = Highest(OfType(ReportWhere(f), "EXPENSE"))
    BY OverviewFields, SummaryFields
  <2>3. /\ \A k \in DOMAIN CategoryChart(f) : CategoryChart(f)[k].whole = Overview(f).totalExpense
        /\ DOMAIN CategoryChart(f) = {} <=> Overview(f).totalExpense = 0
    BY <2>1, <2>2, ChartOfExpenses
  <2>4. ASSUME NEW limit \in Optional(Limits), NEW breakdown \in CategoryBreakdowns(f, limit)
        PROVE  IF f.type = "INCOME"
               THEN BreakdownAddsUp(breakdown, limit, Overview(f).totalIncome,
                                    Overview(f).highestIncome)
               ELSE BreakdownAddsUp(breakdown, limit, Overview(f).totalExpense,
                                    Overview(f).highestExpense)
    <3>1. CategoryType(f) = IF f.type = "INCOME" THEN "INCOME" ELSE "EXPENSE"
      BY <2>1, FilterType DEF CategoryType
    <3>2. limit \in Optional(Nat \ {0})
      BY ValuesTyped DEF Optional
    <3>3. BreakdownAddsUp(breakdown, limit, TotalByType(f, CategoryType(f)),
                          HighestTotal(f, CategoryType(f)))
      BY <2>1, <3>2, BreakdownOfType
    <3> QED BY <2>2, <3>1, <3>3
  <2>5. SumFunction([p \in DOMAIN months |-> months[p].balance]) = Overview(f).netBalance
    <3> DEFINE balance == [p \in DOMAIN months |-> months[p].balance]
    <3>1. PICK trend : trend = Trend(f, "month") /\ trend = ReportTrend(f, "month")
      BY <2>1, TrendOfFilter
    <3>2. /\ DOMAIN months = DOMAIN trend
          /\ \A p \in DOMAIN trend : months[p].balance = trend[p].income - trend[p].expense
      <4>1. DOMAIN months = DOMAIN trend
        BY <3>1, MonthlyReportsOf
      <4>2. \A p \in DOMAIN trend :
              months[p] = [balance     |-> trend[p].income - trend[p].expense,
                           savingsRate |-> Percent(trend[p].income - trend[p].expense,
                                                   trend[p].income)]
        BY <3>1, MonthlyReportsOf
      <4> HIDE DEF months
      <4> QED BY <4>1, <4>2
    <3> HIDE DEF months
    <3>3. \A p \in DOMAIN trend : balance[p] = trend[p].income - trend[p].expense
      BY <3>2
    <3>4. SumFunction(balance) = SumFunctionOnSet(balance, DOMAIN trend)
      <4>1. DOMAIN balance = DOMAIN trend
        BY <3>2
      <4> HIDE DEF balance
      <4> QED BY <4>1 DEF SumFunction
    <3> HIDE DEF balance
    <3>5. SumFunctionOnSet(balance, DOMAIN trend) = Overview(f).netBalance
      BY <2>1, <3>1, <3>3, BalancesAddUp
    <3>6. SumFunction(balance) = Overview(f).netBalance
      BY <3>4, <3>5
    <3> QED BY <3>6 DEF balance
  <2>6. Overview(f).highestExpense \in highest .. Overview(f).totalExpense
    BY <2>1, <2>2, HighestCategoryBounds
  <2>7. highest > 0 => drilled # {} /\ \A x \in drilled : transactions[x].amount = highest
    BY <2>1, <2>2, DrilledToHighest
  <2> HIDE DEF highest, months, drilled
  <2> QED BY <2>3, <2>4, <2>5, <2>6, <2>7 DEF highest, months, drilled
<1> QED BY <1>1, RowsAlwaysTyped, Invariance, PTL
=============================================================================
