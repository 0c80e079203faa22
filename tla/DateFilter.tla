----------------------------- MODULE DateFilter -----------------------------
(***************************************************************************)
(* The date filters of DashboardService and ReportsService: startDate and  *)
(* endDate, or month and year, as a range of createdAt.                    *)
(*                                                                         *)
(* Time is counted in instants of a small calendar, as milliseconds are in *)
(* the real one: a year has months of given lengths, and is never leap.    *)
(*                                                                         *)
(* Name_Fault is the definition Name with a plausible mistake in it; it is *)
(* not used below, and shows what the property named for it rules out.     *)
(***************************************************************************)
EXTENDS Integers, Functions

CONSTANTS MonthsPerYear, DaysOfMonth,   \* DaysOfMonth: 0-based month -> days
          DaysPerWeek, InstantsPerDay,
          CurrentYear,                  \* new Date().getUTCFullYear()
          None                          \* a field left out

ASSUME CalendarTyped ==
  /\ MonthsPerYear \in Nat \ {0} /\ DaysPerWeek \in Nat \ {0} /\ InstantsPerDay \in Nat \ {0}
  /\ DaysOfMonth \in [0 .. MonthsPerYear - 1 -> Nat \ {0}]
  /\ CurrentYear \in Nat

\* Days from the start of a year to its 0-based month m.
DaysBefore(m) == SumFunctionOnSet(DaysOfMonth, 0 .. m - 1)

DaysOfYear == DaysBefore(MonthsPerYear)

\* Date.UTC(year, month, 1): months past the last run into the next year.
UTC(year, month) ==
  InstantsPerDay * ((year + month \div MonthsPerYear) * DaysOfYear
                    + DaysBefore(month % MonthsPerYear))

\* A value is a day ("2026-05-31", at its first instant) or any instant.
DateValue(Instants) == [at : Instants, dateOnly : BOOLEAN]

ParseDate(value, endOfDay) ==
  IF endOfDay /\ value.dateOnly THEN value.at + InstantsPerDay - 1 ELSE value.at

MonthRange_EndIncluded(year, month) == [gte |-> UTC(year, month - 1), lte |-> UTC(year, month)]
MonthRange_OneBased(year, month) == [gte |-> UTC(year, month), lte |-> UTC(year, month + 1) - 1]
MonthRange(year, month) == [gte |-> UTC(year, month - 1), lte |-> UTC(year, month) - 1]
YearRange(year)         == [gte |-> UTC(year, 0), lte |-> UTC(year + 1, 0) - 1]

\* Without explicit dates; a month without a year is one of the current year.
CalendarRange(f) ==
  LET year == IF f.year = None THEN CurrentYear ELSE f.year
  IN CASE f.month # None -> MonthRange(year, f.month)
       [] f.month = None /\ f.year # None -> YearRange(year)
       [] OTHER -> [gte |-> None, lte |-> None]

Dated(f) == f.startDate # None \/ f.endDate # None

\* Explicit dates come before month and year.
ToDateRange(f) ==
  IF Dated(f)
  THEN [gte |-> IF f.startDate = None THEN None ELSE ParseDate(f.startDate, FALSE),
        lte |-> IF f.endDate = None THEN None ELSE ParseDate(f.endDate, TRUE)]
  ELSE CalendarRange(f)

\* The reports spell out the first instant of a day, too.
ReportParseDate(value, endOfDay) ==
  LET start == (value.at \div InstantsPerDay) * InstantsPerDay
  IN IF ~value.dateOnly THEN value.at
     ELSE IF endOfDay THEN start + InstantsPerDay - 1 ELSE start

\* The second copy of the calendar's ranges.
ReportCalendarRange(f) ==
  LET year == IF f.year = None THEN CurrentYear ELSE f.year
  IN CASE f.month # None -> [gte |-> UTC(year, f.month - 1), lte |-> UTC(year, f.month) - 1]
       [] f.month = None /\ f.year # None -> [gte |-> UTC(year, 0), lte |-> UTC(year + 1, 0) - 1]
       [] OTHER -> [gte |-> None, lte |-> None]

ReportDateRange(f) ==
  IF Dated(f)
  THEN [gte |-> IF f.startDate = None THEN None ELSE ReportParseDate(f.startDate, FALSE),
        lte |-> IF f.endDate = None THEN None ELSE ReportParseDate(f.endDate, TRUE)]
  ELSE ReportCalendarRange(f)

Within(range, t) == /\ range.gte = None \/ t >= range.gte
                    /\ range.lte = None \/ t <= range.lte

\* ensureDateRangeOrder, which only the reports have.
InOrder(range) == range.gte # None /\ range.lte # None => range.gte <= range.lte

\* date_trunc of PostgreSQL.
DateTrunc(unit, t) ==
  LET day   == t \div InstantsPerDay
      year  == day \div DaysOfYear
      month == CHOOSE m \in 0 .. MonthsPerYear - 1 :
                 UTC(year, m) <= t /\ t < UTC(year, m + 1)
  IN CASE unit = "day"   -> day * InstantsPerDay
       [] unit = "week"  -> (day - (day % DaysPerWeek)) * InstantsPerDay
       [] unit = "month" -> UTC(year, month)
=============================================================================
