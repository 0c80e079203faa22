------------------------------ MODULE Figures -------------------------------
(***************************************************************************)
(* The figures DashboardService and ReportsService compute, and the        *)
(* requests that need more than one statement for an answer: category      *)
(* totals, whose names are looked up after the grouping, and the overview  *)
(* and the export preview, whose statements run in any order.  Other       *)
(* requests change the tables between the statements.                      *)
(*                                                                         *)
(* One user's rows: every query is scoped to the user.  Amounts are whole  *)
(* numbers; an average is a sum with its count.  What a request answered   *)
(* is not kept: the properties speak of it while its last statement is     *)
(* still to run.                                                           *)
(*                                                                         *)
(* Name_Fault is the definition Name with a plausible mistake in it; it is *)
(* not used below, and shows what the property named for it rules out.     *)
(***************************************************************************)
EXTENDS DateFilter, FiniteSetsExt

CONSTANTS TransactionId, CategoryId,
          Amount, CreatedAt,   \* values of these columns
          Year,                \* years that CreatedAt lies in
          DateValues,          \* values of startDate and endDate clients send
          Filters,             \* filters clients send
          Limits,              \* limits clients send with a grouping by category
          RequestFilters,      \* bound: those of the requests that meet writes
          BusyRows,            \* bound: the rows there are while one is in flight
          MaxWrites            \* bound: writes of others during a request of each kind

VARIABLES categories,    \* ids in the table "Category"
          transactions,  \* table "Transaction": id -> row, or None
          req            \* the request in flight

vars == <<categories, transactions, req>>

Type        == {"INCOME", "EXPENSE"}
Unit        == {"day", "week", "month"}
Optional(S) == S \cup {None}

Row    == [category : CategoryId, type : Type, amount : Amount, createdAt : CreatedAt]
Filter == [startDate : Optional(DateValues), endDate : Optional(DateValues),
           month     : Optional(1 .. MonthsPerYear), year : Optional(Year),
           type      : Optional(Type), category : Optional(CategoryId)]

NoFilter == [startDate |-> None, endDate |-> None, month |-> None, year |-> None,
             type |-> None, category |-> None]

\* The statements a request sends at once, with Promise.all.
Statements ==
  [idle           |-> {},
   findCategories |-> {},
   overview       |-> {"totalIncome", "totalExpense", "transactionCount", "averageExpense",
                       "highestExpense", "highestIncome"},
   exportPreview  |-> {"aggregates", "count"}]

\* figures: what the statements that ran so far returned; writes: how often others
\* wrote since the request began.
Idle == [at |-> "idle", filter |-> NoFilter, grouped |-> {}, figures |-> <<>>, writes |-> 0]

ASSUME ValuesTyped == /\ Amount \subseteq Nat \ {0} /\ CreatedAt \subseteq Nat /\ Year \subseteq Nat
                      /\ DateValues \subseteq DateValue(Nat)
                      /\ \A v \in DateValues : v.dateOnly => v.at % InstantsPerDay = 0
                      /\ Filters \subseteq Filter /\ RequestFilters \subseteq Filters
                      /\ Limits \subseteq Nat \ {0}
                      /\ BusyRows \subseteq Row
                      /\ MaxWrites \in [DOMAIN Statements \ {"idle"} -> Nat]
                      /\ IsFiniteSet(TransactionId) /\ IsFiniteSet(CategoryId)
                      /\ IsFiniteSet(Year) /\ IsFiniteSet(Amount) /\ Amount # {}
                      /\ \A t \in CreatedAt : \E y \in Year : Within(YearRange(y), t)
                      /\ None \notin CategoryId /\ None \notin Row /\ None \notin Type
                      /\ None \notin Int

FigureTyped(s, value) ==
  IF s = "averageExpense" THEN value \in [sum : Nat, of : Nat] ELSE value \in Nat

TypeOK == /\ categories \subseteq CategoryId
          /\ transactions \in [TransactionId -> Optional(Row)]
          /\ DOMAIN req = DOMAIN Idle
          /\ req.at \in DOMAIN Statements
          /\ req.filter \in Filter
          /\ req.grouped \subseteq CategoryId
          /\ DOMAIN req.figures \subseteq Statements[req.at]
          /\ DOMAIN req.figures # {} => DOMAIN req.figures # Statements[req.at]
          /\ \A s \in DOMAIN req.figures : FigureTyped(s, req.figures[s])
          /\ IF req.at = "idle" THEN req = Idle ELSE req.writes \in 0 .. MaxWrites[req.at]

Init == /\ categories = {}
        /\ transactions = [x \in TransactionId |-> None]
        /\ req = Idle

-----------------------------------------------------------------------------
(* Aggregates over a set of transactions, as PostgreSQL computes them      *)

Total(S)   == SumFunction([x \in S |-> transactions[x].amount])
Mean(S)    == [sum |-> Total(S), of |-> Cardinality(S)]
Highest(S) == IF S = {} THEN 0 ELSE Max({transactions[x].amount : x \in S})
OfType(S, type) == {x \in S : transactions[x].type = type}

Matching(range, type, category) ==
  {x \in TransactionId :
     /\ transactions[x] # None
     /\ type \in {None, transactions[x].type}
     /\ category \in {None, transactions[x].category}
     /\ Within(range, transactions[x].createdAt)}

\* A percentage: a part with the whole it is a share of, nothing of nothing.
Percent(part, whole) == [part |-> IF whole > 0 THEN part ELSE 0, whole |-> whole]

\* GROUP BY period, type.
PeriodTotals(rows, unit) ==
  LET period == [x \in rows |-> DateTrunc(unit, transactions[x].createdAt)]
  IN {[period |-> period[x], type |-> transactions[x].type,
       total  |-> Total({y \in OfType(rows, transactions[x].type) : period[y] = period[x]})] :
        x \in rows}

\* toPeriodMap of the dashboard, toPeriodTotals of the reports.
PeriodMap(items) ==
  [p \in {item.period : item \in items} |->
     LET of(type) == SumFunction([item \in {i \in items : i.period = p /\ i.type = type}
                                    |-> item.total])
     IN [income |-> of("INCOME"), expense |-> of("EXPENSE")]]

\* toCashFlow, in either module: the periods come in ascending order, the balance
\* runs on.
CashFlow_PerPeriod(trend) == [p \in DOMAIN trend |-> trend[p].income - trend[p].expense]
CashFlow(trend) ==
  [p \in DOMAIN trend |-> SumFunction([q \in {r \in DOMAIN trend : r <= p}
                                         |-> trend[q].income - trend[q].expense])]

\* toCategoryChart, toCategoryBreakdown: shares of the total of what was grouped.
Shares(totals) ==
  LET all == SumFunction(totals)
  IN [k \in DOMAIN totals |-> Percent(totals[k], all)]

-----------------------------------------------------------------------------
(* DashboardService                                                        *)

\* toDashboardQuery and buildWhere; type overrides the filter's.
Where(f, type) == Matching(ToDateRange(f), type, f.category)

RecentTransactions(f) == Where(f, f.type)

TotalByType_AnyFilter(f, type) == Total(Where(f, type))
TotalByType(f, type) == IF f.type \in {None, type} THEN Total(Where(f, type)) ELSE 0

AverageExpense(f) == IF f.type = "INCOME" THEN Mean({}) ELSE Mean(Where(f, "EXPENSE"))

CountTransactions(f) == Cardinality(Where(f, f.type))

\* getCategoryTotals' grouping; the type is the query's own or the filter's.
Grouped(f, type) ==
  IF f.type \in {None, type} THEN {transactions[x].category : x \in Where(f, type)} ELSE {}

CategoryTotal(f, type, k) == Total({x \in Where(f, type) : transactions[x].category = k})

CategoryTotals(f, type) == [k \in Grouped(f, type) |-> CategoryTotal(f, type, k)]

\* orderBy total desc.
ComesFirst_Ascending(total, other) == total <= other
ComesFirst(total, other)           == total >= other

\* take: the groups a limit leaves; which of those of equal totals is open.
Top(limit, totals) ==
  LET all == DOMAIN totals
      taken == IF limit = None THEN Cardinality(all) ELSE Min({limit, Cardinality(all)})
  IN {top \in SUBSET all : /\ Cardinality(top) = taken
                          /\ \A k \in top, l \in all \ top : ComesFirst(totals[k], totals[l])}

\* getHighestCategoryByType: the total of one group, or null.
HighestTotal(f, type) ==
  LET totals == CategoryTotals(f, type)
      top == CHOOSE t \in Top(1, totals) : TRUE
  IN SumFunction([k \in top |-> totals[k]])

Overview(f) ==
  LET income == TotalByType(f, "INCOME")
      expense == TotalByType(f, "EXPENSE")
  IN [totalIncome |-> income, totalExpense |-> expense, netBalance |-> income - expense,
      savingsRate |-> Percent(income - expense, income),
      transactionCount |-> CountTransactions(f), averageExpense |-> AverageExpense(f),
      highestExpense |-> HighestTotal(f, "EXPENSE"), highestIncome |-> HighestTotal(f, "INCOME")]

\* getTrend and toTrend.
Trend(f, unit) == PeriodMap(PeriodTotals(Where(f, f.type), unit))

\* getExpenseByCategory, which takes no limit.
CategoryChart(f) == Shares(CategoryTotals(f, "EXPENSE"))

-----------------------------------------------------------------------------
(* ReportsService                                                          *)

\* toReportQuery and buildWhere.
ReportWhere(f) == Matching(ReportDateRange(f), f.type, f.category)

\* toAmountRange; one out of order (InOrder) is refused.
AmountRange(min, max) == [gte |-> min, lte |-> max]

Listed(f, amountRange) == {x \in ReportWhere(f) : Within(amountRange, transactions[x].amount)}

CountReported_OfAnyType(f) == Cardinality(Matching(ReportDateRange(f), None, f.category))
CountReported(f)           == Cardinality(ReportWhere(f))

\* getSummaryAggregates, one statement, and toFinancialSummary.
Summary(f) ==
  LET income == OfType(ReportWhere(f), "INCOME")
      expense == OfType(ReportWhere(f), "EXPENSE")
      net == Total(income) - Total(expense)
  IN [totalIncome |-> Total(income), totalExpense |-> Total(expense),
      netBalance |-> net, savingsRate |-> Percent(net, Total(income)),
      totalTransactions |-> Cardinality(income) + Cardinality(expense),
      averageIncome |-> Mean(income), averageExpense |-> Mean(expense),
      highestIncome |-> Highest(income), highestExpense |-> Highest(expense)]

\* getPeriodTotals.
ReportTrend(f, unit) == PeriodMap(PeriodTotals(ReportWhere(f), unit))

\* toSpendingTrend and toMonthlyReports: each period's own balance.
SpendingTrend(trend) ==
  [p \in DOMAIN trend |-> [income  |-> trend[p].income, expense |-> trend[p].expense,
                           balance |-> trend[p].income - trend[p].expense]]
MonthlyReports(f) ==
  LET months == SpendingTrend(ReportTrend(f, "month"))
  IN [p \in DOMAIN months |-> [balance     |-> months[p].balance,
                               savingsRate |-> Percent(months[p].balance, months[p].income)]]

\* toCategoryQuery: without a type, expenses.
CategoryType(f) == IF f.type = None THEN "EXPENSE" ELSE f.type

\* getCategoryTotals' grouping.
ReportCategoryTotals(f) ==
  LET rows == ReportWhere([f EXCEPT !.type = CategoryType(f)])
  IN [k \in {transactions[x].category : x \in rows} |->
        Total({x \in rows : transactions[x].category = k})]

\* getCategoryBreakdown: the answers there may be.  Shares are of what the limit leaves.
CategoryBreakdowns(f, limit) ==
  LET totals == ReportCategoryTotals(f)
  IN {Shares([k \in top |-> totals[k]]) : top \in Top(limit, totals)}

-----------------------------------------------------------------------------
(* Requests of several statements                                          *)

Begin(r) == /\ req.at = "idle"
            /\ \A x \in TransactionId : transactions[x] \in Optional(BusyRows)
            /\ req' = r
            /\ UNCHANGED <<categories, transactions>>

\* getCategoryTotals, in either module: the grouping.
GetCategoryTotals(f, type, limit) ==
  \E top \in Top(limit, CategoryTotals(f, type)) :
    Begin(IF top = {} THEN Idle
          ELSE [Idle EXCEPT !.at = "findCategories", !.filter = f, !.grouped = top])

GetExpenseByCategory(f) == GetCategoryTotals(f, "EXPENSE", None)

\* getTopCategories, in either module, and getCategoryBreakdown.
GetTopCategories(f, limit) == GetCategoryTotals(f, CategoryType(f), limit)

\* Their names; a category that is gone is "Unknown".
Unknown == req.grouped \ categories

FindCategories ==
  /\ req.at = "findCategories"
  /\ req' = Idle
  /\ UNCHANGED <<categories, transactions>>

GetOverview(f) == Begin([Idle EXCEPT !.at = "overview", !.filter = f])

\* A range out of order is refused.
GetExportPreview(f) ==
  /\ InOrder(ReportDateRange(f))
  /\ Begin([Idle EXCEPT !.at = "exportPreview", !.filter = f])

\* What statement s returns; of an export's aggregates, the count.
Returned(s, f) ==
  CASE s = "totalIncome"      -> TotalByType(f, "INCOME")
    [] s = "totalExpense"     -> TotalByType(f, "EXPENSE")
    [] s = "transactionCount" -> CountTransactions(f)
    [] s = "averageExpense"   -> AverageExpense(f)
    [] s = "highestExpense"   -> HighestTotal(f, "EXPENSE")
    [] s = "highestIncome"    -> HighestTotal(f, "INCOME")
    [] s = "aggregates"       -> Summary(f).totalTransactions
    [] s = "count"            -> CountReported(f)

Answered_NotYet(r) == r
Answered(r) == IF DOMAIN r.figures = Statements[r.at] THEN Idle ELSE r

\* Promise.all: the statements run in any order.  The lookup of the name that follows
\* a highest category's grouping is FindCategories', and changes no figure.
Statement(s) ==
  /\ s \in Statements[req.at] \ DOMAIN req.figures
  /\ req' = Answered([req EXCEPT !.figures =
               [t \in DOMAIN req.figures \cup {s} |->
                  IF t = s THEN Returned(s, req.filter) ELSE req.figures[t]]])
  /\ UNCHANGED <<categories, transactions>>

-----------------------------------------------------------------------------
(* Writes of other requests, each at once (see LedgerContract)             *)

Write(row, x) ==
  /\ transactions' = [transactions EXCEPT ![x] = row]
  /\ UNCHANGED categories

NotReferenced_NoForeignKey(k) == TRUE
NotReferenced(k) ==
  \A x \in TransactionId : transactions[x] # None => transactions[x].category # k

WriteOfOthers ==
  /\ \/ \E x \in TransactionId, row \in IF req.at = "idle" THEN Row ELSE BusyRows :
          /\ row.category \in categories
          /\ transactions[x] # None => row.createdAt = transactions[x].createdAt
          /\ transactions[x] # row
          /\ Write(row, x)
     \/ \E x \in TransactionId : transactions[x] # None /\ Write(None, x)
     \/ \E k \in CategoryId \ categories :
          categories' = categories \cup {k} /\ UNCHANGED transactions
     \/ \E k \in categories :
          NotReferenced(k) /\ categories' = categories \ {k} /\ UNCHANGED transactions
  /\ \/ req.at = "idle" /\ UNCHANGED req
     \/ /\ req.at # "idle"
        /\ req.writes < MaxWrites[req.at]
        /\ req' = [req EXCEPT !.writes = @ + 1]

Next == \/ \E f \in RequestFilters : \/ GetExpenseByCategory(f)
                                     \/ \E limit \in Optional(Limits) : GetTopCategories(f, limit)
                                     \/ GetOverview(f)
                                     \/ GetExportPreview(f)
        \/ FindCategories
        \/ \E s \in UNION {Statements[r] : r \in DOMAIN Statements} : Statement(s)
        \/ WriteOfOthers

Spec == Init /\ [][Next]_vars

-----------------------------------------------------------------------------
(* Properties: figures of one state of the tables                          *)

\* The totals, counts, averages and savings rates of the two modules agree under every
\* filter the reports do not refuse, although one queries by type and the other groups
\* by it; and both list the transactions those figures are of.
DashboardAgreesWithReports ==
  req = Idle =>
    \A f \in Filters :
      InOrder(ReportDateRange(f)) =>
        LET overview == Overview(f)
            summary == Summary(f)
            listed == Listed(f, AmountRange(None, None))
        IN /\ overview.totalIncome = summary.totalIncome
           /\ overview.totalExpense = summary.totalExpense
           /\ overview.savingsRate = summary.savingsRate
           /\ overview.transactionCount = summary.totalTransactions
           /\ overview.averageExpense = summary.averageExpense
           /\ RecentTransactions(f) = listed
           /\ summary.netBalance = Total(OfType(listed, "INCOME")) - Total(OfType(listed, "EXPENSE"))

InYear(year)         == [NoFilter EXCEPT !.year = year]
InMonth(year, month) == [NoFilter EXCEPT !.year = year, !.month = month]

\* Every transaction counts in exactly one year and one month of it: none is lost
\* between the last instant of one and the first of the next, none counts twice.
MonthsPartitionYears ==
  req = Idle =>
    /\ SumFunction([y \in Year |-> CountTransactions(InYear(y))]) = CountTransactions(NoFilter)
    /\ \A y \in Year :
         SumFunction([m \in 1 .. MonthsPerYear |-> CountTransactions(InMonth(y, m))])
           = CountTransactions(InYear(y))

\* The bars of the monthly chart, cut by the database, are the totals of the month
\* filter, cut by the service; so are the balances of the monthly report.
TrendMatchesMonths ==
  req = Idle =>
    LET trend == Trend(NoFilter, "month")
        reports == MonthlyReports(NoFilter)
    IN \A y \in Year, m \in 1 .. MonthsPerYear :
         LET period == DateTrunc("month", UTC(y, m - 1))
             overview == Overview(InMonth(y, m))
         IN IF period \in DOMAIN trend
            THEN /\ trend[period] = [income  |-> overview.totalIncome,
                                     expense |-> overview.totalExpense]
                 /\ reports[period] = [balance     |-> overview.netBalance,
                                       savingsRate |-> overview.savingsRate]
            ELSE overview.transactionCount = 0

\* The running balance ends at the net balance of the same filter, by whatever unit
\* it runs.
CashFlowEndsAtNetBalance ==
  req = Idle =>
    \A f \in Filters, unit \in Unit :
      LET flow == CashFlow(Trend(f, unit))
      IN DOMAIN flow # {} => flow[Max(DOMAIN flow)] = Overview(f).netBalance

\* A breakdown by category adds up: its slices, no more than the limit, share what they
\* add up to.  That is all of the total, unless the limit cuts it off; and the largest
\* slice is the highest category, whatever the limit.
BreakdownAddsUp(breakdown, limit, total, highest) ==
  LET parts == [k \in DOMAIN breakdown |-> breakdown[k].part]
      slices == Cardinality(DOMAIN breakdown)
  IN /\ \A k \in DOMAIN breakdown : breakdown[k].whole = SumFunction(parts)
     /\ SumFunction(parts) <= total
     /\ limit = None \/ slices < limit => SumFunction(parts) = total
     /\ limit # None => slices <= limit
     /\ Max({0} \cup {parts[k] : k \in DOMAIN breakdown}) = highest

\* The charts add up to the overview's figures: the dashboard's chart shares its total
\* of expenses and the report's breakdown, by its limit, that of its type; the monthly
\* balances add up to the net balance, the highest category has spent at least the
\* highest expense, and the expenses listed from that amount up are those of that
\* amount.
ChartsAddUp ==
  req = Idle =>
    \A f \in Filters :
      InOrder(ReportDateRange(f)) =>
        LET overview == Overview(f)
            highest == Summary(f).highestExpense
            chart == CategoryChart(f)
            months == MonthlyReports(f)
            drilled == Listed([f EXCEPT !.type = "EXPENSE"], AmountRange(highest, None))
        IN /\ \A k \in DOMAIN chart : chart[k].whole = overview.totalExpense
           /\ DOMAIN chart = {} <=> overview.totalExpense = 0
           /\ \A limit \in Optional(Limits) : \A breakdown \in CategoryBreakdowns(f, limit) :
                IF f.type = "INCOME"
                THEN BreakdownAddsUp(breakdown, limit, overview.totalIncome, overview.highestIncome)
                ELSE BreakdownAddsUp(breakdown, limit, overview.totalExpense, overview.highestExpense)
           /\ SumFunction([p \in DOMAIN months |-> months[p].balance]) = overview.netBalance
           /\ overview.highestExpense \in highest .. overview.totalExpense
           /\ highest > 0 => /\ drilled # {}
                             /\ \A x \in drilled : transactions[x].amount = highest

-----------------------------------------------------------------------------
(* Properties: requests that meet writes                                   *)

\* A category of the chart is "Unknown" only after two writes between the grouping
\* and the lookup: the foreign key keeps it until its transactions are gone.
UnknownNeedsTwoWrites == req.at = "findCategories" /\ req.writes < 2 => Unknown = {}

\* What the other module makes of the same transactions.
HighestReported(f, type) ==
  LET rows == IF f.type \in {None, type} THEN OfType(ReportWhere(f), type) ELSE {}
  IN Max({0} \cup {Total({x \in rows : transactions[x].category = k}) : k \in CategoryId})

Counterpart(s, f) ==
  CASE s = "totalIncome"      -> Summary(f).totalIncome
    [] s = "totalExpense"     -> Summary(f).totalExpense
    [] s = "transactionCount" -> Summary(f).totalTransactions
    [] s = "averageExpense"   -> Summary(f).averageExpense
    [] s = "highestExpense"   -> HighestReported(f, "EXPENSE")
    [] s = "highestIncome"    -> HighestReported(f, "INCOME")
    [] s = "aggregates"       -> CountReported(f)
    [] s = "count"            -> Summary(f).totalTransactions

\* How far statement s may have moved in so many writes: by one for each if it counts,
\* by the largest amount if it adds.
Near(x, y, drift) == x \in y - drift .. y + drift

Drifted(s, was, now, writes) ==
  LET amount == Max(Amount) * writes
  IN CASE s = "averageExpense" -> Near(was.sum, now.sum, amount) /\ Near(was.of, now.of, writes)
       [] s \in {"transactionCount", "aggregates", "count"} -> Near(was, now, writes)
       [] OTHER -> Near(was, now, amount)

\* The six figures of an overview, and the two of an export preview, may each be of
\* another state of the tables; but none is further from what the other module would
\* answer now than the writes since the request began can have moved it.
FiguresDriftByWrites ==
  \A s \in DOMAIN req.figures :
    Drifted(s, req.figures[s], Counterpart(s, req.filter), req.writes)
=============================================================================
