SPECIFICATION Spec
CONSTANTS
  MonthsPerYear = 2
  DaysOfMonth <- DaysOf
  DaysPerWeek = 2
  InstantsPerDay = 2
  CurrentYear = 1
  None = None
  x1 = x1
  x2 = x2
  x3 = x3
  k1 = k1
  k2 = k2
  TransactionId = {x1, x2, x3}
  CategoryId = {k1, k2}
  Amount = {1, 2}
  CreatedAt <- Boundaries
  Year = {0, 1}
  DateValues <- Dates
  Filters <- FiltersSent
  Limits = {1, 2, 3}
  RequestFilters <- FiltersMeetingWrites
  BusyRows <- RowsMeetingRequests
  MaxWrites <- WritesMet
SYMMETRY Symmetry
INVARIANTS
  TypeOK
  DashboardAgreesWithReports
  MonthsPartitionYears
  TrendMatchesMonths
  CashFlowEndsAtNetBalance
  ChartsAddUp
  UnknownNeedsTwoWrites
  FiguresDriftByWrites
