SPECIFICATION AggregatorSpec
CONSTANTS
    a1 = a1
    a2 = a2
    p1 = p1
    p2 = p2
    Aliases = {a1, a2}
    Providers = {p1, p2}
    HoursPerDay = 2
    DaysPerMonth = 1
    FirstMonths = 0
    MonthsAhead = 1
    MaxHour = 5
    MaxRows = 2
    MaxFailures = 1
SYMMETRY Sym
CHECK_DEADLOCK FALSE
INVARIANTS StatsAreExact UsageIsExact RefusedAfterLongOutage
