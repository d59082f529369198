SPECIFICATION StatsSpec
CONSTANTS
    Kinds = {"note", "chat"}
    Filters = {"p", "q"}
    FirstStocks <- OwnFilters
    StatsCalls = {"a"}
    FieldTTL = 1
    AnswerTTL = 1
    Fallback = FALSE
    MaxTime = 3
    MaxStirs = 0
CHECK_DEADLOCK FALSE
INVARIANTS FilteredStatsExact
