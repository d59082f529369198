SPECIFICATION ServicesSpec
CONSTANTS
    Points <- SomePoints
    PageSize = 2
    ScanCap = 5
    ScanRequests <- SomeScans
    MaxWrites = 2
    Kinds = {"note", "chat"}
    Filters = {"p"}
    FirstStocks <- OneMatches
    StatsCalls = {"a", "b"}
    FieldTTL = 1
    AnswerTTL = 1
    Fallback = TRUE
    MaxTime = 3
    MaxStirs = 1
    Keys = {"k"}
    Handlers = {"h1", "h2"}
    Cost = 2
    Burst = 8
    GCEvery = 1
    IdleAfter = 5
    Skew = 1
    MaxClock = 7
    Sessions = {"a b", "a_b", "c"}
    Safe <- SafeIds
    Requests = {"r1", "r2"}
    MaxTurns = 2
    MaxFaults = 2
    Processes = {"api", "cli"}
    ResearchIDs = {"s"}
    Slots = {1, 2}
    Corpora = {"c1"}
    Found <- SomeFinds
    MaxCalls = 3
    MaxCrashes = 2
    Files <- SomeFiles
    Scopes <- SomeScopes
    StoredRoles = {"user", "assistant"}
    Mapped = {1, 2, 3, 5}
    OnDisk = {1, 2, 3, 4}
    Images = {1, 3, 4}
    MaxCaptions = 3
    MaxBreaks = 2
    Threads <- SomeThreads
    ClaudeRoles = {"user"}
    Archives <- SomeArchives
    Proposals <- SomeProposals
    Queries <- SomeQueries
    Similarity = 10
    QueryWords = 2
    RankConstant = 4
    PoolFloor = 4
    PoolCap = 5
    Harvests <- SomeHarvests
    General = 1
    Fact = 1
    Unknown = 1
    User = 2
    DecisionProjects = {3}
    DecisionKinds = {4}
    MaxClusterSize = 4
    ChunkJobs <- SomeJobs
    Memories <- SomeReflected
    Commands <- SomeCommands
    Starts <- SomeStarts
    SourcePage = 2
    MaxMishaps = 1
    MaxArrivals = 1
CHECK_DEADLOCK FALSE
INVARIANTS
    ScanFindsAll NeighborsHaveNoHole StatsSettle NeverOverspent
    ChatMemoryKept LedgerAccountsForSources SearchesOnRecord
    ParsedIsWhole DoneIsCaptioned ThreadOrder
    RecallExplained OverlapFirst
    FactsSurvive DirectStatementsAreTheUsers NothingIsCutAway EachReflectedOnce
PROPERTIES CaptionsStay
