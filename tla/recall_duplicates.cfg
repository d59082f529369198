SPECIFICATION RecallSpec
CONSTANTS
    Archives <- SomeArchives
    Proposals <- SomeProposals
    Queries <- SomeQueries
    Similarity = 10
    QueryWords = 2
    RankConstant = 4
    PoolFloor = 4
    PoolCap = 5
CHECK_DEADLOCK FALSE
INVARIANTS BestOfDuplicates
