SPECIFICATION Spec
CONSTANTS
    Sources <- AllSources
    Relations <- RelationConcepts
    Seeds <- TwoSeeds
    IdOrder <- SeedOrder
    Requests <- SeededRequests
    Topics <- AllTopics
    FreezeAfter = 2
    MaxIterations = 25
    MaxRuns = 3
    MaxDisturbances = 1
    Corpora <- FirstCorpora
PROPERTIES EvidenceKept
CHECK_DEADLOCK FALSE
