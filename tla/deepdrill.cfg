SPECIFICATION Spec
CONSTANTS
    Sources <- AllSources
    Relations <- RelationConcepts
    Seeds <- TwoSeeds
    IdOrder <- SeedOrder
    Requests <- RunRequests
    Topics <- AllTopics
    FreezeAfter = 2
    MaxIterations = 25
    MaxRuns = 3
    MaxDisturbances = 1
    Corpora <- FirstCorpora
INVARIANTS EvidenceCountedOnce SavedIsOnRecord LowGainUsesUp
PROPERTIES BranchSpec EvidenceKept
CHECK_DEADLOCK FALSE
