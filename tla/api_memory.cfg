SPECIFICATION FairSpec
CONSTANTS
    Clients = {"a", "b"}
    Memories = {"m1", "m2"}
    Calls <- DurableCalls
    MaxRetries = 1
    MaxRestarts = 1
INVARIANTS TypeOK PersistedReachedQdrant OutageRecall ComputedIsDurable
PROPERTIES RequestsAnswered
