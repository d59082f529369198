SPECIFICATION FairSpec
CONSTANTS
    Candidates = {"c1", "c2"}
    FreshStatus <- Fresh
    Workers = {"api", "cli"}
    Process <- OneProcess
    Requests <- AllRequests
    MaxFaults = 0
INVARIANTS TypeOK
PROPERTIES SerialQueue CallsReturn
