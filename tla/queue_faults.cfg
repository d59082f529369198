SPECIFICATION FairSpec
CONSTANTS
    Candidates = {"c1"}
    FreshStatus <- Fresh
    Workers = {"api", "cli"}
    Process <- TwoProcesses
    Requests <- AllRequests
    MaxFaults = 2
INVARIANTS ApprovedIsStored
