SPECIFICATION Spec
CONSTANTS
    w1 = w1
    w2 = w2
    k1 = k1
    k2 = k2
    None = None
    Workers = {w1}
    Processors = {w1}
    Keys = {k1, k2}
    Priority <- MCPriority
    Concurrency = 1
    MaxAttempts = 1
    MaxJobs = 3
    MaxCrashes = 0
    Faults = {"stall", "dberror", "admin"}
INVARIANTS
    DedupMatchesJobs
    SlotsUsedUp
PROPERTIES
    PriorityRespected
CHECK_DEADLOCK FALSE
