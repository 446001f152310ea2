SPECIFICATION FairSpec
CONSTANTS
    w1 = w1
    w2 = w2
    k1 = k1
    k2 = k2
    None = None
    Workers = {w1, w2}
    Processors = {w1, w2}
    Keys = {k1}
    Priority <- MCPriority
    Concurrency = 1
    MaxAttempts = 2
    MaxJobs = 2
    MaxCrashes = 0
    Faults = {}
INVARIANTS
    ExclusiveExecution
    QueuedIsHeld
PROPERTIES
    JobsSettle
    KeysAreFreed
CHECK_DEADLOCK FALSE
