SPECIFICATION FairSpec
CONSTANTS
    p1 = p1
    p2 = p2
    d1 = d1
    d2 = d2
    l1 = l1
    l2 = l2
    None = None
    Procs = {p1}
    DriveFiles = {d1, d2}
    LocalFiles = {l1}
    Whole = {"drive", "local"}
    MaxChanges = 3
    MaxErrors = 1
    Faults = {"apierror", "expired"}
INVARIANTS
    CursorIsHonest
PROPERTIES
    MissingWasAbsent
    ActiveWasThere
    IndexConverges
