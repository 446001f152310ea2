SPECIFICATION Spec
CONSTANTS
    p1 = p1
    p2 = p2
    d1 = d1
    d2 = d2
    l1 = l1
    l2 = l2
    None = None
    Procs = {p1}
    DriveFiles = {d1}
    LocalFiles = {l1, l2}
    Whole = {"drive", "local"}
    MaxChanges = 1
    MaxErrors = 0
    Faults = {"race"}
SYMMETRY FileSymmetry
PROPERTIES
    MissingWasAbsent
