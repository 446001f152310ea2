\* Two administrators, one page each: a third write is enough.
SPECIFICATION Spec
CONSTANTS
    Admins = {"c1", "c2"}
    MaxWritten = 3
    MaxResets = 0
PROPERTIES
    ConflictsAreRefused
CHECK_DEADLOCK FALSE
