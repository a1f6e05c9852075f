SPECIFICATION Spec
CONSTANTS
    Requests = {r1, r2, r3}
    MaxEdits = 2
    MaxStatusWrites = 1
    MaxFaults = 1
INVARIANTS
    TypeOK
PROPERTIES
    ReplacesWhatItRead
    RollbackNeedsOverlap
CHECK_DEADLOCK FALSE
