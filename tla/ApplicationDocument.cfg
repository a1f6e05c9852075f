SPECIFICATION Spec
CONSTANTS
    Requests = {r1, r2}
    Applications = {a1, a2}
    Names = {n1, n2}
    MaxIds = 2
INVARIANTS
    TypeOK
    DeletedComponentStays
    LostOnlyByOverlap
CHECK_DEADLOCK FALSE
SYMMETRY Symmetry
