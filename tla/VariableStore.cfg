SPECIFICATION FairSpec
CONSTANTS
    Servers = {s1, s2}
    Requests = {r1, r2}
    Names = {n1}
    MaxVariables = 2
    MaxKeys = 4
    MaxFaults = 1
INVARIANTS
    TypeOK
    Decryptable
    DuplicatesOverlap
PROPERTY
    EveryServerUp
CHECK_DEADLOCK FALSE
