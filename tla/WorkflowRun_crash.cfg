SPECIFICATION FairSpec
CONSTANTS
    m1 = m1
    Managers = {m1}
    N = 1
    Faults = {"crash"}
    MaxFaults = 1
PROPERTIES
    RunsItsActions
