SPECIFICATION Spec
CONSTANTS
    m1 = m1
    m2 = m2
    Managers = {m1, m2}
    N = 1
    Faults = {"crash", "edit", "delete", "api", "lost"}
    MaxFaults = 2
INVARIANTS
    StartedInOrderOnce
    FinishedIsTrue
PROPERTIES
    FinishedIsFinal
SYMMETRY ManagerSymmetry
\* Once the run is deleted nothing is left to do.
CHECK_DEADLOCK FALSE
