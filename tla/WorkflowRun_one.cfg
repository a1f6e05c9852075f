SPECIFICATION FairSpec
CONSTANTS
    m1 = m1
    Managers = {m1}
    N = 2
    Faults = {"crash", "edit", "delete", "api", "lost"}
    MaxFaults = 1
INVARIANTS
    TypeOK
PROPERTIES
    NoStartAfterFinished
    SequencerSpec
    SequencerProgress
    FinishedEventually
\* Once the run is deleted nothing is left to do.
CHECK_DEADLOCK FALSE
