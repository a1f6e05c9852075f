SPECIFICATION FairSpec
CONSTANTS
    MaxSpec = 2
    MaxRuns = 0
    Resources = 4
    Order <- Rendering
    Annotations = {TRUE, FALSE}
    MaxFaults = 2
INVARIANTS
    TypeOK
    RecordedBeforeApplied
PROPERTIES
    AppliedInOrder
    DeployedEventually
