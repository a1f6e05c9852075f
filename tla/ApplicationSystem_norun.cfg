SPECIFICATION FairSpec
CONSTANTS
    MaxSpec = 1
    MaxRuns = 3
    SecondSource = {}
    CallsFail = FALSE
    MaxEdits = 0
    MaxTurns = 0
    MaxWrites = 0
PROPERTIES
    CreatedRunsItsWorkflow
CHECK_DEADLOCK FALSE
