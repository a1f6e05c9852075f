SPECIFICATION LiveSpec
CONSTANTS
    MaxSpec = 2
    MaxRuns = 3
    SecondSource = {2}
    CallsFail = FALSE
    MaxEdits = 1
    MaxTurns = 1
    MaxWrites = 1
PROPERTIES
    SpecConverges
    ResultIsReported
CHECK_DEADLOCK FALSE
