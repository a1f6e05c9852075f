SPECIFICATION SafeSpec
CONSTANTS
    MaxSpec = 3
    MaxRuns = 2
    SecondSource = {2}
    CallsFail = TRUE
    MaxEdits = 2
    MaxTurns = 0
    MaxWrites = 1
INVARIANT
    TypeOK
PROPERTIES
    SourceMovesWithRun
    LabelNamesNewest
    ReportsLabelledRun
CHECK_DEADLOCK FALSE
VIEW StateView
