SPECIFICATION FairSpec
CONSTANTS
    Pods = {p1, p2, p3}
    MaxLines = 2
INVARIANTS
    TypeOK
    NoSendAfterClose
    ErrorHasCause
    OkHasAResult
    LinesInOrder
PROPERTIES
    Answered
    LeavingEndsRequest
    ErrorEndsRequest
CHECK_DEADLOCK FALSE
