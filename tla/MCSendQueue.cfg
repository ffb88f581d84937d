SPECIFICATION Spec
CONSTANTS
    Lengths <- AllLengths
    MaxPackLen = 8320
    WorkBuffer = 8320
    MsgHeader = 12
    DataHead = 4
    GrowItems = 10
    MaxSends = 7
INVARIANTS FifoOrder FailuresKnown Accounted
PROPERTY AllFetched
CHECK_DEADLOCK FALSE
