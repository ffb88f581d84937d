SPECIFICATION Spec
CONSTANTS
    Lengths <- MixedLengths
    MaxPackLen = 8320
    WorkBuffer = 8320
    MsgHeader = 12
    DataHead = 4
    GrowItems = 10
    MaxSends = 8
INVARIANT GrowthAssertHolds
CHECK_DEADLOCK FALSE
