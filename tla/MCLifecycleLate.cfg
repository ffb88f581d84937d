SPECIFICATION Spec
CONSTANTS
    a = a
    b = b
    Sessions = {a, b}
    NumThreads = 2
    MaxReports = 1
INVARIANT NoLateUse
CHECK_DEADLOCK FALSE
