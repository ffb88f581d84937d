SPECIFICATION Spec
CONSTANTS
    a = a
    b = b
    Sessions = {a, b}
    NumThreads = 2
    MaxReports = 1
INVARIANTS ShutdownSafe EveryCommandDone
PROPERTY ShutdownCompletes
CHECK_DEADLOCK FALSE
