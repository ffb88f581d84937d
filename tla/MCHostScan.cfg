SPECIFICATION Spec
CONSTANTS
    a = a
    b = b
    skipped = skipped
    Links <- TwoLinks
    ScanTime <- MCScanTime
    TimeOut <- MCTimeOut
    NumThreads = 2
    PlugOutcomes = {"ok", "noSocket"}
    WrapTicks = 16
    KeepUp = TRUE
    MaxReplies = 1
    MaxReadErrors = 0
INVARIANTS Inductive NoDanglingSession DetectedInTime ConnectersComplete
PROPERTIES ReportedWithCause ImplementsMonitor
