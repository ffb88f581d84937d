SPECIFICATION MCSpec
CONSTANTS
    a = a
    Links <- OneLink
    ScanTime <- MCScanTime
    TimeOut <- MCTimeOut
    NumThreads = 1
    PlugOutcomes = {"ok", "noSocket"}
    WrapTicks = 16
    KeepUp = TRUE
    MaxReplies = 2
    MaxReadErrors = 1
PROPERTIES ImplementsMonitor EverySilenceReported ExitedSessionsDeleted
CHECK_DEADLOCK FALSE
