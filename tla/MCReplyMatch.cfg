SPECIFICATION Spec
CONSTANTS
    a = a
    b = b
    Hosts = {a, b}
    IoThreads = {1, 2}
    ThreadOf <- TwoThreads
    Pids = {65535, 65543}
    IdSpace = 65536
    OtherId = 9
    Halfway <- AnyText
    MaxPackets = 2
INVARIANTS RepliesSound OwnRepliesCount
CHECK_DEADLOCK FALSE
