SPECIFICATION Spec
CONSTANTS
    a = a
    b = b
    Hosts = {a, b}
    IoThreads = {1, 2}
    ThreadOf <- TwoThreads
    Pids = {65535}
    IdSpace = 65536
    OtherId = 9
    Halfway <- NoHost
    MaxPackets = 2
INVARIANT CreditedToSender
CHECK_DEADLOCK FALSE
