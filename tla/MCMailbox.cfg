SPECIFICATION Spec
CONSTANTS
    s1 = s1
    s2 = s2
    s3 = s3
    Senders <- ThreeSenders
    MaxSends = 2
    SocketCapacity = 2
INVARIANTS TypeOK NeverAborts NoLostWakeup SignalsBounded PerSenderFifo Inductive
PROPERTY ImplementsChannel
CHECK_DEADLOCK FALSE
