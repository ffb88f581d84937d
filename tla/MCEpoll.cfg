SPECIFICATION Spec
CONSTANTS
    m = m
    a = a
    b = b
    none = none
    e1 = e1
    e2 = e2
    e3 = e3
    f1 = f1
    f2 = f2
    f3 = f3
    Retired = Retired
    Objects = {m, a, b}
    NoObject = none
    Mailbox = m
    Entries = {e1, e2, e3}
    Fds = {f1, f2, f3}
    MaxEvents = 2
    MaxAdds = 2
    MaxCalls = 2
    MaxData = 1
SYMMETRY Symmetry
INVARIANTS EntriesSafe NeverBlocks
PROPERTIES NoStaleEvent ImplementsLoop
CHECK_DEADLOCK FALSE
