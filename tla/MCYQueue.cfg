SPECIFICATION Spec
CONSTANTS
    c1 = c1
    c2 = c2
    c3 = c3
    c4 = c4
    c5 = c5
    c6 = c6
    Null = Null
    Garbage = Garbage
    Chunks <- MCChunks
    N = 2
    MaxWrites = 8
SYMMETRY Symmetry
INVARIANTS NoBadAccess ChunksAccounted MemoryBounded
PROPERTY ImplementsCells
CHECK_DEADLOCK FALSE
