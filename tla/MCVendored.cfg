SPECIFICATION MCSpec
CONSTANTS
    d = d
    n1 = n1
    n2 = n2
    n3 = n3
    s = s
    t = t
    x = x
    y = y
    Nul = Nul
    Junk = Junk
    NullRep = NullRep
    NoValue = NoValue
    EINVAL = EINVAL
    Strings <- MCStrings
    Reps = {1, 2, 3}
    Texts <- MCTexts
    Slack = 1
    MaxLength = 4
    MaxReserve = 2
    Ints <- MCInts
    Blobs <- MCBlobs
    BufferSizes = {0, 3, 4, 5, 8, 255, 256}
    MaxOthers = 1
    Null = Null
    Nodes = {d, n1, n2, n3}
    Doc = d
    TabSize = 4
    WordValues = 4
    Second = 4
    Names <- MCNames
    Payloads <- MCPayloads
    Settings <- MCSettings
SYMMETRY Symmetry
INVARIANTS DocumentWhole StringsWhole BytesAndCountsAgree
PROPERTIES SavedIsRead OptionsAsSet ImplementsForest ImplementsValues
CHECK_DEADLOCK FALSE
