SPECIFICATION Spec
CONSTANTS
    Values <- MCValues
    ValuesPerBlock = 4
    Epsilon = 1
    TypeMax = 15
    WideMin <- MCWideMin
    WideMax = 63
    Ends <- MCEnds
    Asked <- MCOutside
INVARIANTS ExcludesOnlyAsked
CHECK_DEADLOCK FALSE
