SPECIFICATION FairSpec
CONSTANTS
    Values <- MCValues
    ValuesPerBlock = 4
    Epsilon = 1
    TypeMax = 15
    WideMin <- MCWideMin
    WideMax = 63
    Ends <- MCEnds
    Asked <- MCAsked
INVARIANTS FindsEachValueOnce ExactRange RowsOfTheBlock
PROPERTY LooksUpAll
CHECK_DEADLOCK FALSE
