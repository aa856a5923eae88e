SPECIFICATION FairSpec
CONSTANTS
    DocsPerBlock = 4
    SubblockSize = 2
    Word = 32
    TableLimit = 3
    LinearLimit = 2
    Unlimited = 100
    Everything = Everything
    IntCases <- MCIntCases
    MvaCases <- MCSetCases
    StrCases <- MCStrCases
    Hints <- MCHints
    Matchings <- MCMatchings
    Cutoffs = {1, 3, 100}
INVARIANTS GetsWhatWasAdded NoForeignRow BufferHolds CutoffRespected
PROPERTIES ImplementsStream Drains
CHECK_DEADLOCK FALSE
