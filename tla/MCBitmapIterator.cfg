SPECIFICATION Spec
CONSTANTS
    Value = {1, 2, 3}
    Rowids <- MCRowids
    NumRows = 7
    RowidsPerBlock = 2
    WordBits = 2
    SplitWords = 2
    ResultSize = 4
    IntMax = 100
    Bounds <- MCBounds
    NoBounds = NoBounds
    Cutoffs = {1, 2, 4}
    NoCutoff = NoCutoff
    HintRow = {0, 1, 3, 4, 6, 9}
INVARIANTS ExactAnswer NoForeignRow CutoffRespected
PROPERTY ImplementsStream
