SPECIFICATION FairSpec
CONSTANTS
    one = one
    pair = pair
    full = full
    odd = odd
    Value = {one, pair, full, odd}
    Rowids <- MCRowids
    RowidsPerBlock = 2
    WordBits = 2
    Bounds <- MCBounds
    NoBounds = NoBounds
    HintRow = {0, 1, 2, 3, 4, 5, 6, 7, 8}
INVARIANTS NothingLost InOrder
PROPERTIES ImplementsStream Drains
