SPECIFICATION Spec
CONSTANTS
    SubblockSize = 2
    Word = 32
    DocsPerBlock = 4
    BlockCells <- MCBlockCells
    Packing <- MCPacking
    Cases <- MCCases
    RowIds = 32
    MaxCollected = 4
    MinReduceLevels = 3
    ReduceStep = 1
    Hints = {1, 4, 7, 12}
    Everything = Everything
INVARIANTS LoadsWhatWasBuilt SlicesCoverAnswer AdviceIsSafe
PROPERTIES ImplementsStream
CHECK_DEADLOCK FALSE
