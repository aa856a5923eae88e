SPECIFICATION Spec
CONSTANTS
    t1 = t1
    t2 = t2
    Thread = {t1, t2}
    Builds <- MCBuilds
    Ids = 8
    Nothing = Nothing
    StorageVersion = 4
    Filters <- MCFilters
    Results = {2, 3}
    RadixThreshold = 3
    Radix = 3
    Passes = 2
    DocsPerChunk = 2
    Hints = {0, 1, 2, 3, 4}
INVARIANTS FetchesOwnCode FindsItsDocs
PROPERTIES ImplementsStream
CHECK_DEADLOCK FALSE
