SPECIFICATION CacheSpec
CONSTANTS
    t1 = t1
    t2 = t2
    Thread <- Threads
    Block = {1, 2}
    Cost <- MCCost
    CostMax = 2
    MaxSize = 2
    ReuseMax = 1
    ReuseRatio = 1
    SizeAtStart = {0, 9}
    ReuseAtStart = {0}
    StopAtStart = {TRUE, FALSE}
    None = None
SYMMETRY ThreadSymmetry
INVARIANTS HeldStaysPublished SizeBounded SizeAccounts
PROPERTY ReuseStops
