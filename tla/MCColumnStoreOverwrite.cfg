SPECIFICATION Spec
CONSTANTS
    AreaSize = 2
    Lengths <- MCEvict
    CacheCapacity = 2
    MaxBlocks = 4
    MaxWrites = 5
    MaxCrashes = 0
INVARIANT RecordsIntact
CHECK_DEADLOCK FALSE
