SPECIFICATION Spec
CONSTANTS
    AreaSize = 3
    Lengths <- MCLengths
    CacheCapacity = 4
    MaxBlocks = 4
    MaxWrites = 4
    MaxCrashes = 2
INVARIANTS
    RecordsIntact
    FreeSpaceExact
    RecordsReachable
    ClosedHeaderCoversRecords
    SingleAppendPoint
PROPERTY ClosedBlocksImmutable
CHECK_DEADLOCK FALSE
