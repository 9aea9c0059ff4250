SPECIFICATION PoolFairSpec
CONSTANTS
    r1 = r1
    r2 = r2
    r3 = r3
    Requests <- MCThreeRequests
    MinConn = 1
    MaxConn = 2
    DialMayFail = TRUE
    MaxDials = 4
    MaxBreaks = 2
INVARIANTS
    TotalIsExact
    ChannelNeverFull
    OneHolder
PROPERTIES
    EveryRequestServed
    ShutdownCompletes
CHECK_DEADLOCK FALSE
