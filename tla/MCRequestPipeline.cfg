SPECIFICATION PipelineFairSpec
CONSTANTS
    Handlers <- MCTwo
    RestHandlers <- MCRest
    MaxStatements = 2
    MayExit = TRUE
    MaxPerConnection = 2
INVARIANTS
    ExecutionHasConnection
PROPERTIES
    EveryStatementExecuted
    ListenerStops
CHECK_DEADLOCK FALSE
