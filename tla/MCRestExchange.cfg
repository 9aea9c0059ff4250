SPECIFICATION FairSpec
CONSTANTS
    Kinds <- AllKinds
    SlowServer = TRUE
    ClientMayLeave = TRUE
    MaxRequests = 3
INVARIANTS
    AnswerIsOwn
    SuccessMeansStored
PROPERTIES
    NoLateExecution
    EveryRequestAnswered
CHECK_DEADLOCK FALSE
