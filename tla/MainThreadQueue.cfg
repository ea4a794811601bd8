SPECIFICATION FairSpec
CONSTANTS
    Workers = {w1, w2}
    MaxCalls = 2
    MayTimeout = TRUE
    NoResult = NoResult
    TimedOut = TimedOut
INVARIANTS
    TypeOK
    AtMostOnce
    OwnAnswer
    InOrder
    StoresAreLive
PROPERTIES
    EveryCallReturns
    QueuedRuns
    ImplementsHandlerCalls
CHECK_DEADLOCK FALSE
