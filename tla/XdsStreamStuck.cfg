CONSTANTS
    Incremental = FALSE
    ReqCap = 2
    ResCap = 2
    ErrCap = 2
    MaxResponses = 2
    MaxSteps = 3
    Causes <- MCRequests
    Faults <- MCEarlyEnd
    Prompt = TRUE
SPECIFICATION FairSpec
PROPERTIES DoneStopsAck
\* The harness stops: a scenario ends, and its goroutines end or wait for ever.
CHECK_DEADLOCK FALSE
