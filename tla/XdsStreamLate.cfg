CONSTANTS
    Incremental = FALSE
    ReqCap = 2
    ResCap = 2
    ErrCap = 2
    MaxResponses = 2
    MaxSteps = 3
    Causes <- MCUpdates
    Faults <- MCNoFault
    Prompt = TRUE
SPECIFICATION Spec
INVARIANTS TooManyMeansAckAnswered
\* The harness stops: a scenario ends, and its goroutines end or wait for ever.
CHECK_DEADLOCK FALSE
