CONSTANTS
    Incremental = FALSE
    ReqCap = 2
    ResCap = 2
    ErrCap = 2
    MaxResponses = 3
    MaxSteps = 3
    Causes <- MCAnswersAcks
    Faults <- MCNoFault
    Prompt = TRUE
SPECIFICATION Spec
INVARIANTS PassedMeansNoAckAnswered
\* The harness stops: a scenario ends, and its goroutines end or wait for ever.
CHECK_DEADLOCK FALSE
