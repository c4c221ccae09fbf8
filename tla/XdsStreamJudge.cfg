CONSTANTS
    Incremental = FALSE
    ReqCap = 1
    ResCap = 1
    ErrCap = 1
    MaxResponses = 4
    MaxSteps = 4
    Causes <- AllCauses
    Faults <- MCBadBody
    Prompt = TRUE
SPECIFICATION FairSpec
INVARIANTS JudgeBlind
PROPERTIES JudgeExact ResponsesAcked DoneStopsAck ScenarioEnds
\* The harness stops: a scenario ends, and its goroutines end or wait for ever.
CHECK_DEADLOCK FALSE
