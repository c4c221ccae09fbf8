CONSTANTS
    Incremental = TRUE
    ReqCap = 2
    ResCap = 2
    ErrCap = 2
    MaxResponses = 3
    MaxSteps = 3
    Causes <- MCUpdates
    Faults <- AllFaults
    Prompt = FALSE
SPECIFICATION Spec
INVARIANTS NoEmptyRequest AcksAccounted
PROPERTIES LedgerSpec
\* The harness stops: a scenario ends, and its goroutines end or wait for ever.
CHECK_DEADLOCK FALSE
