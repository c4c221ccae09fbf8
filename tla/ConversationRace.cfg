CONSTANTS
    Types <- MCTypes
    Names <- MCNames
    Versions <- MCVersions
    Scenarios <- SotwScenarios
    ReqCap = 2
    ResCap = 2
    MaxResponses = 2
    Targets <- MCConformant
    Unasked = {}
    Split <- MCWhole
    Racing = TRUE
SPECIFICATION Spec
INVARIANTS ConformantPasses
\* A scenario ends; the stream it leaves waits for the target.
CHECK_DEADLOCK FALSE
