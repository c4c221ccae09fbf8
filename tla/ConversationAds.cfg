CONSTANTS
    Types <- MCTypes
    Names <- MCNames
    Versions <- MCVersions
    Scenarios <- AdsScenarios
    ReqCap = 2
    ResCap = 2
    MaxResponses = 2
    Targets <- MCConformant
    Unasked = {}
    Split <- MCWhole
    Racing = FALSE
SPECIFICATION Spec
INVARIANTS AckIsForItsResponse
\* A scenario ends; the stream it leaves waits for the target.
CHECK_DEADLOCK FALSE
