CONSTANTS
    Types <- MCTypes
    Names <- MCNames
    Versions <- MCVersions
    Scenarios <- MCFull
    ReqCap = 2
    ResCap = 2
    MaxResponses = 2
    Targets <- MCConformant
    Unasked = {}
    Split <- MCFull
    Racing = FALSE
SPECIFICATION Spec
INVARIANTS SubscriptionSettles
\* A scenario ends; the stream it leaves waits for the target.
CHECK_DEADLOCK FALSE
