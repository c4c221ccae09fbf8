CONSTANTS
    Types <- MCTypes
    Names <- MCNames
    Versions <- MCVersions
    Scenarios <- AllScenarios
    ReqCap = 2
    ResCap = 2
    MaxResponses = 2
    Targets <- AllTargets
    Unasked = {"EDS"}
    Split <- MCSplit
    Racing = FALSE
SPECIFICATION Spec
INVARIANTS TypeOK ConformantPasses SubscriptionSettles RecordIsDelivered PanicIsUnasked
           AckMatchesResponse
PROPERTIES ReceiptIsEarned SingleIsEarned
\* A scenario ends; the stream it leaves waits for the target.
CHECK_DEADLOCK FALSE
