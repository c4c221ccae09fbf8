CONSTANTS
    Names = {"A", "B"}
    Versions <- MCVersions
    CommandLines <- MCCommandLines
    FeatureFiles <- MCFeatureFiles
SPECIFICATION Spec
INVARIANTS TypeOK RunnerIsOwn StateIsOwn ExpectedIsHeld StreamServesType VerdictsAgree ResultsComplete
\* The process ends.
CHECK_DEADLOCK FALSE
