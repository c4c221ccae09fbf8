CONSTANTS
    Names = {"A", "B"}
    Versions <- MCVersions
    MaxField = 20
SPECIFICATION MCSpec
PROPERTIES UpdateIsMeaningful
