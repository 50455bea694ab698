SPECIFICATION FairSpec
CONSTANTS
    BackendKind = "docker"
    Specs <- MCSpecsRunning
    Handlers = {}
    Faults = {"create"}
    MaxGen = 1
    MaxFaults = 1
    ReadsFinalizer = TRUE
PROPERTIES
    Converges
CHECK_DEADLOCK FALSE
