SPECIFICATION Spec
CONSTANTS
    BackendKind = "docker"
    Specs <- MCSpecsRunning
    Handlers = {}
    Faults = {"detect"}
    MaxGen = 3
    MaxFaults = 1
    ReadsFinalizer = TRUE
INVARIANTS
    ObservedContainerIsCurrent
CHECK_DEADLOCK FALSE
