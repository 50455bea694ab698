SPECIFICATION Spec
CONSTANTS
    BackendKind = "k8s"
    Specs <- MCSpecsRunning
    Handlers = {}
    Faults = {}
    MaxGen = 2
    MaxFaults = 0
    ReadsFinalizer = TRUE
PROPERTIES
    RecreateMeansDiffers
CHECK_DEADLOCK FALSE
