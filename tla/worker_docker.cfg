SPECIFICATION FairSpec
CONSTANTS
    BackendKind = "docker"
    Specs <- MCSpecsRemote
    Handlers = {h1}
    Faults = {"backend", "exit", "crash"}
    MaxGen = 2
    MaxFaults = 1
    ReadsFinalizer = TRUE
INVARIANTS
    NoOrphanContainer
PROPERTIES
    FirstContainerSurvives
    Converges
CHECK_DEADLOCK FALSE
