SPECIFICATION FairSpec
CONSTANTS
    BackendKind = "k8s"
    Specs <- MCSpecsAll
    Handlers = {}
    Faults = {"api", "infra", "backend", "create", "delete", "exit", "crash"}
    MaxGen = 2
    MaxFaults = 1
    ReadsFinalizer = TRUE
INVARIANTS
    TypeOK
    ObservedContainerIsCurrent
PROPERTIES
    ObservedNeverRegresses
    Converges
CHECK_DEADLOCK FALSE
