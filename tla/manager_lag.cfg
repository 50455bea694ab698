SPECIFICATION Spec
CONSTANTS
    BackendKind = "k8s"
    States <- MCStatesKept
    Faults = {"api", "create", "delete", "send", "crash"}
    MaxGen = 2
    MaxFaults = 1
    MaxSent = 2
INVARIANTS
    TypeOK
    ObservedMeansCurrent
    RepeatsNeedUnseenClaim
CHECK_DEADLOCK FALSE
