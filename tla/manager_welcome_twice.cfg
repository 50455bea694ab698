SPECIFICATION Spec
CONSTANTS
    BackendKind = "docker"
    States <- MCStatesKept
    Faults = {}
    MaxGen = 1
    MaxFaults = 0
    MaxSent = 2
INVARIANTS
    WelcomeAtMostOnce
CHECK_DEADLOCK FALSE
