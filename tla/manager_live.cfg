SPECIFICATION FairSpec
CONSTANTS
    BackendKind = "docker"
    States <- MCStatesKept
    Faults = {"api", "infra", "backend", "send", "exit", "crash"}
    MaxGen = 2
    MaxFaults = 1
    MaxSent = 0
PROPERTIES
    Converges
    WelcomeClaimed
CHECK_DEADLOCK FALSE
