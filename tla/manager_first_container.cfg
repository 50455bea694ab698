SPECIFICATION Spec
CONSTANTS
    BackendKind = "docker"
    States <- MCStatesKept
    Faults = {}
    MaxGen = 1
    MaxFaults = 0
    MaxSent = 1
PROPERTIES
    FirstContainerSurvives
CHECK_DEADLOCK FALSE
