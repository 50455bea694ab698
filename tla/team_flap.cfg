SPECIFICATION Spec
CONSTANTS
    BackendKind = "docker"
    lead = lead
    dev = dev
    Names <- MCNames
    Leader = lead
    PeerMentions = TRUE
    Envs <- MCEnvsStatus
    MaxVer = 1
    MaxGen = 1
    MaxFaults = 1
PROPERTIES
    ActiveDoesNotFlap
CHECK_DEADLOCK FALSE
