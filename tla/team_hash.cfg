SPECIFICATION Spec
CONSTANTS
    BackendKind = "docker"
    lead = lead
    dev = dev
    Names <- MCNames
    Leader = lead
    PeerMentions = TRUE
    Envs <- MCEnvsLoose
    MaxVer = 5
    MaxGen = 5
    MaxFaults = 2
INVARIANTS
    HashAlwaysCurrent
CHECK_DEADLOCK FALSE
