SPECIFICATION Spec
CONSTANTS
    BackendKind = "docker"
    lead = lead
    dev = dev
    Names <- MCNames
    Leader = lead
    PeerMentions = TRUE
    Envs <- MCEnvsPing
    MaxVer = 3
    MaxGen = 3
    MaxFaults = 1
INVARIANTS
    HashAlwaysCurrent
CHECK_DEADLOCK FALSE
