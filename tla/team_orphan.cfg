SPECIFICATION Spec
CONSTANTS
    BackendKind = "docker"
    lead = lead
    dev = dev
    Names <- MCNames
    Leader = lead
    PeerMentions = TRUE
    Envs <- MCEnvs
    MaxVer = 3
    MaxGen = 3
    MaxFaults = 1
INVARIANTS
    MembersNeverOrphaned
CHECK_DEADLOCK FALSE
