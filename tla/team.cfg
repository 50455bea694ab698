SPECIFICATION FairSpec
CONSTANTS
    BackendKind = "docker"
    lead = lead
    dev = dev
    Names <- MCNames
    Leader = lead
    PeerMentions = TRUE
    Envs <- MCEnvs
    MaxVer = 3
    MaxGen = 3
    MaxFaults = 1
INVARIANTS
    TypeOK
    HashMeansCurrent
    MembersTracked
PROPERTIES
    PeersUndisturbed
    Converges
CHECK_DEADLOCK FALSE
