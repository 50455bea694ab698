SPECIFICATION FairSpec
CONSTANTS
    Names = {"a", "b", "t", "m"}
    Files = {"a"}
    Team = "t"
    Member = "m"
    RuntimeName = "b"
    MaxVer = 3
    MaxEvents = 2
    Envs <- MCEnvs
    MaxRestarts = 1
    MaxFaults = 1
INVARIANTS
    TypeOK
    OnlyWanted
PROPERTIES
    NoSpecReturns
    AuthorizationKept
    FilesFollowed
    BootsUp
CHECK_DEADLOCK FALSE
