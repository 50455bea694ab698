SPECIFICATION FairSpec
CONSTANTS
    Names = {"a", "b", "t", "m"}
    Files = {"a"}
    Team = "t"
    Member = "m"
    RuntimeName = "b"
    MaxVer = 3
    MaxEvents = 2
    Envs <- MCEnvsRestart
    MaxRestarts = 1
    MaxFaults = 1
PROPERTIES
    FilesSynced
CHECK_DEADLOCK FALSE
