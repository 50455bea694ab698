SPECIFICATION FairSpec
CONSTANTS
    team = team
    solo = solo
    Rooms <- MCRooms
    Envs <- MCEnvs
    MaxPw = 4
    MaxGen = 3
    MaxFaults = 1
INVARIANTS
    TypeOK
    RecordedIsJoined
PROPERTIES
    PasswordKept
    Admitted
    Revoked
CHECK_DEADLOCK FALSE
