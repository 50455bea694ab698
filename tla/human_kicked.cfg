SPECIFICATION FairSpec
CONSTANTS
    team = team
    solo = solo
    Rooms <- MCRooms
    Envs <- MCEnvsSwept
    MaxPw = 4
    MaxGen = 3
    MaxFaults = 0
PROPERTIES
    AccessKept
CHECK_DEADLOCK FALSE
