SPECIFICATION FairSpec
CONSTANTS
    team = team
    solo = solo
    Rooms <- MCRooms
    Envs <- MCEnvsLed
    MaxPw = 4
    MaxGen = 3
    MaxFaults = 0
PROPERTIES
    AccessJoined
CHECK_DEADLOCK FALSE
