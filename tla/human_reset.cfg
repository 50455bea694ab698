SPECIFICATION Spec
CONSTANTS
    team = team
    solo = solo
    Rooms <- MCRooms
    Envs <- MCEnvsLate
    MaxPw = 4
    MaxGen = 3
    MaxFaults = 0
PROPERTIES
    PasswordNeverReset
CHECK_DEADLOCK FALSE
