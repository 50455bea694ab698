SPECIFICATION FairSpec
CONSTANTS
    Callers = {"worker", "team", "manager"}
    Nobody = nobody
    Ids <- MCIds
    Registries = {"workers"}
    Specs <- MCSpecsPorts
    Ports = {80, 81}
    Envs <- MCEnvsLate
    MaxEdits = 1
    MaxWrites = 0
    MaxFaults = 0
PROPERTIES
    PortsFollowSpec
CHECK_DEADLOCK FALSE
