SPECIFICATION FairSpec
CONSTANTS
    Callers = {"worker", "team", "manager"}
    Nobody = nobody
    Ids <- MCIds
    Registries = {"workers"}
    Specs <- MCSpecs
    Ports = {80, 81}
    Envs <- MCEnvs
    MaxEdits = 1
    MaxWrites = 1
    MaxFaults = 1
INVARIANTS
    TypeOK
    PortsTracked
    DeletedLeavesNothing
PROPERTIES
    OthersEntriesKept
    AgentOwnsItsFiles
    Deployed
CHECK_DEADLOCK FALSE
