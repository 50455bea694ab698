SPECIFICATION FairSpec
CONSTANTS
    ann = ann
    mgr = mgr
    r1 = r1
    r2 = r2
    Clients <- MCClients
    Other = other
    Routes <- MCRoutes
    Provider <- MCProvider
    MaxRetries = 2
    NoRoute = noroute
    Nobody = nobody
    Managers <- MCManagers
    Renamed <- MCRenamed
    DefaultAPI = r2
    Envs <- MCEnvs
    MaxSecrets = 3
    MaxFaults = 1
INVARIANTS
    TypeOK
    SecretsPersisted
    NothingLeft
PROPERTIES
    RoutesAtomic
    Provisioned
CHECK_DEADLOCK FALSE
