SPECIFICATION MCSpec
CONSTANTS
    Task = {t1, t2, t3}
    MaxConnections = 2
    MaxRetries = 2
    MaxForeign = 1
    Instance = {i1, i2}
    MaxWrites = 1
    MaxFaults = 1
    Scenario <- Releases
CHECK_DEADLOCK FALSE
INVARIANTS PoolConserved AppliedOnce ReplanIsTheRest NextStillNeeded ScannedDdlSucceeds
PROPERTIES ExecReturns SyncReturns
