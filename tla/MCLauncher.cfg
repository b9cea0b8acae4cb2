CONSTANTS
    MaxWorkers = 2
    WithCollector = TRUE
    MaxEvents = 2
    MaxCrashes = 1
    MaxPid = 10
    Roles = {r1, r2}
    Hasty = FALSE
    MaxLoad = 3
SPECIFICATION MCSpec
INVARIANT TypeOK
PROPERTY PoolConverges
CHECK_DEADLOCK FALSE
