SPECIFICATION Spec
CONSTANTS
    MAXITEMS = 3
    DIST_PER_WARE = 1
    CUST_PER_DIST = 3
    ORD_PER_DIST = 3
    LastDelivered = 1
    OrderLines = 2
    randomNumber <- Random
    num_ware = 2
    BatchSize = 2
    Configs <- AllConfigs
    MaxRuns = 3
    MaxFailures = 1
INVARIANTS
    TypeOK CompletedIsComplete NoDuplicates ParentsStored
CHECK_DEADLOCK FALSE
