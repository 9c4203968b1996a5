SPECIFICATION Spec
CONSTANTS
    MAXITEMS = 3
    DIST_PER_WARE = 1
    CUST_PER_DIST = 3
    ORD_PER_DIST = 3
    LastDelivered = 1
    OrderLines = 2
    randomNumber <- Random
    num_ware = 2
    BatchSize = 2
    Configs <- Shard
    MaxRuns = 1
    MaxFailures = 0
INVARIANTS
    ShardsCanBeLoaded
CHECK_DEADLOCK FALSE
