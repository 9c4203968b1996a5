SPECIFICATION FairSpec
CONSTANTS
    buf_size = 3
    Lengths = {1, 3, 5}
    StreamLength = 7
    Signals = TRUE
    UINT = 64
INVARIANTS
    TypeOK
    DeliversStream
PROPERTIES
    DeliversInTime
CHECK_DEADLOCK FALSE
