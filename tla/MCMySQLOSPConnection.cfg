SPECIFICATION FairSpec
CONSTANTS
    Nil = Nil
    Statements = {"query", "setnames"}
    MaxRows = 2
    MaxRequests = 6
    Settings <- BothSettings
INVARIANTS
    TypeOK
    InStep
    StoresOwnResult
PROPERTIES
    CallReturns
CHECK_DEADLOCK FALSE
