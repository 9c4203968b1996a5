SPECIFICATION FairSpec
CONSTANTS
    Nil = Nil
    c1 = c1
    c2 = c2
    Conns = {c1}
    MaxFd = 2
    MaxParts = 2
    MaxRequests = 4
    MaxQueued = 8
INVARIANTS
    TypeOK
    OwnAnswer
    NoDescriptorLeak
PROPERTIES
    SendReturns
