SPECIFICATION Spec
CONSTANTS
    Nil = Nil
    c1 = c1
    c2 = c2
    Conns = {c1, c2}
    MaxFd = 2
    MaxParts = 2
    MaxRequests = 2
    MaxQueued = 8
SYMMETRY Symmetry
INVARIANTS
    ForgetsClosedSocket
