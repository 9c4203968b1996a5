SPECIFICATION Spec
CONSTANTS
    NULL = NULL
    h1 = h1
    h2 = h2
    c1 = c1
    c2 = c2
    c3 = c3
    r1 = r1
    r2 = r2
    r3 = r3
    w1 = w1
    w2 = w2
    w3 = w3
    Handles = {h1, h2}
    Conns = {c1, c2}
    Results = {r1, r2, r3}
    Wrappers = {w1, w2}
SYMMETRY Symmetry
INVARIANTS
    TypeOK
    FindsItsConnection
    FreesOnlyItsOwn
    CloseLeavesNoEntry
