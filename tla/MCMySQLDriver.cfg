SPECIFICATION Spec
CONSTANTS
    Nil = Nil
    Blank = Blank
    h1 = h1
    h2 = h2
    n1 = n1
    n2 = n2
    n3 = n3
    p1 = p1
    p2 = p2
    p3 = p3
    osp1 = osp1
    osp2 = osp2
    bad = bad
    local = local
    s1 = s1
    s2 = s2
    poolSize = 1
    Handles = {h1, h2}
    HeapHandles = {}
    OspHosts = {osp1}
    BadHosts = {}
    NativeHosts = {}
    Schemas = {s1, s2}
    UrlSchema <- UrlSchemaOf
    Nets = {n1, n2}
    Pools = {p1, p2}
SYMMETRY Symmetry
INVARIANTS
    TypeOK
    ExclusiveOwnership
    OnePoolPerSchema
PROPERTIES
    LosesOnlyOnFailure
    OwnershipSpec
