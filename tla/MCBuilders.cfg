\* Every way to build, nest, move, release and drop data.
CONSTANTS
    Blocks = {m1, m2, m3, m4}
    Objects = {o1, o2}
    Arrays = {a1, a2}
    Values = {v1}
    Bounds = {b1, b2}
    Keys = {k1}
    Null = Null
    MaxSize = 2
SPECIFICATION Spec
SYMMETRY Symmetry
CHECK_DEADLOCK FALSE
INVARIANTS
    TypeOK
    SoleOwner
    NothingLeaks
    OnlyLiveBlocksAreGiven
    NothingWrittenIsLost
