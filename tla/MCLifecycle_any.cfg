\* A client that does everything the API allows, in any order, or a careful or an orderly one.
CONSTANTS
    Engines = {e1, e2}
    SessionHandles = {h1, h2, h3}
    StreamHandles = {r1, r2}
    TxHandles = {x1}
    Conns = {c1, c2}
    Streams = {s1, s2}
    Txs = {t1, t2}
    Null = Null
    MayDisconnect = TRUE
    MayAssignOver = TRUE
SPECIFICATION Spec
CHECK_DEADLOCK FALSE
SYMMETRY Symmetry
INVARIANTS
    TypeOK
    SoleOwner
    GuardComplete
    AbandonedOnlyWhenDead
    FatalIsShared
    OrderedTeardownIsClean
    TokenGuards
PROPERTY
    KeepsProtocol
