\* disconnect() on an object that stays in scope, with a stream still open.
CONSTANTS
    Engines = {e1, e2}
    SessionHandles = {h1, h2, h3}
    StreamHandles = {r1, r2}
    TxHandles = {x1}
    Conns = {c1, c2}
    Streams = {s1, s2}
    Txs = {t1, t2}
    Null = Null
    MayDisconnect = TRUE
    MayAssignOver = FALSE
SPECIFICATION Spec
CHECK_DEADLOCK FALSE
SYMMETRY Symmetry
INVARIANT
    NoKillOnDeadRuntime
