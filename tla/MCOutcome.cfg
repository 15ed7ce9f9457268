SPECIFICATION Spec
CONSTANTS
    Blocks = {b1, b2, b3}
    Results = {r1, r2}
    Errors = {e1}
    Queries = {q1}
    Rows = {w1}
    Failing = {"error"}
    MaxStatements = 2
    Null = Null
SYMMETRY Symmetry
INVARIANTS
    TypeOK
    FreedRightly
    OneOwner
    FailureHasCode
    RowsAreOfASuccess
CHECK_DEADLOCK FALSE
