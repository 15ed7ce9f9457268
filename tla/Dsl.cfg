SPECIFICATION Spec
CONSTANTS
    Surfaces = {"guards", "fluent"}
    MaxCalls = 5
    MaxNesting = 3
INVARIANTS
    TypeOK
    WellFormed
    Balanced
    FailureIsDeserved
    EveryValueHasItsPlaceholder
    MarksAreTrue
CHECK_DEADLOCK FALSE
