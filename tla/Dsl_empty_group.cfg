SPECIFICATION Spec
CONSTANTS
    Surfaces = {"guards", "fluent"}
    MaxCalls = 5
    MaxNesting = 3
INVARIANT EmptyGroupIsDropped
CHECK_DEADLOCK FALSE
