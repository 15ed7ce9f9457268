\* Any teardown by either thread.
CONSTANT MaxPending = 3
SPECIFICATION FairSpec
CHECK_DEADLOCK FALSE
INVARIANTS
    TypeOK
    DestructorKeepsFreesOff
    LeakOnlyInTeardown
    ClosedMeansTornDown
    FatalIsKnown
PROPERTY ReaderIsReleased
