\* A client that reads until it is told to stop, or closes the stream early.
CONSTANTS
    MaxEvents = 3
    MaxMs = 3
    TicksPerMs = 2
    MaxAsked = 9
SPECIFICATION LoopSpec
INVARIANTS
    TypeOK
    CleanEndSawEverything
    WaitsAsAsked
PROPERTIES
    ImplementsFeed
    ParkedIsReleased
    DeadStreamIsNoticed
