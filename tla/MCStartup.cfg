\* Any order of connects and runtime_init calls on three threads, and any number
\* of connects with options that change in between.
CONSTANTS
    Threads = {t1, t2, t3}
    Sizes = {4, 8}
    MaxCalls = 2
    Directories = {session_dir, temporary_directory}
    TargetSets = {allow_functions, deny_network}
    Short = {short}
    Long = {long}
    Names = {n1, n2}
    Null = Null
    Gone = Gone
SPECIFICATION BothSpec
SYMMETRY Symmetry
CHECK_DEADLOCK FALSE
INVARIANTS
    TypeOK
    LateIsRefused
    IgnoredOnlyInARace
    OnlyCopiedShortStringsAreLost
