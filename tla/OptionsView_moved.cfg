\* A build that moves the view out of to_c().
CONSTANTS
    Directories = {session_dir, temporary_directory}
    TargetSets = {allow_functions, deny_network}
    Short = {short}
    Long = {long}
    Names = {n1, n2}
    Null = Null
    Gone = Gone
SPECIFICATION ViewSpec
INVARIANT OptionsAreBacked
