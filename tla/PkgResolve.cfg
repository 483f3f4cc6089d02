SPECIFICATION FairSpec
CONSTANTS
    Sources <- MCSources
    ModuleOf <- MCModuleOf
    StackCap = 2
INVARIANTS
    AcceptsOnlyGoodGraphs
    RejectsOnlyBadGraphs
    StagingAccounted
PROPERTIES
    Terminates
\* resolution ends
CHECK_DEADLOCK FALSE
