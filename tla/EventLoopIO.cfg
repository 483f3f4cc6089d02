SPECIFICATION FairSpec
CONSTANTS
    MaxTasks = 2
    Fds = {f1, f2}
    NoFd = NoFd
    Sleeps = {1, 2}
    NoTimer = NoTimer
INVARIANTS
    WaitsAccounted
PROPERTIES
    NoEarlyWakeup
    Refines
    RunsWithoutTimers
\* the program may exit
CHECK_DEADLOCK FALSE
