SPECIFICATION FairSpec
CONSTANTS
    MaxTasks = 3
    Fds = {}
    NoFd = NoFd
    Sleeps = {1, 2}
    NoTimer = NoTimer
PROPERTIES
    SleepersResumeInOrder
    GiveUpOnlyWhenStuck
    SleeperRuns
\* the program may exit
CHECK_DEADLOCK FALSE
