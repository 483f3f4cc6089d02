SPECIFICATION Spec
CONSTANTS
    MaxTasks = 2
    MaxCallDepth = 2
    MaxLive = 3
INVARIANTS
    NoCrossing
\* control can end on the wrong stack
CHECK_DEADLOCK FALSE
