SPECIFICATION FairSpec
CONSTANTS
    client = client
    server = server
    Tasks <- MCTasks
    Does <- MCDoes
    Main = main
    MaxSockets = 2
    MaxFds = 3
    NoFd = NoFd
CHECK_DEADLOCK FALSE
INVARIANTS
    NothingLeaks
    CallKeepsItsSocket
    ConnectMeansConnected
PROPERTIES
    CutCallEnds
    ReadyCallGoesOn
