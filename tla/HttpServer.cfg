SPECIFICATION FairSpec
CONSTANTS
    Conns = {c1, c2}
    Tasks = {t1}
    MaxSockets = 3
    MaxScript = 1
    AcceptErrors = TRUE
INVARIANTS
    SlotsAccounted
    AnsweredBeforeEnd
    SuspendsWhileServing
PROPERTIES
    ImplementsService
    HungUpIsClosed
    WaitingIsAccepted
\* the server may return, the program may exit
CHECK_DEADLOCK FALSE
