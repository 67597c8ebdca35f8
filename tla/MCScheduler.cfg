CONSTANTS
    Procs = {p1, p2, p3}
    NoProc = noproc
    EventLimit = 1
SPECIFICATION FairSpec
CHECK_DEADLOCK FALSE
INVARIANTS
    OnePlace
    QueuedHasContext
    NoBorrowPanic
PROPERTIES
    EventWakesWaiter
