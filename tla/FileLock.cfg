\* Three callers, any of them may die inside, a section may outlive staleMs.
SPECIFICATION LockLiveSpec
CONSTANTS
    p1 = p1
    p2 = p2
    p3 = p3
    NoProc = NoProc
    Orphan = Orphan
    Procs <- ThreeProcs
    Retries = 1
    MaySlow = TRUE
    MayCrash = TRUE
    MayRefuse = TRUE
INVARIANTS SafeUntilStale
PROPERTIES CallEnds ImplementsMutex
CHECK_DEADLOCK FALSE
