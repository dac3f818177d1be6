\* The debug registers: hardware sites and watchpoints that share two register
\* pairs of each kind, and threads that come and go.
SPECIFICATION Spec
CONSTANTS
    Address = {0, 4, 6}
    Thread = {t1, t2}
    NumSlots = 2
    ProgramWord = {w1}
    Trap = Trap
    Zero = Zero
    Volatile = {}
    SiteRequests <- HardwareSites
    WatchRequests <- Watchpoints
INVARIANTS RegistersOwned NoStrayArming DetachClean
SYMMETRY Threads
CHECK_DEADLOCK FALSE
