\* A thread that starts after a hardware stoppoint was enabled.
SPECIFICATION Spec
CONSTANTS
    Address = {0, 4, 6}
    Thread = {t1, t2}
    NumSlots = 2
    ProgramWord = {w1}
    Trap = Trap
    Zero = Zero
    Volatile = {}
    SiteRequests <- HardwareSites
    WatchRequests <- Watchpoints
PROPERTY ArmedInEveryThread
CHECK_DEADLOCK FALSE
