\* Traps in memory: software sites, user and inferior writes, pages that go.
SPECIFICATION Spec
CONSTANTS
    Address = {0, 4}
    Thread = {t1}
    NumSlots = 1
    ProgramWord = {w1, w2}
    Trap = Trap
    Zero = Zero
    Volatile = {0, 4}
    SiteRequests <- SoftwareSites
    WatchRequests <- NoRequests
INVARIANTS TypeOK TrapsPlanted ProgramShown DetachClean
PROPERTY ViewPreserved
CHECK_DEADLOCK FALSE
