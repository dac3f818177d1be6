\* Three threads, two breakpoints, a catch policy, signals and
\* interrupts, with and without a hit handler that resumes by itself.
SPECIFICATION Spec
CONSTANTS
    Thread = {t1, t2, t3}
    Size = 4
    Sites = {0, 2}
    Handlers = {{}, {2}}
    Svc = {1}
    ThreadEnd = {3}
    ProcessEnd = {3}
    MaxSignals = 2
    MaxThrows = 0
INVARIANTS TypeOK SignalOnce
PROPERTIES NoMissedBreakpoint CaughtBeforeExecuted
SYMMETRY Threads
CHECK_DEADLOCK FALSE
