\* A breakpoint on the instruction that ends the process.
SPECIFICATION Spec
CONSTANTS
    Thread = {t1}
    Size = 4
    Sites = {3}
    Handlers = {{}}
    Svc = {}
    ThreadEnd = {3}
    ProcessEnd = {3}
    MaxSignals = 2
    MaxThrows = 0
INVARIANTS ExitReported
CHECK_DEADLOCK FALSE
