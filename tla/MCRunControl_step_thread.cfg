\* The step of one thread while another is on a breakpoint.
SPECIFICATION Spec
CONSTANTS
    Thread = {t1, t2}
    Size = 4
    Sites = {0, 2}
    Handlers = {{}}
    Svc = {}
    ThreadEnd = {3}
    ProcessEnd = {3}
    MaxSignals = 2
    MaxThrows = 0
PROPERTIES StepKeepsThread
CHECK_DEADLOCK FALSE
