\* What returns to the prompt, and under which fairness.
SPECIFICATION Spec
CONSTANTS
    Thread = {t1, t2}
    Size = 3
    Sites = {0, 2}
    Handlers = {{}, {2}}
    Svc = {1}
    ThreadEnd = {1}
    ProcessEnd = {1}
    MaxSignals = 0
    MaxThrows = 1
INVARIANTS CleanPrompt
PROPERTIES StepReturns InterruptReturns
CHECK_DEADLOCK FALSE
