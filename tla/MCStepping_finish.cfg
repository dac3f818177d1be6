SPECIFICATION Spec
CONSTANTS
    Code <- MCCode
    Rows <- MCRows
    Dies <- MCDies
    Main = 1
    Callable = {}
    Breakable = {10}
    MaxSet = 1
    MaxDepth = 3
    MaxThrows = 0
INVARIANT FinishReturns
CHECK_DEADLOCK FALSE
