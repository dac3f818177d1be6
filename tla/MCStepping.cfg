SPECIFICATION Spec
CONSTANTS
    Code <- MCCode
    Rows <- MCRows
    Dies <- MCDies
    Main = 1
    Callable = {8}
    Breakable = {1, 12}
    MaxSet = 1
    MaxDepth = 2
    MaxThrows = 1
INVARIANTS TypeOK SitesRestored CallTransparent NextStaysOut FramesFresh
PROPERTIES BreakpointsReported CommandEnds
CHECK_DEADLOCK FALSE
