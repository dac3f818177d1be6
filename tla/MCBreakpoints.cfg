\* Three breakpoints that compete for addresses, and a library that comes and goes.
SPECIFICATION Spec
CONSTANTS
    Breakpoint = {"f", "g", "p"}
    Address <- MCAddress
    Image = {"exe", "lib"}
    ImageOf <- MCImageOf
    Targets <- MCTargets
    ByAddress = {"p"}
    IsHardware = {"g"}
    Main = "exe"
    NumSlots = 1
INVARIANTS TypeOK HitHasBreakpoint TrapHasSite PointersValid PendingResolved
CHECK_DEADLOCK FALSE
