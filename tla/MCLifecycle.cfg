SPECIFICATION Spec
CONSTANT Modes = {"launch", "run", "attach"}
INVARIANTS TypeOK CleanEnd ExecErrorTold
PROPERTIES LaunchEnds
CHECK_DEADLOCK FALSE
