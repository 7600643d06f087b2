CONSTANTS
    Users = {"u1", "u2"}
    Roots = {"r1"}
    Ops = {"start", "add", "remove", "stop", "exit"}
    MaxOps = 3
    MaxFaults = 2
SPECIFICATION Spec
INVARIANT OldSessionEnds
CHECK_DEADLOCK FALSE
