CONSTANTS
    Users = {"u1", "u2"}
    Roots = {"r1"}
    Ops = {"start", "add", "remove", "stop", "exit"}
    MaxOps = 3
    MaxFaults = 4
SPECIFICATION FairSpec
INVARIANT MountsAreOwned
PROPERTIES CallsReturn ActiveRootIsServed
CHECK_DEADLOCK FALSE
