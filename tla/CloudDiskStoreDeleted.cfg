CONSTANTS
    Ids = {c1}
    Names = {a, b}
    Ops = {"create", "write", "rename", "unlink"}
    MaxOps = 4
    MaxFaults = 0
SPECIFICATION Spec
PROPERTIES
    DeletedStaysDeleted
CHECK_DEADLOCK FALSE
