CONSTANTS
    Names = {"a", "b", "c"}
    OldNames = {}
    MaxOps = 4
SPECIFICATION Spec
INVARIANT FileIdsAreUnique
CHECK_DEADLOCK FALSE
