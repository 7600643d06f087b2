CONSTANTS
    PerGroup = 2
    Groups = 3
    Producers = {p1}
    MaxLines = 4
    MaxCrashes = 0
    MaxFaults = 0
    PageSize = 3
SPECIFICATION Spec
INVARIANT EndMeansAllReturned
CHECK_DEADLOCK FALSE
