CONSTANTS
    Readers = {r1, r2}
    Cancellers = {r1}
SPECIFICATION FairSpec
PROPERTIES
    EveryReadIsAnswered
CHECK_DEADLOCK FALSE
