CONSTANTS
    SELEM_MAX = 3
    SMELEM_MAX = 1
    Key <- Keys6
    Val <- OneVal
    Reps = {0, 1}
    RemPastEnd = TRUE
    ReapSlabs = {1}
    ReapPslabs = {0}
    CountBound = 9
SPECIFICATION Spec
INVARIANT
    CountNeverLow
CHECK_DEADLOCK FALSE
