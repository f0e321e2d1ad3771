CONSTANTS
    SELEM_MAX = 3
    SMELEM_MAX = 1
    Key <- Keys6
    Val <- OneVal
    Reps = {0, 1}
    RemPastEnd = FALSE
    ReapSlabs = {}
    ReapPslabs = {}
    CountBound = 12
SPECIFICATION Spec
PROPERTY AddKeepsKeys
CHECK_DEADLOCK FALSE
