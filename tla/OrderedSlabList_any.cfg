CONSTANTS
    SELEM_MAX = 3
    SMELEM_MAX = 2
    Key <- Keys2
    Val <- OneVal
    CIRCULAR = FALSE
    Reversing = TRUE
    Careless = TRUE
    ReapSlabs = {1, 30}
    CountBound = 5
SPECIFICATION Spec
PROPERTIES
    ImplementsElemSequence
CHECK_DEADLOCK FALSE
