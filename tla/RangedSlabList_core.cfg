CONSTANTS
    SELEM_MAX = 2
    SUBELEM_MAX = 2
    SMELEM_MAX = 1
    Key <- Keys9
    Val <- OneVal
    Reps = {0}
    RemPastEnd = TRUE
    ReapSlabs = {1}
    ReapPslabs = {30}
    CountBound = 3
    AttachReqs = {2}
    FirstReq = 2
    SL_REQ_MAX = 2
    Grown = {0, 9}
SPECIFICATION RangedSpec
VIEW Unreported
INVARIANTS
    RangeExact
    IndexSurvives
    CountCoversStored
CHECK_DEADLOCK FALSE
