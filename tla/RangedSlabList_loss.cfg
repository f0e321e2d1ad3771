CONSTANTS
    SELEM_MAX = 3
    SUBELEM_MAX = 3
    SMELEM_MAX = 2
    Key <- Keys7
    Val <- OneVal
    Reps = {0}
    RemPastEnd = FALSE
    ReapSlabs = {}
    ReapPslabs = {}
    CountBound = 7
    AttachReqs = {}
    FirstReq = 2
    SL_REQ_MAX = 3
    Grown = {0}
SPECIFICATION UnrangedSpec
INVARIANT ShortenedIsOneSlab
CHECK_DEADLOCK FALSE
