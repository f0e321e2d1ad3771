CONSTANTS
    SELEM_MAX = 2
    SUBELEM_MAX = 2
    SMELEM_MAX = 1
    Key <- Keys8
    Val <- OneVal
    Reps = {0}
    RemPastEnd = FALSE
    ReapSlabs = {}
    ReapPslabs = {}
    CountBound = 100
    AttachReqs = {}
    FirstReq = 2
    SL_REQ_MAX = 2
SPECIFICATION Spec
INVARIANT IndexExact
