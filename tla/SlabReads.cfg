CONSTANTS
    SELEM_MAX = 2
    SUBELEM_MAX = 3
    SMELEM_MAX = 1
    Key <- Keys7
    Val <- OneVal
    Reps = {0}
    RemPastEnd = FALSE
    ReapSlabs = {}
    ReapPslabs = {}
    CountBound = 100
    AttachReqs = {3}
    FirstReq = 2
    SL_REQ_MAX = 3
SPECIFICATION Spec
INVARIANTS
    FoldsExact
    RangesCovered
    RangeEndsExact
    TestsQuiet
