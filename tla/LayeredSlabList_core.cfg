CONSTANTS
    SELEM_MAX = 2
    SUBELEM_MAX = 3
    SMELEM_MAX = 1
    Key <- Keys8
    Val <- OneVal
    Reps = {0}
    RemPastEnd = FALSE
    ReapSlabs = {}
    ReapPslabs = {}
    CountBound = 100
    AttachReqs = {0, 2, 9}
    FirstReq = 2
    SL_REQ_MAX = 3
SPECIFICATION Spec
VIEW Unreported
INVARIANTS
    TypeOK
    IndexExact
    SubExtremaExact
    UsrElemsExact
    BubbleUpExact
PROPERTIES
    
    ImplementsSlabList
CHECK_DEADLOCK FALSE
