CONSTANTS
    SELEM_MAX = 3
    SMELEM_MAX = 2
    Key <- Keys2
    Val <- OneVal
    CIRCULAR = TRUE
    Reversing = FALSE
    Careless = FALSE
    ReapSlabs = {1, 30}
    CountBound = 7
SPECIFICATION Spec
INVARIANTS
    TypeOK
    NeighboursUnmergeable
    GetExact
    ExtremaExact
    NeverCrashes
    SortExact
PROPERTIES
    ImplementsElemSequence
