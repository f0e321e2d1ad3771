CONSTANTS
    SELEM_MAX = 3
    SMELEM_MAX = 1
    Key <- Keys8
    Val <- OneVal
    Reps = {0}
    RemPastEnd = FALSE
    ReapSlabs = {1}
    ReapPslabs = {0, 100}
    CountBound = 100
SPECIFICATION Spec
INVARIANTS
    TypeOK
    Sorted
    ExtremaExact
    NeighboursUnmergeable
    CountExact
    ConversionLossless
    ReadsExact
    NeverCrashes
PROPERTIES
    CallbackGetsRemoved
    ImplementsKeyedSet
