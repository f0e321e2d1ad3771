\* all slabs of up to 4 elements over 6 keys, with every content of dead slots
CONSTANTS
    SELEM_MAX = 4
    Key <- Keys
    Val <- OneVal
SPECIFICATION FairSpec
CHECK_DEADLOCK FALSE
INVARIANTS
    ProbesLive
    BinFindsPosition
    SearchesAgree
PROPERTY
    Returns
