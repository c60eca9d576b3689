\* Three frames from either side.
CONSTANT Frames = 3
SPECIFICATION RelayFairSpec
INVARIANTS
    RelayTypeOK
    InOrder
    LastWordsArrive
    ResponseIsWhole
PROPERTIES
    BothEndsClose
CHECK_DEADLOCK FALSE
