CONSTANTS
    Hosts = {h1, h2}
    Bases = {b1, b2}
    MaxTtyds = 2
    None = None
SPECIFICATION TtydFairSpec
INVARIANTS
    TtydTypeOK
    HandlesLeadThereInOrder
PROPERTIES
    OnlyItsHostStopsATtyd
    RefusalsAreJustified
    CallsEnd
CHECK_DEADLOCK FALSE
