\* The instance of MCTtyd.cfg; hosts construct on a socket at the same time.
CONSTANTS
    Hosts = {h1, h2}
    Bases = {b1}
    MaxTtyds = 2
    None = None
SPECIFICATION TtydSpec
INVARIANT HandlesLeadToTheirTtyd
CHECK_DEADLOCK FALSE
