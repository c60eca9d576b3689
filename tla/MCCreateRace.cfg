\* Two callers create one id; nothing else happens.
CONSTANTS
    Procs = {p1, p2}
    Ids = {0}
    Cmds = {c1}
    PoolOps = {"create"}
    Faults = {}
    MaxStamp = 2
    None = None
SPECIFICATION Spec
INVARIANT CreateRefusesExisting
CHECK_DEADLOCK FALSE
