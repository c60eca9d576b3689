\* tmuxd start in two shells; no signal comes.
CONSTANTS
    Pids = {1, 2}
    Ports = {p1}
    Users = {u1, u2}
    Onlookers = {}
    Uses = {"start"}
    Slow = FALSE
    Signals = FALSE
    AfterMisled = FALSE
    None = None
SPECIFICATION DaemonSpec
INVARIANT OneDaemonOneFile
CHECK_DEADLOCK FALSE
