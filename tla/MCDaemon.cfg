\* One shell that rules the daemon, one that only asks.  Pids and ports are used again; after a
\* start was misled nothing more is typed.
CONSTANTS
    Pids = {1, 2}
    Ports = {p1, p2}
    Users = {u1, u2}
    Onlookers = {u2}
    Uses = {"start", "stop", "serve", "status", "ask"}
    Slow = FALSE
    Signals = TRUE
    AfterMisled = FALSE
    None = None
SPECIFICATION DaemonFairSpec
INVARIANTS
    DaemonTypeOK
    OneDaemonOneFile
PROPERTIES
    StopRemovesTheFile
    StartIsNotFooled
    NobodyIsOverlooked
    CommandsEnd
