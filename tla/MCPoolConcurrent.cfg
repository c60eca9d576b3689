CONSTANTS
    Procs = {p1, p2}
    Ids = {0}
    Cmds = {c1}
    PoolOps = {"session", "create", "get", "kill", "sessions", "kill_server"}
    Faults = {"crash", "io", "exit", "bypass"}
    MaxStamp = 2
    None = None
SPECIFICATION Spec
INVARIANTS
    PoolTypeOK
    LockHeld
    TouchKeepsRecord
    RecordsAreReal
    SweepSparesListedSessions
PROPERTIES
    ImplementsAtomicRecords
    LiveSessionsAreLeftAlone
