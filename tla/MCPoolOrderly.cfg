\* One caller that makes any call, or two that only open and look.
CONSTANTS
    Procs = {p1, p2}
    Ids = {0, 1}
    Cmds = {c1}
    PoolOps = {"session", "create", "get", "kill", "sessions", "kill_server"}
    Faults = {"crash", "io", "exit"}
    MaxStamp = 4
    Openings = 2
    None = None
SPECIFICATION OrderlySpec
INVARIANTS
    RecordsTellTheTruth
    OneCallerIsRefused
    OneCallerGetsANewId
    OneCallerSeesNoExternals
PROPERTIES
    CallsReturn
    LockIsGivenBack
