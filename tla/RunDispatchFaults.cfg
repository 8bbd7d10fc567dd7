SPECIFICATION Spec
CONSTANTS
    None = None
    r1 = r1
    Workers = {1, 2}
    Runs = {r1}
    Leases = {1, 2}
    Capacity = 1
    Commands = {}
    Outcomes = {"completed", "failed"}
    MaxCommands = 0
    MaxBreaks = 1
    MaxHostRestarts = 1
    MaxWorkerRestarts = 0
    MaxWriteFailures = 0
    MaxFences = 0
INVARIANTS
    HandedOutOnce
    NoRunStranded
    ExecutionsAreOnRecord
    ConnectedExecutionsAreOwned
PROPERTIES
    NoLateReportMovesARun

\* Every run may have ended.
CHECK_DEADLOCK FALSE
