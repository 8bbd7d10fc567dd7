SPECIFICATION Spec
CONSTANTS
    None = None
    r1 = r1
    Workers = {1}
    Runs = {r1}
    Leases = {1, 2}
    Capacity = 1
    Commands = {"cancel"}
    Outcomes = {"completed"}
    MaxCommands = 1
    MaxBreaks = 1
    MaxHostRestarts = 0
    MaxWorkerRestarts = 1
    MaxWriteFailures = 0
    MaxFences = 1
INVARIANTS
    PendingCancelsArrive

\* Every run may have ended.
CHECK_DEADLOCK FALSE
