SPECIFICATION Spec
CONSTANTS
    None = None
    r1 = r1
    Workers = {1}
    Runs = {r1}
    Leases = {1, 2}
    Capacity = 1
    Commands = {"cancel"}
    Outcomes = {"completed", "failed"}
    MaxCommands = 1
    MaxBreaks = 0
    MaxHostRestarts = 0
    MaxWorkerRestarts = 0
    MaxWriteFailures = 0
    MaxFences = 0
INVARIANTS
    SentCancelsArrive

\* Every run may have ended.
CHECK_DEADLOCK FALSE
