SPECIFICATION Spec
CONSTANTS
    None = None
    r1 = r1
    Workers = {1}
    Runs = {r1}
    Leases = {1, 2}
    Capacity = 1
    Commands = {"follow-up", "cancel", "retry"}
    Outcomes = {"completed", "failed", "waiting"}
    MaxCommands = 2
    MaxBreaks = 0
    MaxHostRestarts = 0
    MaxWorkerRestarts = 0
    MaxWriteFailures = 1
    MaxFences = 0
PROPERTIES
    LeasesAreAsAsked

\* Every run may have ended.
CHECK_DEADLOCK FALSE
