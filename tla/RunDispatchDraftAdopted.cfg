SPECIFICATION Spec
CONSTANTS
    None = None
    r1 = r1
    Workers = {1}
    Runs = {r1}
    Leases = {1, 2}
    Capacity = 1
    Commands = {}
    Outcomes = {"completed", "failed"}
    MaxCommands = 0
    MaxBreaks = 1
    MaxHostRestarts = 0
    MaxWorkerRestarts = 0
    MaxWriteFailures = 0
    MaxFences = 0
PROPERTIES
    AdoptedWorkIsFinished

\* Every run may have ended.
CHECK_DEADLOCK FALSE
