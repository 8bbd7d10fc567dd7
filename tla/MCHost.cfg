SPECIFICATION MissionSpec
CONSTANTS
    Heartbeat = 1
    Budgets <- TwoBudgets
    Sweep = 1
    Horizon = 12
    MaxStalls = 1
    MaxBoots = 1
    MaxChanges = 1
    m1 = m1
    m2 = m2
    Machines <- TwoMachines
    Tokens = {1, 2}
    Sockets = {1, 2}
    MaxBeats = 1
    MaxRevokes = 1
    MaxFaults = 1
    Tickets = {"ticket"}
    MaxGrants = 2
    Personal = {2}
    MaxTurns = 1
    MaxEvents = 1
    Releases = 2
    MaxInstallAttempts = 2
    MaxClicksApp = 2
    MaxLaunches = 4
    MaxCrashesLocal = 1
    Facts = {"builds", "tests"}
    MaxEntries = 2
    MaxRecords = 3
    MaxForgets = 2
    MaxClears = 1
    MaxBadWrites = 1
    MaxReboots = 1
    Hosts = {1}
    PairingTokens = {1}
    MaxScripts = 3
    MaxDaemons = 1
    Tabs = {"tab"}
    MaxClicks = 2
    MaxUpsets = 1
    Pages = {"page"}
    DefaultName = "brevi-evidence"
    OtherNames = {"mine"}
    MaxPresses = 2
    MaxTyped = 1
    MaxTwists = 1
INVARIANTS
    FenceHolds
    RevocationIsExact
    PairingIsExact
    LastDecisionStands
    PollsAreExact
    WorkerHasItsHost
    DeletionsStick
    RowsAreBacked
    PublishingIsAskedFor
PROPERTIES
    FoundAccountsStay
SYMMETRY MachineSymmetry
\* Every bound is reached in the end.
CHECK_DEADLOCK FALSE
