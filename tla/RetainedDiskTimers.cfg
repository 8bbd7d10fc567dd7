SPECIFICATION DiskSpec
CONSTANTS
    Capacity = 1
    MaxDiskAttempts = 2
    MaxRetries = 1
    MaxSessions = 1
    MaxBreaks = 1
INVARIANT WaitersHaveATimer
\* The bounds stop the rest.
CHECK_DEADLOCK FALSE
