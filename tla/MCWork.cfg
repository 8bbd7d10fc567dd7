SPECIFICATION WorkSpec
CONSTANTS
    Reviewers = {"bugs", "regressions"}
    MaxAttempts = 2
    Capacity = 1
    MaxDiskAttempts = 2
    MaxRetries = 1
    MaxSessions = 1
    MaxBreaks = 1
    MaxPulls = 2
    MaxRunAttempts = 2
    MaxAnswers = 2
    MaxStops = 1
    MaxClicks = 2
    MaxAround = 1
    Executions = {"a", "b"}
    Slots = 2
    MaxCuts = 1
INVARIANTS
    NoWorkOutlivesItsSandbox
    CompletedIsDelivered
    
    ArchivedIsOver
    WhatWasDoneIsShown
    CleanStopsAreWhole
PROPERTIES
    HumanPushesStand
    EveryAttemptSettles
\* Executions end, and the bounds stop the rest.
CHECK_DEADLOCK FALSE
