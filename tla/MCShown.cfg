SPECIFICATION ShownSpec
CONSTANTS
    MaxTokens = 1
    MaxExecutions = 2
    MaxReviews = 2
    Viewers = {"page"}
    CalendarDays = {1}
    Unreadable = {{}}
    MaxCollections = 2
    MaxSpent = 1
    MaxLines = 2
    Edits <- OneEdit
    HeaderLike = {"-- z"}
    MaxTable = 6
    MaxCalls = 2
    MaxProcesses = 2
    MaxTurns = 2
    MaxLogged = 2
    MaxOpens = 2
    MaxBreaks = 1
INVARIANTS
    SpendIsCountedOnce
    SpendIsReportedOnce
    FeedIsTrue
    ConsoleHasEverything
\* Every bound is reached in the end.
CHECK_DEADLOCK FALSE
