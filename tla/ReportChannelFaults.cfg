SPECIFICATION Spec
CONSTANTS
    Script <- MixedScript
    Droppable <- DroppableOrder
    BufferLimit = 2
    MaxDrops = 1
    MaxRestarts = 1
    HardCrash = TRUE
    MaxFailures = 1
INVARIANTS
    TypeOK
    NoSilentLoss
    CompletionIsWhole
    WatermarkHonest
    AppliedOncePerBoot
    GapsAreGone
PROPERTIES
    LogSpec
    FirstWritesInOrder

\* The stream ends when the worker has forgotten the lease.
CHECK_DEADLOCK FALSE
