SPECIFICATION FairSpec
CONSTANTS
    Script <- ShortScript
    Droppable <- DroppableOrder
    BufferLimit = 1
    MaxDrops = 1
    MaxRestarts = 1
    HardCrash = FALSE
    MaxFailures = 1
PROPERTIES
    StreamSettles

\* The stream ends when the worker has forgotten the lease.
CHECK_DEADLOCK FALSE
