SPECIFICATION Spec
CONSTANTS
    QueueMax = 4
    BatchSize = 2
    MaxEvents = 5
    MaxUpserts = 1
    Faults = {"row", "commit"}
    MayTimeOut = TRUE
    Stop = Stop
INVARIANTS
    FlushedIsDurable
    AtMostTwice
    AllAccountedFor
PROPERTIES
    SessionEnded
    ShutdownCompletes
