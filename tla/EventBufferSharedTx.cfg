SPECIFICATION Spec
CONSTANTS
    QueueMax = 2
    BatchSize = 2
    MaxEvents = 2
    MaxUpserts = 1
    Faults = {"rollback"}
    MayTimeOut = FALSE
    Stop = Stop
INVARIANTS
    FlushedIsDurable
