SPECIFICATION Spec
CONSTANTS
    QueueMax = 2
    BatchSize = 1
    MaxEvents = 4
    MaxUpserts = 0
    Faults = {}
    MayTimeOut = TRUE
    Stop = Stop
INVARIANTS
    DrainedAtClose
    RowsMatchRecords
