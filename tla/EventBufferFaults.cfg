SPECIFICATION Spec
CONSTANTS
    QueueMax = 3
    BatchSize = 2
    MaxEvents = 5
    MaxUpserts = 0
    Faults = {"row", "rollback", "commit"}
    MayTimeOut = FALSE
    Stop = Stop
INVARIANTS
    InOrderOnce
PROPERTIES
    ImplementsAuditLog
