SPECIFICATION Spec
CONSTANTS
    QueueMax = 2
    BatchSize = 2
    MaxEvents = 4
    MaxUpserts = 0
    Faults = {"row"}
    MayTimeOut = FALSE
    Stop = Stop
INVARIANTS
    ReportedStayOut
