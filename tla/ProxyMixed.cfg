SPECIFICATION Spec
CONSTANTS
    Scripts <- Mixed
    PipeMax = 0
    HighWater = 1
INVARIANTS
    InOrder
    BlockedAreAnswered
    AuditFollowsTraffic
    ExitIsClean
    RepliesWritten
PROPERTIES
    Terminates
