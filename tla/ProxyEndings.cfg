SPECIFICATION Spec
CONSTANTS
    Scripts <- Talk
    PipeMax = 0
    HighWater = 1
INVARIANTS
    SignalDrains
    SessionIsClosed
    RepliesReach
    EveryFrameLogged
