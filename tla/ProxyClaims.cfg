SPECIFICATION Spec
CONSTANTS
    Scripts <- Mixed
    PipeMax = 0
    HighWater = 0
INVARIANTS
    ArrayKept
    AllMembersAnswered
    LongForwarded
