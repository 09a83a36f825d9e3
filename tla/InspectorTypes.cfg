SPECIFICATION Spec
CONSTANTS
    Frames <- AllFrames
    Pack <- BuiltinRules
    Policies <- Both
    Texts <- TwoTexts
    MaxLatency = 1
    CallTimeout = 1
    Threshold = 2
    OpenFor = 2
    Ttl = 1
    ShortCircuit = 90
    MaxTime = 4
INVARIANTS
    TypeOK
    InstructionIsMarked
PROPERTIES
    InspectionEnds
