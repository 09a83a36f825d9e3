SPECIFICATION Spec
CONSTANTS
    Frames <- Cascade
    Pack <- BuiltinRules
    Policies <- Shipped
    Texts <- OneText
    MaxLatency = 1
    CallTimeout = 3
    Threshold = 2
    OpenFor = 2
    Ttl = 2
    ShortCircuit = 90
    MaxTime = 3
INVARIANTS
    TraceIsRecorded
    InstructionOnlyWarns
