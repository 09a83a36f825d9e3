SPECIFICATION Spec
CONSTANTS
    Frames <- TwoTools
    Pack <- BuiltinRules
    Policies <- Shipped
    Texts <- TwoTexts
    MaxLatency = 1
    CallTimeout = 5
    Threshold = 3
    OpenFor = 3
    Ttl = 2
    ShortCircuit = 90
    MaxTime = 6
INVARIANTS
    SlowOllamaOpens
