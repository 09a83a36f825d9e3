SPECIFICATION Spec
CONSTANTS
    Frames <- OneTool
    Pack <- BuiltinRules
    Policies <- Shipped
    Texts <- OneText
    MaxLatency = 2
    CallTimeout = 2
    Threshold = 2
    OpenFor = 2
    Ttl = 1
    ShortCircuit = 90
    MaxTime = 6
PROPERTIES
    ProbeReopens
