SPECIFICATION TelemetrySpec
CONSTANTS
    Processes = {"p1", "p2"}
    Endpoints = {"url"}
    MayDie = FALSE
    MayRemove = FALSE
    MaxSends = 2
INVARIANTS
    LoggedFirst
    OneIdentity
