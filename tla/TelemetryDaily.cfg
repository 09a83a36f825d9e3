SPECIFICATION TelemetrySpec
CONSTANTS
    Processes = {"p1", "p2"}
    Endpoints = {"url", "disabled"}
    MayDie = TRUE
    MayRemove = TRUE
    MaxSends = 2
INVARIANTS
    SentIsLogged
    IdentityIsKept
