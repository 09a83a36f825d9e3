SPECIFICATION Spec
CONSTANTS
    Connections = {"a", "b"}
    Timeout = 2
    Ttl = 1
    MaxTime = 3
    MaxRows = 2
PROPERTIES
    AnswersAreFresh
    NeverGoesBack
    ScansAreRare
    CloseEnds
