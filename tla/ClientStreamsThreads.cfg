SPECIFICATION Spec
CONSTANTS
    MaxLines = 3
    MaxReplies = 3
INVARIANTS
    OneWriter
    SentIsOut
    LinesArePassedOn
PROPERTIES
    ProcessEnds
