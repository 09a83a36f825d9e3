SPECIFICATION WedgedSpec
CONSTANTS
    Scripts <- Quiet
    PipeMax = 0
    HighWater = 0
PROPERTIES
    Terminates
