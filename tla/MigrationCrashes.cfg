SPECIFICATION Spec
CONSTANTS
    Openers = {"p1", "p2", "p3"}
    Base <- Tables
    Statements <- Columns
    Databases <- Files
    Faults = {"statement", "commit", "busy", "interrupt"}
    MaxLaunches = 4
INVARIANTS
    StampedIsComplete
    OpenIsCurrent
PROPERTIES
    MigratesAtOnce
    OpenEnds
