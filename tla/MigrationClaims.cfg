SPECIFICATION Spec
CONSTANTS
    Openers = {"p1", "p2"}
    Base <- Tables
    Statements <- Columns
    Databases <- Files
    Faults = {"interrupt"}
    MaxLaunches = 2
INVARIANTS
    SecondSkips
PROPERTIES
    NextOpenRetries
