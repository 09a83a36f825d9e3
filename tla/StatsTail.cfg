SPECIFICATION StatsSpec
CONSTANTS
    Writers = {"w1", "w2"}
    InitialTail = 1
    Chunk = 2
    MaxRows = 4
    Logs <- MCLogs
    Span = 2
    Top = 1
    Now = 5
INVARIANTS
    ShownInOrder
    ReportsAreRight
PROPERTIES
    AllShown
