SPECIFICATION Spec
CONSTANTS
    Writers = {"w1", "w2"}
    InitialTail = 0
    Chunk = 2
    MaxRows = 3
INVARIANTS
    OldRowsAreTail
