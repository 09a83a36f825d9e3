SPECIFICATION SetupSpec
CONSTANTS
    Worlds <- MCWorlds
    Edited <- MCEdited
    MaxCommands = 1
    MaxEdits = 0
INVARIANTS
    LintMirrorsLoader
    LintReturns
    TrialsReturn
PROPERTIES
    DoctorOnlyLooks
CHECK_DEADLOCK FALSE
