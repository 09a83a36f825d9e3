SPECIFICATION SetupSpec
CONSTANTS
    Worlds <- MCWorlds
    Edited <- MCEdited
    MaxCommands = 2
    MaxEdits = 1
INVARIANTS
    LintIsRight
    TrialsAreApart
PROPERTIES
    RehearsalIsRight
CHECK_DEADLOCK FALSE
