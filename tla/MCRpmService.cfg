SPECIFICATION Spec
CONSTANTS
    MaxPid = 7
    MaxHups = 1
    MaxCommands = 4
INVARIANTS
    TypeOK
    OneBesideTheLeft
    RunsUnderLock
