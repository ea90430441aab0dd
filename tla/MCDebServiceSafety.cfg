SPECIFICATION Spec
CONSTANTS
    MaxPid = 9
    MaxHups = 1
    MaxCommands = 3
INVARIANTS
    TypeOK
    StopLeavesNothing
    RestartLeavesOne
    DaemonIsNamed
