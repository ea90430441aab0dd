SPECIFICATION FairSpec
CONSTANTS
    a1 = a1
    a2 = a2
    Addons = {a1}
    HEARTBEAT = 0
    MsgIDMax = 2
    MaxData = 2
    MaxClock = 2
    MaxBehind = 0
PROPERTIES
    EveryDatumAttempted
    ShutdownCompletes
