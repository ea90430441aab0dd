SPECIFICATION TestSpec
CONSTANTS
    Addons = {}
    HEARTBEAT = 0
    MsgIDMax = 20
    MaxData = 2
    MaxClock = 3
    MaxBehind = 0
    Lenght = 2
INVARIANT
    QueueEmptyAfterJoin
