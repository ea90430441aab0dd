SPECIFICATION TestFairSpec
CONSTANTS
    Addons = {}
    HEARTBEAT = 0
    MsgIDMax = 20
    MaxData = 2
    MaxClock = 3
    MaxBehind = 0
    Lenght = 2
INVARIANTS
    TestTypeOK
    ReceivedInOrder
    NoValueOverrun
    SentIsReceived
PROPERTY
    SendReturns
