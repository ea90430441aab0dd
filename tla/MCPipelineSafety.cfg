SPECIFICATION Spec
CONSTANTS
    a1 = a1
    a2 = a2
    Addons = {a1, a2}
    HEARTBEAT = 1
    MsgIDMax = 3
    MaxData = 3
    MaxClock = 4
    MaxBehind = 1
SYMMETRY AddonSymmetry
INVARIANTS
    TypeOK
    NoDatumLost
    TailInHand
    HeadInHand
    PeekIsStable
    AtMostOneHeartbeat
    LeftBehind
    SilenceBound
    NoCircularWait
PROPERTY
    ImplementsDelivery
