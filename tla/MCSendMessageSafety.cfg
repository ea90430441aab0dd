SPECIFICATION Spec
CONSTANTS
    Protos <- MCProtos
    Numbers = {65793}
    Texts = {24, 35, 255}
    BufSize = 5
    Lengths = {3, 4, 5, 7}
    MaxCalls = 3
INVARIANTS
    TypeOK
    LoadedAsMeant
    ClearOnlyIfAsked
    LeakOnlyOnFailedSend
    TlsStatusTruthful
    UdpStatusTruthfulAfterFirstError
