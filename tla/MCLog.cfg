SPECIFICATION FairSpec
CONSTANTS
    Threads = {"main", "sender"}
    MaxFiles = 3
    MaxLines = 2
    MaxSignals = 2
INVARIANTS
    TypeOK
    EachLineOnce
    FallbackOnlyWhenExhausted
PROPERTY
    CallsReturn
