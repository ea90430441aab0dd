SPECIFICATION FairSpec
CONSTANTS
    a1 = a1
    a2 = a2
    AddonsThreads <- MCAddonsThreads
    MaxDeliveries = 2
PROPERTY
    SignalLatched
