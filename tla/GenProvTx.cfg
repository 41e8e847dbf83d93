SPECIFICATION Spec
CONSTANTS
    MaxLinks = 1
    PoolSize = 3
    SegCounts = {1, 3}
    MaxSends = 2
    MaxOpens = 1
    TxIdInit <- MCTxIdInit
    Lossy = TRUE
    OtherTraffic = TRUE
INVARIANTS
    TypeOK
    TxXactInDeviceRange
PROPERTIES
    AckedImpliesReceived
    NoStall
CHECK_DEADLOCK FALSE
