SPECIFICATION Spec
CONSTANTS
    MaxLinks = 1
    PoolSize = 3
    SegCounts = {1, 3}
    MaxSends = 1
    MaxOpens = 1
    TxIdInit <- MCTxIdInit
    Lossy = FALSE
    OtherTraffic = FALSE
INVARIANT
    FailedBeforeClose
CHECK_DEADLOCK FALSE
