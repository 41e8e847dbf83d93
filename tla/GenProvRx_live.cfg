CONSTANTS
    MaxLinks = 1
    PduLens <- MCPduLens
    RxBufSize = 68
    Honest = TRUE
    MaxClaimedSeg = 2
    UpperMayClose = TRUE
    LocalFailures = TRUE
    BoundedDelay = TRUE
SPECIFICATION FairSpec
PROPERTY AckedEventually
CHECK_DEADLOCK FALSE
