CONSTANTS
    MaxLinks = 2
    PduLens <- MCPduLens
    RxBufSize = 68
    Honest = TRUE
    MaxClaimedSeg = 2
    UpperMayClose = TRUE
    LocalFailures = FALSE
    BoundedDelay = TRUE
SPECIFICATION Spec
INVARIANT AckImpliesDelivered
CHECK_DEADLOCK FALSE
