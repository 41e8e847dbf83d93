CONSTANTS
    MaxLinks = 1
    PduLens <- MCPduLens
    RxBufSize = 68
    Honest = FALSE
    MaxClaimedSeg = 4
    UpperMayClose = FALSE
    LocalFailures = FALSE
    BoundedDelay = TRUE
SPECIFICATION Spec
INVARIANT SegWriteInBounds
CHECK_DEADLOCK FALSE
