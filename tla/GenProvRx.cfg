CONSTANTS
    MaxLinks = 2
    PduLens <- MCPduLens
    RxBufSize = 68
    Honest = TRUE
    MaxClaimedSeg = 2
    UpperMayClose = TRUE
    LocalFailures = TRUE
    BoundedDelay = TRUE
SPECIFICATION Spec
INVARIANT TypeOK NoSpuriousClose SegWriteInBounds
PROPERTY ImplementsTransport
CHECK_DEADLOCK FALSE
