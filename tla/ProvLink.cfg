\* Provisionee state machine against an arbitrary peer, with local
\* resource and crypto failures, over two links on either bearer, with
\* PB-ADV frames of link id 0 reaching a GATT link.
CONSTANTS
    MaxLinks = 2
    MaxPdus = 7
    PeerTypes <- MCPeerTypes
    LocalFailures = TRUE
    Bearers = {"adv", "gatt"}
    ZeroLinkId = TRUE
SPECIFICATION Spec
CHECK_DEADLOCK FALSE
INVARIANT TypeOK LocalKeyKept
PROPERTY CommitRequiresAuth DeferredConfirmSent
