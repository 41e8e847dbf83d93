\* Expected violation of LinkResourcesOwned (see PROJECT.json findings):
\* a GATT link followed by a PB-ADV link, no link id 0 traffic.
CONSTANTS
    MaxLinks = 2
    MaxPdus = 3
    PeerTypes <- MCPeerTypes
    LocalFailures = FALSE
    Bearers = {"adv", "gatt"}
    ZeroLinkId = FALSE
SPECIFICATION Spec
CHECK_DEADLOCK FALSE
PROPERTY LinkResourcesOwned
