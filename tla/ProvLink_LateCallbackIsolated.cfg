\* Expected violation of LateCallbackIsolated (see PROJECT.json findings).
CONSTANTS
    MaxLinks = 2
    MaxPdus = 5
    PeerTypes <- MCPeerTypes
    LocalFailures = FALSE
    Bearers = {"adv"}
    ZeroLinkId = FALSE
SPECIFICATION Spec
CHECK_DEADLOCK FALSE
PROPERTY LateCallbackIsolated
