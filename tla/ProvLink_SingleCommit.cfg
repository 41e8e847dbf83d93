\* Expected violation of SingleCommit (see PROJECT.json findings).
CONSTANTS
    MaxLinks = 1
    MaxPdus = 12
    PeerTypes <- MCPeerTypes
    LocalFailures = FALSE
    Bearers = {"adv"}
    ZeroLinkId = FALSE
SPECIFICATION Spec
CHECK_DEADLOCK FALSE
INVARIANT SingleCommit
