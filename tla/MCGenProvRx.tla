---------------------------- MODULE MCGenProvRx ----------------------------
EXTENDS GenProvRx

\* An Invite (2 bytes, one segment) followed by a Public Key (65 bytes,
\* three segments), the largest PDU the device receives.
MCPduLens == <<2, 65>>

=============================================================================
