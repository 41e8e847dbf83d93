----------------------------- MODULE MCProvLink -----------------------------
(* Model-checking instance of ProvLink: two successive links, enough PDUs   *)
(* per link for a whole provisioning run plus one out-of-order PDU.        *)
EXTENDS ProvLink

\* The PDUs a provisioner sends, and Capabilities as a representative of the
\* types a provisionee never expects.
MCPeerTypes == {PROV_INVITE, PROV_CAPABILITIES, PROV_START, PROV_PUB_KEY,
                PROV_CONFIRM, PROV_RANDOM, PROV_DATA, PROV_FAILED}
=============================================================================
