------------------------------ MODULE MCHciCmd ------------------------------
EXTENDS HciCmd

\* Two threads calling bt_hci_cmd_send_sync and one command sent without
\* waiting.  In this build (CONFIG_BT_USING_HCI_API, SMP off) the users of
\* this path are the ECC commands (bt_pub_key_gen, bt_dh_key_gen, both sent
\* asynchronously) and set_public_address (synchronous); advertising goes
\* through hci_api_*.  No code in this tree runs two synchronous callers at
\* once, so the two callers stand for any future caller of the exported
\* bt_hci_cmd_send_sync; the NULL dereference and the stale-status timeout
\* need only one of them.
MCCallers == {"c1", "c2"}
MCAsyncs == {"a1"}

=============================================================================
