---------------------------- MODULE MCGenProvTx ----------------------------
EXTENDS GenProvTx

\* tx.id is 0 after boot and after reset_link; close_link keeps it, so a new
\* link can start just before the wrap.
MCTxIdInit == {0, 254}
=============================================================================
