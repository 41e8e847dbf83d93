\* Expected violation of CmdPathSound (see PROJECT.json findings).
CONSTANTS
    Callers <- MCCallers
    Asyncs <- MCAsyncs
    PoolSize = 2
    NoCmd = "none"
    SendFailures = TRUE
SPECIFICATION Spec
INVARIANT CmdPathSound
\* Once every command has returned the host has nothing left to send.
CHECK_DEADLOCK FALSE
