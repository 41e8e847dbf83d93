------------------------------- MODULE HciCmd -------------------------------
(***************************************************************************)
(* The HCI command path of the Bluetooth host (bt_host/host/hci_core.c):  *)
(* bt_hci_cmd_create, bt_hci_cmd_send, bt_hci_cmd_send_sync, the command  *)
(* queue drained by process_events (from hci_tx_thread and from every     *)
(* synchronous caller's polling loop), send_cmd with its single           *)
(* bt_dev.sent_cmd slot, and the Command Complete / Command Status path   *)
(* bt_buf_get_cmd_complete -> bt_recv_prio -> hci_cmd_done.               *)
(*                                                                         *)
(* A command is named by its opcode; every command of a run has its own.  *)
(* A buffer of hci_cmd_pool is a record of its reference count and of the *)
(* struct cmd_data user data (opcode, sync, status), plus the command     *)
(* whose Complete was written into it (NoCmd while it holds the command). *)
(* The controller is outside this repository: it takes what bt_send       *)
(* hands it and answers each command, in order, with any status.  With   *)
(* SendFailures, bt_send may also refuse a command (the driver's error).  *)
(***************************************************************************)
EXTENDS Naturals, Sequences, FiniteSets

CONSTANTS
    Callers,    \* threads calling bt_hci_cmd_send_sync, one command each
    Asyncs,     \* commands sent with bt_hci_cmd_send from the rx context
    PoolSize,   \* CONFIG_BT_HCI_CMD_COUNT, the buffers of hci_cmd_pool
    NoCmd,      \* no command: a buffer that holds no Complete
    SendFailures \* whether bt_send may return an error

Cmds == Callers \cup Asyncs

ASSUME /\ Callers \cap Asyncs = {}
       /\ NoCmd \notin Cmds
       /\ PoolSize \in Nat \ {0}

Bufs == 1..PoolSize
NULL == 0

\* hci_tx_thread, and the synchronous callers that run process_events too.
TX == "tx"
Senders == {TX} \cup Callers

SYNC_TX == 1
SYNC_TX_DONE == 2

\* 0 is success, 1 stands for every HCI error code.
Status == {0, 1}

\* A buffer is referenced by its creator (until bt_send takes it), by
\* bt_dev.sent_cmd, and by a synchronous caller.
MaxRefs == 3

NoResult == [err |-> FALSE, rsp |-> NoCmd, done |-> FALSE]

VARIABLES
    free,      \* the buffers of hci_cmd_pool not allocated
    bufs,      \* Bufs -> [ref, cmd, sync, status, evt]
    queue,     \* bt_dev.cmd_tx_queue
    sentCmd,   \* bt_dev.sent_cmd
    sending,   \* the buffer each sender took from the queue in send_cmd
    ctl,       \* commands the controller has not answered yet
    pc,        \* each caller: "idle", "wait" (in its loop) or "done"
    cbuf,      \* the buffer of each caller's command
    result,    \* what bt_hci_cmd_send_sync returned: err, and whose
               \* Complete *rsp holds
    asyncPc,   \* each asynchronous command: "idle" or "queued"
    nullDeref  \* send_cmd's hci_cmd_done(.., NULL): "no", or what the
               \* read of NULL->pool_id did: "returned" or "faulted"

vars == <<free, bufs, queue, sentCmd, sending, ctl, pc, cbuf, result, asyncPc, nullDeref>>

CmdData == [ref : 0..MaxRefs, cmd : Cmds \cup {NoCmd}, sync : {0, SYNC_TX, SYNC_TX_DONE},
            status : Status, evt : Cmds \cup {NoCmd}]

TypeOK ==
    /\ free \subseteq Bufs
    /\ bufs \in [Bufs -> CmdData]
    /\ queue \in Seq(Bufs)
    /\ sentCmd \in Bufs \cup {NULL}
    /\ sending \in [Senders -> Bufs \cup {NULL}]
    /\ ctl \in Seq(Cmds)
    /\ pc \in [Callers -> {"idle", "wait", "done"}]
    /\ cbuf \in [Callers -> Bufs \cup {NULL}]
    /\ result \in [Callers -> [err : BOOLEAN, rsp : Cmds \cup {NoCmd}, done : BOOLEAN]]
    /\ asyncPc \in [Asyncs -> {"idle", "queued"}]
    /\ nullDeref \in {"no", "returned", "faulted"}

\* The pool is static storage and net_buf_alloc does not clear user data:
\* the status of a buffer never used is whatever its memory holds.
Init ==
    /\ free = Bufs
    /\ \E st \in [Bufs -> Status] :
           bufs = [b \in Bufs |-> [ref |-> 0, cmd |-> NoCmd, sync |-> 0,
                                   status |-> st[b], evt |-> NoCmd]]
    /\ queue = <<>>
    /\ sentCmd = NULL
    /\ sending = [t \in Senders |-> NULL]
    /\ ctl = <<>>
    /\ pc = [c \in Callers |-> "idle"]
    /\ cbuf = [c \in Callers |-> NULL]
    /\ result = [c \in Callers |-> NoResult]
    /\ asyncPc = [a \in Asyncs |-> "idle"]
    /\ nullDeref = "no"

-----------------------------------------------------------------------------
(* Buffers.                                                                *)

\* net_buf_unref of buffer b in the table bt: the buffer goes back to the
\* pool when its last reference is dropped.
Freed(bt, b) == IF bt[b].ref = 0 THEN {b} ELSE {}

\* bt_hci_cmd_create(op): a buffer of hci_cmd_pool with type, opcode and
\* sync set; status is left as the buffer's previous user left it.
CmdCreate(r, op) == [r EXCEPT !.ref = 1, !.cmd = op, !.sync = 0, !.evt = NoCmd]

\* bt_hci_cmd_send for any opcode but HOST_NUM_COMPLETED_PACKETS: create
\* (K_FOREVER: blocks while the pool is empty) and queue.
AsyncSend(a) ==
    /\ asyncPc[a] = "idle"
    /\ \E b \in free :
           /\ free' = free \ {b}
           /\ bufs' = [bufs EXCEPT ![b] = CmdCreate(@, a)]
           /\ queue' = Append(queue, b)
    /\ asyncPc' = [asyncPc EXCEPT ![a] = "queued"]
    /\ UNCHANGED <<sentCmd, sending, ctl, pc, cbuf, result, nullDeref>>

\* bt_hci_cmd_send_sync up to its polling loop: create, sync = SYNC_TX,
\* net_buf_ref, queue.
SyncSend(c) ==
    /\ pc[c] = "idle"
    /\ \E b \in free :
           /\ free' = free \ {b}
           /\ bufs' = [bufs EXCEPT ![b] = [CmdCreate(@, c) EXCEPT !.sync = SYNC_TX, !.ref = 2]]
           /\ queue' = Append(queue, b)
           /\ cbuf' = [cbuf EXCEPT ![c] = b]
    /\ pc' = [pc EXCEPT ![c] = "wait"]
    /\ UNCHANGED <<sentCmd, sending, ctl, result, asyncPc, nullDeref>>

-----------------------------------------------------------------------------
(* Sending: process_events and send_cmd.  send_cmd is two steps, since a  *)
(* sender can be preempted between clearing sent_cmd and setting it.      *)

\* send_cmd's "Clear out any existing sent command".
ClearSentCmd ==
    IF sentCmd = NULL
    THEN UNCHANGED <<bufs, free, sentCmd>>
    ELSE LET bt == [bufs EXCEPT ![sentCmd].ref = @ - 1]
         IN  /\ bufs' = bt
             /\ free' = free \cup Freed(bt, sentCmd)
             /\ sentCmd' = NULL

\* process_events on the command FIFO: net_buf_get(K_NO_WAIT), then the
\* first half of send_cmd.  A caller runs it from its own loop.
ProcessEvents(t) ==
    /\ queue # <<>>
    /\ sending[t] = NULL
    /\ t \in Callers => pc[t] = "wait"
    /\ sending' = [sending EXCEPT ![t] = Head(queue)]
    /\ queue' = Tail(queue)
    /\ ClearSentCmd
    /\ UNCHANGED <<ctl, pc, cbuf, result, asyncPc, nullDeref>>

\* hci_tx_thread polling the command FIFO.
TxThread == ProcessEvents(TX)

\* bt_send(buf): with CONFIG_BT_TINYCRYPT_ECC through bt_hci_ecc_send to
\* the driver, which takes the creator's reference.
BtSend(b) == ctl' = Append(ctl, bufs[b].cmd)

\* The rest of send_cmd: sent_cmd = net_buf_ref(buf), bt_send(buf).
SendCmd(t) ==
    /\ sending[t] # NULL
    /\ sentCmd' = sending[t]
    /\ BtSend(sending[t])
    /\ sending' = [sending EXCEPT ![t] = NULL]
    /\ UNCHANGED <<free, bufs, queue, pc, cbuf, result, asyncPc, nullDeref>>

\* send_cmd when bt_send fails: hci_cmd_done(opcode, ..., NULL) reads
\* NULL->pool_id.  The read is undefined: the MCU faults, or it reads
\* some pool id other than hci_cmd_pool's and hci_cmd_done returns at its
\* pool check.  Then the reference of sent_cmd and the creator's are
\* dropped and sent_cmd is cleared.
SendCmdFailed(t) ==
    /\ SendFailures
    /\ sending[t] # NULL
    /\ \E outcome \in {"returned", "faulted"} : nullDeref' = outcome
    /\ LET b  == sending[t]
           bt == [bufs EXCEPT ![b].ref = @ - 1]
       IN  /\ bufs' = bt
           /\ free' = free \cup Freed(bt, b)
    /\ sentCmd' = NULL
    /\ sending' = [sending EXCEPT ![t] = NULL]
    /\ UNCHANGED <<queue, ctl, pc, cbuf, result, asyncPc>>

-----------------------------------------------------------------------------
(* Command Complete and Command Status.                                    *)

\* hci_cmd_done(opcode, status, buf) on a buffer of hci_cmd_pool: an
\* opcode other than cmd(buf)->opcode only draws a warning; a synchronous
\* buffer gets the status and SYNC_TX_DONE.  Then bt_recv_prio's unref.
CmdDone(r, op, st) ==
    [r EXCEPT !.evt = op,
              !.status = IF r.sync # 0 THEN st ELSE @,
              !.sync = IF @ # 0 THEN SYNC_TX_DONE ELSE @,
              !.ref = @ - 1]

\* bt_buf_get_cmd_complete: the driver's buffer for the event is
\* bt_dev.sent_cmd, taken under irq_lock, or else a fresh rx buffer, for
\* which hci_cmd_done returns at its pool check.
TakeSentCmd(op, st) ==
    IF sentCmd = NULL
    THEN UNCHANGED <<bufs, free, sentCmd>>
    ELSE LET bt == [bufs EXCEPT ![sentCmd] = CmdDone(@, op, st)]
         IN  /\ bufs' = bt
             /\ free' = free \cup Freed(bt, sentCmd)
             /\ sentCmd' = NULL

\* The controller answers its oldest command; bt_recv_prio runs
\* hci_cmd_complete or hci_cmd_status, both ending in hci_cmd_done.
CmdComplete ==
    /\ ctl # <<>>
    /\ \E st \in Status : TakeSentCmd(Head(ctl), st)
    /\ ctl' = Tail(ctl)
    /\ UNCHANGED <<queue, sending, pc, cbuf, result, asyncPc, nullDeref>>

-----------------------------------------------------------------------------
(* The end of bt_hci_cmd_send_sync.                                        *)

\* The answer to buffer b can still come: b is queued, being sent, or is
\* sent_cmd with a command outstanding.
AnswerPending(b) ==
    \/ \E i \in DOMAIN queue : queue[i] = b
    \/ \E t \in Senders : sending[t] = b
    \/ sentCmd = b /\ ctl # <<>>

\* HCI_CMD_TIMEOUT (10 s) has passed.  The controller answers a command in
\* far less, so the timeout is taken only once no answer can reach b.
TimedOut(b) == bufs[b].sync # SYNC_TX_DONE /\ ~AnswerPending(b)

\* The loop ends on SYNC_TX_DONE or the timeout; a nonzero status is
\* -EIO, anything else returns 0 with *rsp = buf, which the caller reads
\* and unrefs.
CallerReturn(c) ==
    /\ pc[c] = "wait"
    /\ sending[c] = NULL
    /\ LET b  == cbuf[c]
           bt == [bufs EXCEPT ![b].ref = @ - 1]
       IN  /\ bufs[b].sync = SYNC_TX_DONE \/ TimedOut(b)
           /\ result' = [result EXCEPT ![c] = [err |-> bufs[b].status # 0,
                                               rsp |-> bufs[b].evt,
                                               done |-> bufs[b].sync = SYNC_TX_DONE]]
           /\ bufs' = bt
           /\ free' = free \cup Freed(bt, b)
    /\ pc' = [pc EXCEPT ![c] = "done"]
    /\ cbuf' = [cbuf EXCEPT ![c] = NULL]
    /\ UNCHANGED <<queue, sentCmd, sending, ctl, asyncPc, nullDeref>>

\* A fault stops the device.
Next ==
    /\ nullDeref # "faulted"
    /\ \/ \E a \in Asyncs : AsyncSend(a)
       \/ \E c \in Callers : SyncSend(c) \/ ProcessEvents(c) \/ CallerReturn(c)
       \/ TxThread
       \/ \E t \in Senders : SendCmd(t) \/ SendCmdFailed(t)
       \/ CmdComplete

Spec == Init /\ [][Next]_vars

-----------------------------------------------------------------------------
(* Properties.                                                             *)

\* What every caller of bt_hci_cmd_send_sync relies on: a return of 0
\* means *rsp holds the Complete of its own command.
SyncResultOwn ==
    \A c \in Callers : pc[c] = "done" /\ ~result[c].err => result[c].rsp = c

\* The holders of a reference to buffer b: the command FIFO or a sender in
\* send_cmd (the creator's reference), bt_dev.sent_cmd, a waiting caller.
Holders(b) ==
    LET in(P) == IF P THEN 1 ELSE 0
    IN  in(\E i \in DOMAIN queue : queue[i] = b) + in(\E t \in Senders : sending[t] = b)
        + in(sentCmd = b) + Cardinality({c \in Callers : cbuf[c] = b})

\* Every reference a command buffer has is held by something that drops
\* it, so a buffer whose work is done goes back to hci_cmd_pool, where
\* bt_hci_cmd_create waits for one with K_FOREVER.
RefsHeld == \A b \in Bufs : bufs[b].ref = Holders(b)

\* The command path is sound: send_cmd keeps one reference per holder,
\* never dereferences NULL, and bt_hci_cmd_send_sync returns 0 only with
\* its own command's Complete.
CmdPathSound ==
    /\ SyncResultOwn
    /\ RefsHeld
    /\ nullDeref = "no"

=============================================================================
