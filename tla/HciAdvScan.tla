----------------------------- MODULE HciAdvScan -----------------------------
(***************************************************************************)
(* The LE advertising and scanning state of the Bluetooth host            *)
(* (bt_host/host/hci_core.c): bt_le_adv_start, bt_le_adv_start_instant,   *)
(* bt_le_adv_stop, bt_le_scan_start, bt_le_scan_stop, bt_le_scan_update,  *)
(* and the connection events that change it (le_enh_conn_complete,       *)
(* hci_disconn_complete), over the bt_dev.flags bits ADVERTISING,         *)
(* KEEP_ADVERTISING, SCANNING, ACTIVE_SCAN and EXPLICIT_SCAN.             *)
(*                                                                         *)
(* Every HCI command is a blocking call (bt_hci_cmd_send_sync, or the      *)
(* hci_api_* functions with CONFIG_BT_USING_HCI_API): the controller      *)
(* executes it when it is issued and the caller goes on with its status   *)
(* in a later step.  A step of a thread is therefore the code between two *)
(* commands: it consumes the status of the previous command, updates the  *)
(* flags and issues the next command.  The API threads and the thread     *)
(* that runs the HCI event handlers interleave at these points.           *)
(*                                                                         *)
(* The controller (not in this repository) follows the LE command rules   *)
(* of the Core specification that the code depends on: Set Advertising    *)
(* Parameters is disallowed while advertising, Set Scan Parameters while  *)
(* scanning, Set Random Address while either; a central may connect to a  *)
(* connectable advertiser, which stops advertising; a connection may end. *)
(* With LocalFailures any command may fail (-ENOBUFS, -EIO, -EINVAL from  *)
(* set_ad).  Advertising data, addresses, intervals and the scan filter   *)
(* are data that no flag depends on and are left out.                     *)
(***************************************************************************)
EXTENDS Naturals, Sequences

CONSTANTS
    Apps,           \* threads calling the advertising and scanning API
    MaxCalls,       \* API calls per thread
    MaxConn,        \* connections the controller accepts (CONFIG_BT_MAX_CONN)
    MaxEvents,      \* connection and disconnection events of a run
    SlaveConnAdv,   \* BT_LE_STATES_SLAVE_CONN_ADV(bt_dev.le.states)
    AdvIntervals,   \* <<interval_min, interval_max>> the callers pass
    ScanWindows,    \* <<interval, window>> the callers pass
    LocalFailures   \* whether a command may fail for a local reason

RX == "rx"          \* the context that runs hci_event()
Threads == Apps \cup {RX}

ASSUME RX \notin Apps

ADVERTISING == "ADVERTISING"
KEEP_ADVERTISING == "KEEP_ADVERTISING"
SCANNING == "SCANNING"
ACTIVE_SCAN == "ACTIVE_SCAN"
EXPLICIT_SCAN == "EXPLICIT_SCAN"
Flags == {ADVERTISING, KEEP_ADVERTISING, SCANNING, ACTIVE_SCAN, EXPLICIT_SCAN}

Cmds == {"adv_data", "scan_rsp", "adv_param", "adv_enable", "adv_disable",
         "rand_addr", "scan_param", "scan_enable", "scan_disable"}

Calls == {"adv_start", "adv_start_instant", "adv_stop", "scan_start", "scan_stop"}

\* The arguments of one API call: the advertising options
\* (BT_LE_ADV_OPT_CONNECTABLE, BT_LE_ADV_OPT_ONE_TIME), whether scan
\* response data is passed (sd, sd_len), the scan type and the intervals
\* that valid_adv_param/valid_le_scan_param check.
Op == [call : Calls, conn : BOOLEAN, once : BOOLEAN, sd : BOOLEAN,
       active : BOOLEAN, adv : AdvIntervals, scan : ScanWindows]

NoOp == [call |-> "adv_stop", conn |-> FALSE, once |-> FALSE, sd |-> FALSE,
         active |-> FALSE,
         adv |-> CHOOSE i \in AdvIntervals : TRUE,
         scan |-> CHOOSE w \in ScanWindows : TRUE]

VARIABLES
    flags,      \* bt_dev.flags, the bits above
    ctl,        \* the controller: advertising, its type, scanning, links
    evq,        \* HCI events the controller has raised and hci_event not run
    pc,         \* where each thread is
    op,         \* the call each API thread is in
    st,         \* status of the command a thread issued last (0: success)
    calls,      \* API calls made by each thread
    events,     \* connection events raised so far
    advStopped  \* bt_le_adv_stop returned 0 and no start was called since

vars == <<flags, ctl, evq, pc, op, st, calls, events, advStopped>>

Labels == {"idle", "as_data", "as_rsp", "as_addr", "as_param", "as_enable",
           "ast_dis", "ast_addr", "ss_dis", "ls_addr", "ls_param", "ls_en",
           "su_dis", "dc_en", "cc_en"}

TypeOK ==
    /\ flags \subseteq Flags
    /\ ctl \in [adv : BOOLEAN, conn : BOOLEAN, scan : BOOLEAN, links : 0..MaxConn]
    /\ evq \in Seq({"conn", "disconn"})
    /\ pc \in [Threads -> Labels]
    /\ op \in [Threads -> Op]
    /\ st \in [Threads -> {0, 1}]
    /\ calls \in [Apps -> 0..MaxCalls]
    /\ events \in 0..MaxEvents
    /\ advStopped \in BOOLEAN

Init ==
    /\ flags = {}
    /\ ctl = [adv |-> FALSE, conn |-> FALSE, scan |-> FALSE, links |-> 0]
    /\ evq = <<>>
    /\ pc = [t \in Threads |-> "idle"]
    /\ op = [t \in Threads |-> NoOp]
    /\ st = [t \in Threads |-> 0]
    /\ calls = [a \in Apps |-> 0]
    /\ events = 0
    /\ advStopped = FALSE

-----------------------------------------------------------------------------
(* The controller.                                                         *)

Allowed(c) ==
    CASE c = "adv_param"  -> ~ctl.adv
      [] c = "scan_param" -> ~ctl.scan
      [] c = "rand_addr"  -> ~ctl.adv /\ ~ctl.scan
      [] OTHER            -> TRUE

Statuses(c) ==
    IF ~Allowed(c) THEN {1} ELSE IF LocalFailures THEN {0, 1} ELSE {0}

Execute(c, conn) ==
    CASE c = "adv_param"    -> [ctl EXCEPT !.conn = conn]
      [] c = "adv_enable"   -> [ctl EXCEPT !.adv = TRUE]
      [] c = "adv_disable"  -> [ctl EXCEPT !.adv = FALSE]
      [] c = "scan_enable"  -> [ctl EXCEPT !.scan = TRUE]
      [] c = "scan_disable" -> [ctl EXCEPT !.scan = FALSE]
      [] OTHER              -> ctl

\* Thread t issues command c and waits at label next.
Issue(t, c, conn, next) ==
    \E s \in Statuses(c) :
        /\ st' = [st EXCEPT ![t] = s]
        /\ ctl' = IF s = 0 THEN Execute(c, conn) ELSE ctl
        /\ pc' = [pc EXCEPT ![t] = next]

\* Thread t returns from the API call (or the event handler).
Return(t) ==
    /\ pc' = [pc EXCEPT ![t] = "idle"]
    /\ UNCHANGED <<ctl, st>>

\* A central connects to the connectable advertiser: the controller stops
\* advertising and raises LE (Enhanced) Connection Complete, role slave.
Connect ==
    /\ ctl.adv /\ ctl.conn /\ ctl.links < MaxConn
    /\ events < MaxEvents
    /\ ctl' = [ctl EXCEPT !.adv = FALSE, !.links = @ + 1]
    /\ evq' = Append(evq, "conn")
    /\ events' = events + 1
    /\ UNCHANGED <<flags, pc, op, st, calls, advStopped>>

\* A connection ends: Disconnection Complete.
Disconnect ==
    /\ ctl.links > 0
    /\ events < MaxEvents
    /\ ctl' = [ctl EXCEPT !.links = @ - 1]
    /\ evq' = Append(evq, "disconn")
    /\ events' = events + 1
    /\ UNCHANGED <<flags, pc, op, st, calls, advStopped>>

-----------------------------------------------------------------------------
(* Helpers of hci_core.c.                                                  *)

\* valid_adv_param(): the check for non-connectable advertising below
\* 100 ms is compiled out (#if 0), so only the interval range is checked.
valid_adv_param(p) ==
    p.adv[1] <= p.adv[2] /\ p.adv[1] >= 32 /\ p.adv[2] <= 16384

\* valid_le_scan_param(): type and filter_dup are valid by construction.
valid_le_scan_param(p) ==
    /\ p.scan[1] \in 4..16384
    /\ p.scan[2] \in 4..16384
    /\ p.scan[2] <= p.scan[1]

\* The flag update of set_advertise_enable() after its command returned s.
set_advertise_enable(fl, en, s) ==
    IF s # 0 THEN fl ELSE IF en THEN fl \cup {ADVERTISING} ELSE fl \ {ADVERTISING}

\* The flag update of set_le_scan_enable() after its command returned s.
set_le_scan_enable(fl, en, s) ==
    IF s # 0 THEN fl ELSE IF en THEN fl \cup {SCANNING} ELSE fl \ {SCANNING}

AppFrame == UNCHANGED <<evq, events, op, calls>>
RxFrame == UNCHANGED <<op, calls, events, advStopped>>

-----------------------------------------------------------------------------
(* bt_le_adv_start() and bt_le_adv_start_instant().                        *)

\* From the parameter check to the first command, with flags fl.
AdvStartFrom(t, p, fl) ==
    /\ flags' = fl
    /\ IF valid_adv_param(p) /\ ADVERTISING \notin fl
       THEN Issue(t, "adv_data", FALSE, "as_data")
       ELSE Return(t)

\* set_ad(BT_HCI_OP_LE_SET_ADV_DATA) returned; scan response data is set
\* when sd is given or the advertising is connectable.
AdvSetData(t) ==
    /\ pc[t] = "as_data"
    /\ IF st[t] # 0 THEN Return(t)
       ELSE IF op[t].sd \/ op[t].conn THEN Issue(t, "scan_rsp", FALSE, "as_rsp")
       ELSE Issue(t, "adv_param", FALSE, "as_param")
    /\ UNCHANGED <<flags, advStopped>> /\ AppFrame

\* Connectable: BT_DEV_ID_STATIC_RANDOM is set by set_bd_addr() whenever
\* bt_init() succeeded, so set_random_address() runs; its error is ignored.
AdvSetScanRsp(t) ==
    /\ pc[t] = "as_rsp"
    /\ IF st[t] # 0 THEN Return(t)
       ELSE IF op[t].conn THEN Issue(t, "rand_addr", FALSE, "as_addr")
       ELSE Issue(t, "adv_param", FALSE, "as_param")
    /\ UNCHANGED <<flags, advStopped>> /\ AppFrame

AdvSetAddr(t) ==
    /\ pc[t] = "as_addr"
    /\ Issue(t, "adv_param", op[t].conn, "as_param")
    /\ UNCHANGED <<flags, advStopped>> /\ AppFrame

\* BT_HCI_OP_LE_SET_ADV_PARAM returned; set_advertise_enable(true).
AdvSetParam(t) ==
    /\ pc[t] = "as_param"
    /\ IF st[t] # 0 THEN Return(t) ELSE Issue(t, "adv_enable", FALSE, "as_enable")
    /\ UNCHANGED <<flags, advStopped>> /\ AppFrame

\* Advertising enabled: BT_DEV_ADVERTISING, and BT_DEV_KEEP_ADVERTISING
\* unless BT_LE_ADV_OPT_ONE_TIME.
AdvEnabled(t) ==
    /\ pc[t] = "as_enable"
    /\ flags' = set_advertise_enable(flags, TRUE, st[t])
                \cup (IF st[t] = 0 /\ ~op[t].once THEN {KEEP_ADVERTISING} ELSE {})
    /\ Return(t)
    /\ UNCHANGED advStopped /\ AppFrame

-----------------------------------------------------------------------------
(* bt_le_adv_stop(); bt_le_adv_start_instant() calls it first and ignores  *)
(* its result.                                                             *)

\* bt_le_adv_stop() returns with flags fl.
StopReturned(t, p, fl) ==
    IF p.call = "adv_stop"
    THEN /\ flags' = fl /\ Return(t) /\ advStopped' = TRUE
    ELSE AdvStartFrom(t, p, fl) /\ advStopped' = FALSE

StopFailed(t, p) ==
    IF p.call = "adv_stop"
    THEN /\ Return(t) /\ UNCHANGED <<flags, advStopped>>
    ELSE AdvStartFrom(t, p, flags) /\ advStopped' = FALSE

AdvStopFrom(t, p) ==
    LET fl == flags \ {KEEP_ADVERTISING}
    IN  IF ADVERTISING \notin fl
        THEN StopReturned(t, p, fl)
        ELSE /\ flags' = fl
             /\ Issue(t, "adv_disable", FALSE, "ast_dis")
             /\ UNCHANGED advStopped

\* Advertising disabled; with an active scan running, a new NRPA is set
\* (le_set_private_addr(), its error ignored).
AdvStopDisabled(t) ==
    /\ pc[t] = "ast_dis"
    /\ IF st[t] # 0 THEN StopFailed(t, op[t])
       ELSE LET fl == set_advertise_enable(flags, FALSE, 0)
            IN  IF SCANNING \in fl /\ ACTIVE_SCAN \in fl
                THEN /\ flags' = fl
                     /\ Issue(t, "rand_addr", FALSE, "ast_addr")
                     /\ UNCHANGED advStopped
                ELSE StopReturned(t, op[t], fl)
    /\ AppFrame

AdvStopAddr(t) ==
    /\ pc[t] = "ast_addr"
    /\ StopReturned(t, op[t], flags)
    /\ AppFrame

-----------------------------------------------------------------------------
(* bt_le_scan_start(), start_le_scan(), bt_le_scan_stop() and              *)
(* bt_le_scan_update().                                                    *)

\* start_le_scan() up to its first command: an active scan while not
\* advertising sets an NRPA first (le_set_private_addr()).
StartLeScan(t, p, fl) ==
    /\ flags' = fl
    /\ IF p.active /\ ADVERTISING \notin fl
       THEN Issue(t, "rand_addr", FALSE, "ls_addr")
       ELSE Issue(t, "scan_param", FALSE, "ls_param")

\* start_le_scan() failed: bt_le_scan_start() clears BT_DEV_EXPLICIT_SCAN.
ScanStartFailed(t) ==
    /\ flags' = flags \ {EXPLICIT_SCAN}
    /\ Return(t)

\* The running scan was disabled before the new one is set up.
ScanStartDisabled(t) ==
    /\ pc[t] = "ss_dis"
    /\ IF st[t] # 0 THEN ScanStartFailed(t)
       ELSE StartLeScan(t, op[t], set_le_scan_enable(flags, FALSE, 0))
    /\ UNCHANGED advStopped /\ AppFrame

LeScanAddr(t) ==
    /\ pc[t] = "ls_addr"
    /\ IF st[t] # 0 THEN ScanStartFailed(t)
       ELSE /\ Issue(t, "scan_param", FALSE, "ls_param")
            /\ UNCHANGED flags
    /\ UNCHANGED advStopped /\ AppFrame

LeScanParam(t) ==
    /\ pc[t] = "ls_param"
    /\ IF st[t] # 0 THEN ScanStartFailed(t)
       ELSE /\ Issue(t, "scan_enable", FALSE, "ls_en")
            /\ UNCHANGED flags
    /\ UNCHANGED advStopped /\ AppFrame

\* set_le_scan_enable(BT_HCI_LE_SCAN_ENABLE) returned: BT_DEV_SCANNING,
\* and BT_DEV_ACTIVE_SCAN set or cleared by the scan type.
LeScanEnabled(t) ==
    /\ pc[t] = "ls_en"
    /\ IF st[t] # 0 THEN ScanStartFailed(t)
       ELSE /\ flags' = (set_le_scan_enable(flags, TRUE, 0) \ {ACTIVE_SCAN})
                        \cup (IF op[t].active THEN {ACTIVE_SCAN} ELSE {})
            /\ Return(t)
    /\ UNCHANGED advStopped /\ AppFrame

\* bt_le_scan_update() with flags fl.  No connection object waits in
\* BT_CONN_CONNECT_SCAN (nothing in this tree creates one), so the update
\* only stops a scan the host no longer needs.
bt_le_scan_update(t, fl) ==
    /\ flags' = fl
    /\ IF EXPLICIT_SCAN \notin fl /\ SCANNING \in fl
       THEN Issue(t, "scan_disable", FALSE, "su_dis")
       ELSE Return(t)

ScanUpdateDisabled(t) ==
    /\ pc[t] = "su_dis"
    /\ flags' = set_le_scan_enable(flags, FALSE, st[t])
    /\ Return(t)
    /\ UNCHANGED <<evq, events, op, calls, advStopped>>

-----------------------------------------------------------------------------
(* An API call: its checks and its first command.                          *)

bt_le_adv_start(a, p) == advStopped' = FALSE /\ AdvStartFrom(a, p, flags)

bt_le_adv_start_instant(a, p) == AdvStopFrom(a, p)

bt_le_adv_stop(a, p) == AdvStopFrom(a, p)

bt_le_scan_start(a, p) ==
    /\ IF valid_le_scan_param(p) /\ EXPLICIT_SCAN \notin flags
       THEN LET fl == flags \cup {EXPLICIT_SCAN}
            IN  IF SCANNING \in fl
                THEN /\ flags' = fl
                     /\ Issue(a, "scan_disable", FALSE, "ss_dis")
                ELSE StartLeScan(a, p, fl)
       ELSE /\ UNCHANGED flags /\ Return(a)
    /\ UNCHANGED advStopped

bt_le_scan_stop(a, p) ==
    /\ IF EXPLICIT_SCAN \in flags
       THEN bt_le_scan_update(a, flags \ {EXPLICIT_SCAN})
       ELSE /\ UNCHANGED flags /\ Return(a)
    /\ UNCHANGED advStopped

AdvOps == [call : {"adv_start", "adv_start_instant"}, conn : BOOLEAN, once : BOOLEAN,
           sd : BOOLEAN, active : {FALSE}, adv : AdvIntervals, scan : {NoOp.scan}]
StopOps == [call : {"adv_stop", "scan_stop"}, conn : {FALSE}, once : {FALSE},
            sd : {FALSE}, active : {FALSE}, adv : {NoOp.adv}, scan : {NoOp.scan}]
ScanOps == [call : {"scan_start"}, conn : {FALSE}, once : {FALSE},
            sd : {FALSE}, active : BOOLEAN, adv : {NoOp.adv}, scan : ScanWindows]

Call(a) ==
    /\ pc[a] = "idle"
    /\ calls[a] < MaxCalls
    /\ \E p \in AdvOps \cup StopOps \cup ScanOps :
         /\ op' = [op EXCEPT ![a] = p]
         /\ calls' = [calls EXCEPT ![a] = @ + 1]
         /\ CASE p.call = "adv_start"         -> bt_le_adv_start(a, p)
              [] p.call = "adv_start_instant" -> bt_le_adv_start_instant(a, p)
              [] p.call = "adv_stop"          -> bt_le_adv_stop(a, p)
              [] p.call = "scan_start"        -> bt_le_scan_start(a, p)
              [] p.call = "scan_stop"         -> bt_le_scan_stop(a, p)
    /\ UNCHANGED <<evq, events>>

-----------------------------------------------------------------------------
(* The event handlers, run one event at a time by the RX context.          *)

\* hci_disconn_complete(): advertising is re-enabled when
\* BT_DEV_KEEP_ADVERTISING is set and BT_DEV_ADVERTISING is not.
hci_disconn_complete ==
    IF KEEP_ADVERTISING \in flags /\ ADVERTISING \notin flags
    THEN Issue(RX, "adv_enable", FALSE, "dc_en") /\ UNCHANGED flags
    ELSE Return(RX) /\ UNCHANGED flags

DisconnAdvEnabled ==
    /\ pc[RX] = "dc_en"
    /\ flags' = set_advertise_enable(flags, TRUE, st[RX])
    /\ Return(RX)
    /\ UNCHANGED evq /\ RxFrame

\* le_enh_conn_complete() for a slave connection: BT_DEV_ADVERTISING is
\* cleared "to keep host in sync with controller state", advertising is
\* re-enabled if the controller can advertise while connected, and at
\* done: bt_le_scan_update(false).
le_enh_conn_complete ==
    LET fl == flags \ {ADVERTISING}
    IN  IF KEEP_ADVERTISING \in fl /\ SlaveConnAdv
        THEN flags' = fl /\ Issue(RX, "adv_enable", FALSE, "cc_en")
        ELSE bt_le_scan_update(RX, fl)

ConnAdvEnabled ==
    /\ pc[RX] = "cc_en"
    /\ bt_le_scan_update(RX, set_advertise_enable(flags, TRUE, st[RX]))
    /\ UNCHANGED evq /\ RxFrame

\* hci_event() / hci_le_meta_event(): the next event in arrival order.
RxEvent ==
    /\ pc[RX] = "idle"
    /\ evq # <<>>
    /\ evq' = Tail(evq)
    /\ IF Head(evq) = "disconn" THEN hci_disconn_complete ELSE le_enh_conn_complete
    /\ RxFrame

-----------------------------------------------------------------------------

Next ==
    \/ \E a \in Apps :
         \/ Call(a)
         \/ AdvSetData(a) \/ AdvSetScanRsp(a) \/ AdvSetAddr(a)
         \/ AdvSetParam(a) \/ AdvEnabled(a)
         \/ AdvStopDisabled(a) \/ AdvStopAddr(a)
         \/ ScanStartDisabled(a) \/ LeScanAddr(a) \/ LeScanParam(a) \/ LeScanEnabled(a)
    \/ \E t \in Threads : ScanUpdateDisabled(t)
    \/ RxEvent \/ DisconnAdvEnabled \/ ConnAdvEnabled
    \/ Connect \/ Disconnect

Spec == Init /\ [][Next]_vars

-----------------------------------------------------------------------------
(* Properties.                                                             *)

\* bt_le_adv_stop() says: "Make sure advertising is not re-enabled later
\* even if it's not currently enabled".  Once it has returned 0, the
\* controller does not advertise until a thread calls bt_le_adv_start()
\* again, whatever connection events the host handles meanwhile.
AdvStopHolds == advStopped => ~ctl.adv

\* No thread is inside a call or a handler and no event waits.
Quiescent == (\A t \in Threads : pc[t] = "idle") /\ evq = <<>>

\* BT_DEV_ADVERTISING and BT_DEV_SCANNING say what the controller does.
FlagsAgree ==
    /\ ADVERTISING \in flags <=> ctl.adv
    /\ SCANNING \in flags <=> ctl.scan

\* The host tracks the controller: once every call and every event handler
\* has finished, BT_DEV_ADVERTISING and BT_DEV_SCANNING (which
\* bt_le_adv_start, bt_le_adv_stop, bt_le_scan_start and bt_le_scan_update
\* test before acting) match the controller, and a bt_le_adv_stop that
\* returned 0 holds (AdvStopHolds).
HostTracksController ==
    /\ AdvStopHolds
    /\ Quiescent => FlagsAgree

=============================================================================
