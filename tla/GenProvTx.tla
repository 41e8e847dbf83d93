----------------------------- MODULE GenProvTx -----------------------------
(***************************************************************************)
(* The PB-ADV generic provisioning transmit layer of prov.c: segmentation  *)
(* of an outgoing PDU into slink.tx.buf[3] (prov_send_adv), bearer control *)
(* messages (bearer_ctl_send), reliable sending with a retransmission      *)
(* every 500 ms (send_reliable, buf_sent, prov_retransmit), the 30 s       *)
(* transaction timeout, acknowledgement (gen_prov_ack) and the transaction *)
(* id sequence (next_transaction_id).                                      *)
(*                                                                         *)
(* The advertiser (adv.c, not in the tree) is modelled from the contract   *)
(* prov.c relies on: bt_mesh_adv_send marks a buffer busy and queues it;   *)
(* the advertising thread takes buffers in order, drops those whose busy   *)
(* flag was cleared ("Mark as canceled", prov.c 236), sends the others     *)
(* once (PROV_XMIT_COUNT 0) and then calls the end callback.  Buffers come *)
(* from one pool of PoolSize, shared with the rest of the mesh stack.      *)
(*                                                                         *)
(* Handlers and callbacks run to completion: the receive path, the         *)
(* retransmit work and the advertising thread never interleave inside one  *)
(* another (one logical execution context, as the code assumes).           *)
(***************************************************************************)
EXTENDS Integers, Sequences, FiniteSets, SequencesExt

CONSTANTS
    MaxLinks,   \* links the provisioner opens, one after another
    PoolSize,   \* advertising buffers in the pool
    SegCounts,  \* segment counts of the PDUs the handlers send
    MaxSends,   \* PDUs the handlers send per link
    MaxOpens,   \* Link Opens the device accepts (a retransmitted Open can
                \* reopen a link the device closed itself)
    TxIdInit,   \* values slink.tx.id can have when the model starts
    Lossy,      \* whether the radio loses frames
    OtherTraffic \* whether other layers take buffers of the pool

ASSUME SegCounts \subseteq 1..3           \* PDUs are at most 65 bytes
ASSUME TxIdInit \subseteq 0..255

Links  == 1..MaxLinks
BufIds == 1..PoolSize
Xacts  == 0..255
\* What a buffer holds: a segment of a provisioning PDU or of a Failed PDU,
\* a Link Ack or Link Close, or traffic of another layer.
Kinds  == {"pdu", "failed", "linkack", "close", "other"}
Frame(l, x, k, s, n) == [link |-> l, xact |-> x, kind |-> k, seg |-> s, last |-> n]
Frames  == [link : 0..MaxLinks, xact : Xacts, kind : Kinds, seg : 0..2, last : 0..2]
NoFrame == Frame(0, 0, "other", 0, 0)
\* Frames the provisioner sends: Link Open, Link Close and acks.
PeerFrames == [link : Links, kind : {"open", "close", "ack"}, xact : Xacts]

VARIABLES
    dev,      \* slink's link and tx state, the retransmit work, the pool
    toDev,    \* provisioner -> device frames on the radio
    peer,     \* the provisioner
    sends,    \* PDUs sent by the handlers on the current link
    opens,    \* Link Opens the device accepted
    done      \* <<link, xact>> of every PDU the provisioner received whole

vars == <<dev, toDev, peer, sends, opens, done>>

(* dev: active = LINK_ACTIVE, id = slink.id, txId = slink.tx.id, txBuf =   *)
(* slink.tx.buf as a sequence, expired = k_uptime_get() - slink.tx.start > *)
(* TRANSACTION_TIMEOUT, retransmit = the delayed work is pending; busy and *)
(* frame are BT_MESH_ADV(buf)->busy and the content of each pool buffer,   *)
(* queue the advertiser's FIFO of <<buffer, has end callback>>.            *)
DevState == [active : BOOLEAN, id : 0..MaxLinks, txId : Xacts,
             txBuf : Seq(BufIds), expired : BOOLEAN, retransmit : BOOLEAN,
             busy : [BufIds -> BOOLEAN], frame : [BufIds -> Frames],
             queue : Seq([buf : BufIds, cb : BOOLEAN])]

TypeOK ==
    /\ dev \in DevState
    /\ Len(dev.txBuf) <= 3 /\ Len(dev.queue) <= PoolSize
    /\ toDev \subseteq PeerFrames
    /\ peer \in [link : 0..MaxLinks, live : BOOLEAN, acked : BOOLEAN,
                 xact : Xacts, got : SUBSET (0..2), gotFailed : BOOLEAN,
                 gotClose : BOOLEAN]
    /\ sends \in 0..MaxSends /\ opens \in 0..MaxOpens
    /\ done \subseteq Links \X Xacts

-----------------------------------------------------------------------------
(* The buffer pool.  A buffer is referenced by slink.tx.buf and by every   *)
(* queue entry; net_buf_unref returns it to the pool when neither holds it. *)
Queued(d) == {d.queue[i].buf : i \in DOMAIN d.queue}
FreeBufs(d) == BufIds \ (Range(d.txBuf) \cup Queued(d))
Unref(d) ==
    [d EXCEPT !.frame = [b \in BufIds |-> IF b \in FreeBufs(d) THEN NoFrame ELSE d.frame[b]],
              !.busy  = [b \in BufIds |-> b \notin FreeBufs(d) /\ d.busy[b]]]
\* The n buffers adv_buf_create hands out next.
Alloc(d, n) == SubSeq(SetToSortSeq(FreeBufs(d), <), 1, n)

\* bt_mesh_adv_send (adv.c): mark busy, queue with or without buf_sent_cb.
bt_mesh_adv_send(d, b, cb) ==
    [d EXCEPT !.busy[b] = TRUE, !.queue = Append(@, [buf |-> b, cb |-> cb])]

\* The loop of send_reliable and of prov_retransmit over slink.tx.buf from
\* index i: only the last buffer gets buf_sent_cb; prov_retransmit skips a
\* buffer that is still busy.
RECURSIVE SendFrom(_, _, _)
SendFrom(d, i, skipBusy) ==
    IF i > Len(d.txBuf) THEN d
    ELSE SendFrom(IF skipBusy /\ d.busy[d.txBuf[i]] THEN d
                  ELSE bt_mesh_adv_send(d, d.txBuf[i], i = Len(d.txBuf)),
                  i + 1, skipBusy)

free_segments(d) ==
    [d EXCEPT !.txBuf = <<>>,
              !.busy = [b \in BufIds |-> b \notin Range(d.txBuf) /\ d.busy[b]]]

prov_clear_tx(d) == free_segments([d EXCEPT !.retransmit = FALSE])

send_reliable(d) == SendFrom([d EXCEPT !.expired = FALSE], 1, FALSE)

\* Mutants: the increment done in a wider type, and the wrap from 0xFF
\* left to the u8 (0xFF + 1 = 0, a provisioner-range id).
next_transaction_id_wide(id) == IF id # 0 THEN id + 1 ELSE 128
next_transaction_id_u8wrap(id) == IF id # 0 THEN (id + 1) % 256 ELSE 128

next_transaction_id(id) == IF id # 0 /\ id # 255 THEN id + 1 ELSE 128

\* prov_send_adv of an n-segment PDU of kind k: [ok |-> returned 0, d |-> state].
\* No free buffer for the Start: -ENOBUFS before the id is taken; too few
\* for a Continuation: free_segments and -ENOBUFS after it was taken.
prov_send_adv(d, n, k) ==
    LET c  == prov_clear_tx(d)
        x  == next_transaction_id(c.txId)
        bs == Alloc(c, n)
        Seg(b) == CHOOSE i \in 1..n : bs[i] = b
    IN  CASE FreeBufs(c) = {} -> [ok |-> FALSE, d |-> c]
          [] Cardinality(FreeBufs(c)) < n -> [ok |-> FALSE, d |-> [c EXCEPT !.txId = x]]
          [] OTHER -> [ok |-> TRUE,
                       d  |-> send_reliable(
                                [c EXCEPT !.txId = x, !.txBuf = bs,
                                 !.frame = [b \in BufIds |->
                                     IF b \in Range(bs) THEN Frame(c.id, x, k, Seg(b) - 1, n - 1)
                                     ELSE c.frame[b]]])]

\* bearer_ctl_send: transaction id 0, one buffer in tx.buf[0], sent reliably.
bearer_ctl_send(d, k) ==
    LET c == prov_clear_tx(d)
    IN  IF FreeBufs(c) = {} THEN c
        ELSE LET b == Min(FreeBufs(c))
             IN  send_reliable([c EXCEPT !.txBuf = <<b>>,
                                         !.frame[b] = Frame(c.id, 0, k, 0, 0)])

\* close_link(err, CLOSE_REASON_FAILED), err # 0 at every call site:
\* prov_send_fail_msg (its result ignored), Link Close, clear LINK_ACTIVE.
close_link(d) ==
    [bearer_ctl_send(prov_send_adv(d, 1, "failed").d, "close") EXCEPT !.active = FALSE]

\* reset_link: prov_clear_tx, then memset up to tx.retransmit (tx.id and
\* tx.start become 0, so the timeout is already past).
reset_link(d) ==
    [prov_clear_tx(d) EXCEPT !.active = FALSE, !.id = 0, !.txId = 0, !.expired = TRUE]

-----------------------------------------------------------------------------
(* Device actions.  Every step ends with Unref: buffers no longer held go  *)
(* back to the pool.                                                        *)

\* bt_mesh_pb_adv_recv of a provisioner frame: the link filter, then
\* gen_prov_recv's require_link (acks) and gen_prov_ctl (link_open;
\* link_close only on an active link).
link_open(d, f) ==
    IF d.active THEN d
    ELSE bearer_ctl_send([d EXCEPT !.id = f.link, !.active = TRUE], "linkack")

\* Mutant: the ack's transaction id not compared with slink.tx.id.
gen_prov_ack_anyxact(d, f) == IF d.txBuf = <<>> THEN d ELSE prov_clear_tx(d)

gen_prov_ack(d, f) ==
    IF d.txBuf = <<>> \/ f.xact # d.txId THEN d ELSE prov_clear_tx(d)

bt_mesh_pb_adv_recv(d, f) ==
    IF d.active /\ d.id # f.link THEN d
    ELSE CASE f.kind = "open"  -> link_open(d, f)
           [] f.kind = "close" -> IF d.active THEN reset_link(d) ELSE d
           [] f.kind = "ack"   -> IF d.active THEN gen_prov_ack(d, f) ELSE d

Opens(f) == f.kind = "open" /\ ~dev.active

DeviceRecv ==
    \E f \in toDev :
        /\ Opens(f) => opens < MaxOpens
        /\ dev' = Unref(bt_mesh_pb_adv_recv(dev, f))
        /\ toDev' = toDev \ {f}
        /\ sends' = IF Opens(f) THEN 0 ELSE sends
        /\ opens' = IF Opens(f) THEN opens + 1 ELSE opens
        /\ UNCHANGED <<peer, done>>

\* A handler answers a received PDU (prov_invite, send_pub_key, send_confirm,
\* prov_random, prov_data): prov_send, and close_link(PROV_ERR_RESOURCES)
\* when it fails.
HandlerSend ==
    /\ dev.active /\ sends < MaxSends
    /\ \E n \in SegCounts :
         LET r == prov_send_adv(dev, n, "pdu")
         IN  dev' = Unref(IF r.ok THEN r.d ELSE close_link(r.d))
    /\ sends' = sends + 1
    /\ UNCHANGED <<toDev, peer, opens, done>>

\* A handler rejects a PDU: close_link(err, CLOSE_REASON_FAILED).
HandlerError ==
    /\ dev.active
    /\ dev' = Unref(close_link(dev))
    /\ UNCHANGED <<toDev, peer, sends, opens, done>>

\* Mutant: the TRANSACTION_TIMEOUT check left out.
prov_retransmit_no_timeout(d) == IF ~d.active THEN d ELSE SendFrom(d, 1, TRUE)

\* prov_retransmit, run by the retransmit delayed work.
prov_retransmit(d) ==
    CASE ~d.active -> d
      [] d.expired -> reset_link(d)
      [] OTHER     -> SendFrom(d, 1, TRUE)

Retransmit ==
    /\ dev.retransmit
    /\ dev' = Unref(prov_retransmit([dev EXCEPT !.retransmit = FALSE]))
    /\ UNCHANGED <<toDev, peer, sends, opens, done>>

\* buf_sent, the end callback of the last buffer of a transmission.
buf_sent(d) == IF d.txBuf = <<>> THEN d ELSE [d EXCEPT !.retransmit = TRUE]

\* The provisioner hears a frame the device puts on the air: it reassembles
\* the device's transaction and acks every complete one (again for every
\* duplicate); Link Ack and Link Close end its Link Open and its link.
PeerHears(f) ==
    IF ~peer.live \/ f.link # peer.link
    THEN UNCHANGED <<peer, toDev, done>>
    ELSE CASE f.kind = "linkack" ->
                /\ peer' = [peer EXCEPT !.acked = TRUE]
                /\ UNCHANGED <<toDev, done>>
           [] f.kind = "close" ->
                /\ peer' = [peer EXCEPT !.live = FALSE, !.gotClose = TRUE]
                /\ UNCHANGED <<toDev, done>>
           [] OTHER ->
                LET got   == IF f.xact = peer.xact THEN peer.got \cup {f.seg} ELSE {f.seg}
                    whole == got = 0..f.last
                IN  /\ peer' = [peer EXCEPT !.xact = f.xact, !.got = got,
                                  !.gotFailed = @ \/ (whole /\ f.kind = "failed")]
                    /\ toDev' = IF whole
                                THEN toDev \cup {[link |-> f.link, kind |-> "ack", xact |-> f.xact]}
                                ELSE toDev
                    /\ done' = IF whole THEN done \cup {<<f.link, f.xact>>} ELSE done

\* The advertising thread (adv.c) takes the head of its queue.  A canceled
\* buffer is dropped without callbacks; a busy one is advertised once, and
\* the provisioner hears it then or never; then the end callback runs.
AdvSend ==
    /\ dev.queue # <<>>
    /\ LET e == Head(dev.queue)
           f == dev.frame[e.buf]
           d == [dev EXCEPT !.queue = Tail(@), !.busy[e.buf] = FALSE]
       IN  /\ dev' = Unref(IF dev.busy[e.buf] /\ e.cb THEN buf_sent(d) ELSE d)
           /\ IF dev.busy[e.buf] /\ f.kind # "other"
              THEN \/ PeerHears(f)
                   \/ Lossy /\ UNCHANGED <<peer, toDev, done>>
              ELSE UNCHANGED <<peer, toDev, done>>
    /\ UNCHANGED <<sends, opens>>

\* Another layer (network PDUs, beacons, the receive path's acks) takes a
\* buffer of the shared pool and queues it.
OtherAdv ==
    /\ OtherTraffic /\ FreeBufs(dev) # {}
    /\ LET b == Min(FreeBufs(dev))
       IN  dev' = bt_mesh_adv_send([dev EXCEPT !.frame[b] = NoFrame], b, FALSE)
    /\ UNCHANGED <<toDev, peer, sends, opens, done>>

\* TRANSACTION_TIMEOUT elapses since slink.tx.start.  Only prov_retransmit
\* reads the deadline, and every send that fills slink.tx.buf restarts it,
\* so it is only taken to pass while a transaction is outstanding.
Tick ==
    /\ ~dev.expired /\ dev.txBuf # <<>>
    /\ dev' = [dev EXCEPT !.expired = TRUE]
    /\ UNCHANGED <<toDev, peer, sends, opens, done>>

-----------------------------------------------------------------------------
(* The provisioner opens links one after another, retransmits Link Open    *)
(* until it hears the Link Ack, and closes the link.  Its frames may be     *)
(* lost or delayed in its advertiser and in the device's receive queue.    *)
PeerOpen ==
    /\ ~peer.live /\ peer.link < MaxLinks
    /\ peer' = [link |-> peer.link + 1, live |-> TRUE, acked |-> FALSE, xact |-> 0,
                got |-> {}, gotFailed |-> FALSE, gotClose |-> FALSE]
    /\ toDev' = toDev \cup {[link |-> peer.link + 1, kind |-> "open", xact |-> 0]}
    /\ UNCHANGED <<dev, sends, opens, done>>

PeerRetransmitOpen ==
    /\ peer.live /\ ~peer.acked
    /\ toDev' = toDev \cup {[link |-> peer.link, kind |-> "open", xact |-> 0]}
    /\ UNCHANGED <<dev, peer, sends, opens, done>>

PeerClose ==
    /\ peer.live /\ peer.acked
    /\ peer' = [peer EXCEPT !.live = FALSE]
    /\ toDev' = toDev \cup {[link |-> peer.link, kind |-> "close", xact |-> 0]}
    /\ UNCHANGED <<dev, sends, opens, done>>

Lose ==
    /\ Lossy
    /\ \E f \in toDev : toDev' = toDev \ {f}
    /\ UNCHANGED <<dev, peer, sends, opens, done>>

-----------------------------------------------------------------------------
Init ==
    /\ \E id0 \in TxIdInit :
         dev = [active |-> FALSE, id |-> 0, txId |-> id0, txBuf |-> <<>>,
                expired |-> TRUE, retransmit |-> FALSE,
                busy |-> [b \in BufIds |-> FALSE], frame |-> [b \in BufIds |-> NoFrame],
                queue |-> <<>>]
    /\ toDev = {}
    /\ peer = [link |-> 0, live |-> FALSE, acked |-> FALSE, xact |-> 0, got |-> {},
               gotFailed |-> FALSE, gotClose |-> FALSE]
    /\ sends = 0 /\ opens = 0 /\ done = {}

Next ==
    \/ DeviceRecv \/ HandlerSend \/ HandlerError \/ Retransmit \/ AdvSend
    \/ OtherAdv \/ Tick
    \/ PeerOpen \/ PeerRetransmitOpen \/ PeerClose \/ Lose

\* The advertising thread drains its queue, the delayed work runs once it
\* is due, and time passes; the provisioner and the radio promise nothing.
Fairness == WF_vars(AdvSend) /\ WF_vars(Retransmit) /\ WF_vars(Tick)

Spec == Init /\ [][Next]_vars /\ Fairness

-----------------------------------------------------------------------------
(* Properties *)

\* next_transaction_id keeps the device's transaction ids in 0x80..0xFF,
\* across the wrap after 0xFF and after reset_link zeroes tx.id: every PDU
\* segment waiting in slink.tx.buf carries a device-range id.
TxXactInDeviceRange ==
    \A b \in Range(dev.txBuf) :
        dev.frame[b].kind \in {"pdu", "failed"} => dev.frame[b].xact \in 128..255

\* gen_prov_ack clears slink.tx only for a transaction the provisioner has
\* received whole: a delayed ack of an earlier transaction never cancels
\* the retransmission of the current one.
AckedImpliesReceived ==
    [][ LET f == dev.frame[dev.txBuf[1]]
        IN  /\ dev.active /\ dev'.active /\ dev'.id = dev.id
            /\ dev.txBuf # <<>> /\ dev'.txBuf = <<>>
            /\ f.kind \in {"pdu", "failed"}
            => <<dev.id, f.xact>> \in done ]_vars

\* A transaction outstanding on an active link ends: buf_sent keeps the
\* 500 ms retransmit work armed, and prov_retransmit gives up after
\* TRANSACTION_TIMEOUT, even when the provisioner never answers.
Outstanding == dev.active /\ dev.txBuf # <<>>
NoStall == Outstanding ~> ~Outstanding

\* close_link reports the error to the provisioner: whenever the
\* provisioner receives the device's Link Close, it has received the Failed
\* PDU that close_link queued just before it.
FailedBeforeClose == peer.gotClose => peer.gotFailed

=============================================================================
