----------------------------- MODULE GenProvRx -----------------------------
(***************************************************************************)
(* The receive side of the PB-ADV Generic Provisioning layer of prov.c:   *)
(* bt_mesh_pb_adv_recv, gen_prov_recv, gen_prov_start, gen_prov_cont,     *)
(* gen_prov_ctl (link_open, link_close), the transport half of            *)
(* prov_msg_recv, gen_prov_ack_send with the file-static pending_ack, and *)
(* the rx part of close_link and reset_link.                               *)
(*                                                                         *)
(* The device talks to one provisioner over an advertising channel that   *)
(* loses, duplicates and reorders frames.  The provisioner opens links     *)
(* one after another (link ids 1..MaxLinks), sends the PDUs of PduLens as  *)
(* transactions 0, 1, ... and retransmits the current one until it is     *)
(* acknowledged.  What the provisioning state machine does with a         *)
(* delivered PDU is abstracted to "continue" or "close_link".             *)
(*                                                                         *)
(* A frame carries only what the handlers read: link id, transaction id,  *)
(* the GPC segment field, and a length (the declared total length for a   *)
(* Start, the payload length for a Continuation).  Frames are never       *)
(* corrupted (the advertising bearer's CRC drops them first), so the FCS  *)
(* check of prov_msg_recv always passes.                                   *)
(***************************************************************************)
EXTENDS Integers, Sequences, FiniteSets, Functions

CONSTANTS
    MaxLinks,       \* number of links the provisioner opens
    PduLens,        \* total lengths of the PDUs the provisioner sends on a link
    RxBufSize,      \* slink.rx.buf->size: the proxy buffer reset_link installs
    Honest,         \* TRUE: Start frames carry last_seg(len) as the peer's
                    \* prov_send_adv computes it; FALSE: any value up to MaxClaimedSeg
    MaxClaimedSeg,  \* largest last-segment index a Start frame may claim
    UpperMayClose,  \* TRUE: the handler of a delivered PDU may call close_link
    LocalFailures,  \* TRUE: adv_buf_create may fail
    BoundedDelay    \* TRUE: no frame of a transaction is still in the air once
                    \* the provisioner has its ack

ASSUME MaxClaimedSeg \in 0..7   \* slink.rx.seg is a u8 bit mask

START_PAYLOAD_MAX == 20
CONT_PAYLOAD_MAX == 23
XACT_NVAL == 255

Links == 1..MaxLinks
LinkIds == 0..MaxLinks          \* slink.id; 0 after memset
Xacts == 0..(Len(PduLens) - 1)
Segs == 0..MaxClaimedSeg

\* Mutant: one segment too many.
last_seg_plus1(len) ==
    IF len <= START_PAYLOAD_MAX THEN 0
    ELSE 2 + (len - START_PAYLOAD_MAX) \div CONT_PAYLOAD_MAX

\* last_seg(): index of the last segment of a PDU of len bytes.
last_seg(len) ==
    IF len <= START_PAYLOAD_MAX THEN 0
    ELSE 1 + (len - START_PAYLOAD_MAX) \div CONT_PAYLOAD_MAX

\* Payload length of Continuation seg of a transaction of len bytes whose
\* Start claims last segment ls: full segments before the last, and a last
\* one holding the rest (prov_send_adv, for ls = last_seg(len)).  A peer
\* claiming more segments than len needs sends full ones where the rest
\* does not fit a segment.
ContLen(len, ls, seg) ==
    LET rest == (len - START_PAYLOAD_MAX - CONT_PAYLOAD_MAX * (ls - 1)) % 256
    IN  IF seg < ls \/ rest \notin 1..CONT_PAYLOAD_MAX THEN CONT_PAYLOAD_MAX ELSE rest

Frame(k, l, x, s, n) == [kind |-> k, link |-> l, xact |-> x, seg |-> s, len |-> n]

\* The frames of transaction x on link l: a Start claiming last segment ls
\* and the Continuations 1..ls.
XactFrames(l, x, ls) ==
    LET len == PduLens[x + 1]
    IN  {Frame("start", l, x, ls, len)}
        \cup {Frame("cont", l, x, s, ContLen(len, ls, s)) : s \in 1..ls}

\* The last-segment indices a Start of transaction x may claim.
Claims(x) ==
    IF Honest THEN {last_seg(PduLens[x + 1])} ELSE Segs

PeerFrames ==
    {Frame("open", l, 0, 0, 0) : l \in Links} \cup {Frame("close", l, 0, 0, 0) : l \in Links}
    \cup UNION {XactFrames(l, x, ls) : l \in Links, x \in Xacts, ls \in Segs}
DevFrames ==
    {[kind |-> k, link |-> l, xact |-> x] : k \in {"ack"}, l \in LinkIds, x \in Xacts}
    \cup {[kind |-> k, link |-> l, xact |-> 0] : k \in {"linkack", "close"}, l \in LinkIds}

RxState == [id : 0..255, prev_id : 0..255, seg : SUBSET Segs,
            last_seg : Segs, len : 0..65535]

VARIABLES
    slink,        \* [active: LINK_ACTIVE, id: slink.id, rx: slink.rx]
    pending_ack,  \* the file-static pending_ack of gen_prov_ack_send
    net,          \* peer frames in the air
    devNet,       \* device frames in the air
    peer,         \* [link, live, idx, claim]: idx 0 = waiting for Link Ack,
                  \* idx k = sending transaction k-1 whose Start claims last
                  \* segment claim, Len(PduLens)+1 = all acknowledged
    delivered,    \* <<link, xact>> of the PDUs handed to the state machine
                  \* since the latest link_open
    everDelivered, \* every <<link, xact>> ever handed to it
    fmtCloses,    \* close_link(PROV_ERR_NVAL_FMT) calls made by this layer
    lastWrite,    \* end offset of the latest write into slink.rx.buf
    allocFailed   \* whether an adv_buf_create() failed in the latest step

vars == <<slink, pending_ack, net, devNet, peer, delivered, everDelivered, fmtCloses, lastWrite, allocFailed>>

Done == Len(PduLens) + 1

\* The rx part of slink after reset_link's memset and prev_id = XACT_NVAL.
ResetRx == [id |-> 0, prev_id |-> XACT_NVAL, seg |-> {}, last_seg |-> 0, len |-> 0]

TypeOK ==
    /\ slink \in [active : BOOLEAN, id : LinkIds, rx : RxState]
    /\ pending_ack \in Xacts \cup {XACT_NVAL}
    /\ net \subseteq PeerFrames
    /\ devNet \subseteq DevFrames
    /\ peer \in [link : 0..MaxLinks, live : BOOLEAN, idx : 0..Done, claim : Segs]
    /\ delivered \in Seq(Links \X Xacts)
    /\ everDelivered \subseteq Links \X Xacts
    /\ fmtCloses \in Nat
    /\ lastWrite \in Nat
    /\ allocFailed \in BOOLEAN

Init ==
    /\ slink = [active |-> FALSE, id |-> 0, rx |-> ResetRx]
    /\ pending_ack = XACT_NVAL
    /\ net = {}
    /\ devNet = {}
    /\ peer = [link |-> 0, live |-> FALSE, idx |-> 0, claim |-> 0]
    /\ delivered = <<>>
    /\ everDelivered = {}
    /\ fmtCloses = 0
    /\ lastWrite = 0
    /\ allocFailed = FALSE

-----------------------------------------------------------------------------
(* Device side.                                                            *)

Ack(l, x) == [kind |-> "ack", link |-> l, xact |-> x]
Ctl(k, l) == [kind |-> k, link |-> l, xact |-> 0]

\* What a bearer_ctl_send(op) puts on the air: nothing when adv_buf_create
\* fails.
CtlOut(k) == {{Ctl(k, slink.id)}} \cup (IF LocalFailures THEN {{}} ELSE {})

\* gen_prov_ack_send(x), sent in the same step as the device frames out;
\* outFailed says that the allocation for out failed.
AckSend(x, out, outFailed) ==
    \/ /\ pending_ack = x                        \* "Not sending duplicate ack"
       /\ devNet' = devNet \cup out
       /\ UNCHANGED pending_ack
       /\ allocFailed' = outFailed
    \/ /\ pending_ack # x
       /\ LocalFailures                           \* adv_buf_create() failed
       /\ devNet' = devNet \cup out
       /\ UNCHANGED pending_ack
       /\ allocFailed' = TRUE
    \/ /\ pending_ack # x
       /\ pending_ack' = IF pending_ack = XACT_NVAL THEN x ELSE pending_ack
       /\ devNet' = devNet \cup {Ack(slink.id, x)} \cup out
       /\ allocFailed' = outFailed

Ignore ==
    /\ UNCHANGED <<slink, pending_ack, devNet, delivered, everDelivered, fmtCloses, lastWrite>>
    /\ allocFailed' = FALSE

ReAck(x) ==
    /\ AckSend(x, {}, FALSE)
    /\ UNCHANGED <<slink, delivered, everDelivered, fmtCloses, lastWrite>>

\* close_link(PROV_ERR_NVAL_FMT, ...) on PB-ADV with the rx state rx: rx.seg
\* is cleared, Link Close is sent and LINK_ACTIVE cleared; id, prev_id and
\* everything else are left as they are.
FormatClose(rx) ==
    /\ slink' = [slink EXCEPT !.active = FALSE, !.rx = [rx EXCEPT !.seg = {}]]
    /\ \E out \in CtlOut("close") : devNet' = devNet \cup out /\ allocFailed' = (out = {})
    /\ fmtCloses' = fmtCloses + 1
    /\ UNCHANGED <<pending_ack, delivered, everDelivered, lastWrite>>

\* The transport half of prov_msg_recv for the complete PDU in rx: ack it,
\* prev_id = id, id = 0, and hand it to the state machine, whose handler
\* either keeps the link or calls close_link.
ProvMsgRecv(rx, w) ==
    LET done == [rx EXCEPT !.prev_id = rx.id, !.id = 0]
    IN  /\ delivered' = Append(delivered, <<slink.id, rx.id>>)
        /\ everDelivered' = everDelivered \cup {<<slink.id, rx.id>>}
        /\ lastWrite' = w
        /\ UNCHANGED fmtCloses
        /\ \/ /\ slink' = [slink EXCEPT !.rx = done]
              /\ AckSend(rx.id, {}, FALSE)
           \/ /\ UpperMayClose
              /\ slink' = [slink EXCEPT !.active = FALSE, !.rx = [done EXCEPT !.seg = {}]]
              /\ \E out \in CtlOut("close") : AckSend(rx.id, out, out = {})

\* Store a segment written up to offset w; deliver once no segment is missing.
Accept(rx, w) ==
    IF rx.seg = {}
    THEN ProvMsgRecv(rx, w)
    ELSE /\ slink' = [slink EXCEPT !.rx = rx]
         /\ lastWrite' = w
         /\ allocFailed' = FALSE
         /\ UNCHANGED <<pending_ack, devNet, delivered, everDelivered, fmtCloses>>

\* Whether a Start declaring total length len and last segment ls is rejected.
BadStart(len, ls) ==
    \/ len < 1
    \/ len > RxBufSize
    \/ ls > 0 /\ len <= START_PAYLOAD_MAX

\* Mutant: no "Resending ack" check.
IsResendNever(rx, x) == FALSE

\* A frame of the transaction delivered last, with no reassembly running:
\* re-acknowledge it.
IsResend(rx, x) == rx.seg = {} /\ rx.prev_id = x

gen_prov_start(f) ==
    LET rx == slink.rx
        r  == [rx EXCEPT !.len = f.len, !.id = f.xact]
    IN  \/ rx.seg # {} /\ Ignore
        \/ IsResend(rx, f.xact) /\ ReAck(f.xact)
        \/ /\ rx.seg = {} /\ ~IsResend(rx, f.xact)
           /\ BadStart(f.len, f.seg)
           /\ FormatClose(r)
        \/ /\ rx.seg = {} /\ ~IsResend(rx, f.xact)
           /\ ~BadStart(f.len, f.seg)
           /\ Accept([r EXCEPT !.seg = 1..f.seg, !.last_seg = f.seg],
                     IF f.len < START_PAYLOAD_MAX THEN f.len ELSE START_PAYLOAD_MAX)

\* Mutant: off by one segment.
ExpectLenOff(rx) ==
    (rx.len - START_PAYLOAD_MAX - CONT_PAYLOAD_MAX * rx.last_seg) % 256

\* expect_len of gen_prov_cont, a u8.
ExpectLen(rx) ==
    (rx.len - START_PAYLOAD_MAX - CONT_PAYLOAD_MAX * (rx.last_seg - 1)) % 256

\* Mutant: XACT_SEG_DATA one segment further on.
SegEndOff(seg, len) == START_PAYLOAD_MAX + seg * CONT_PAYLOAD_MAX + len

\* XACT_SEG_DATA(seg) + len: where a Continuation's memcpy ends.
SegEnd(seg, len) == START_PAYLOAD_MAX + (seg - 1) * CONT_PAYLOAD_MAX + len

gen_prov_cont(f) ==
    LET rx == slink.rx
        s  == f.seg
        resend == IsResend(rx, f.xact)
        lenOk  == s = rx.last_seg => ExpectLen(rx) = f.len
    IN  \/ resend /\ ReAck(f.xact)
        \/ ~resend /\ f.xact # rx.id /\ Ignore
        \/ ~resend /\ f.xact = rx.id /\ s > rx.last_seg /\ FormatClose(rx)
        \/ ~resend /\ f.xact = rx.id /\ s <= rx.last_seg /\ ~lenOk /\ FormatClose(rx)
        \/ /\ ~resend /\ f.xact = rx.id /\ s <= rx.last_seg /\ lenOk
           /\ \/ s \notin rx.seg /\ Ignore            \* already received
              \/ s \in rx.seg /\ Accept([rx EXCEPT !.seg = @ \ {s}], SegEnd(s, f.len))

\* reset_link, as far as this layer sees it.
reset_link ==
    /\ slink' = [active |-> FALSE, id |-> 0, rx |-> ResetRx]
    /\ allocFailed' = FALSE
    /\ UNCHANGED <<pending_ack, devNet, delivered, everDelivered, fmtCloses, lastWrite>>

\* link_open: rx.buf->len = 0 but rx.id, prev_id and seg are kept.
link_open(f) ==
    \/ slink.active /\ Ignore
    \/ /\ ~slink.active
       /\ slink' = [active |-> TRUE, id |-> f.link, rx |-> [slink.rx EXCEPT !.len = 0]]
       /\ delivered' = <<>>
       /\ \E out \in {{Ctl("linkack", f.link)}} \cup (IF LocalFailures THEN {{}} ELSE {}) :
              devNet' = devNet \cup out /\ allocFailed' = (out = {})
       /\ UNCHANGED <<pending_ack, everDelivered, fmtCloses, lastWrite>>

\* bt_mesh_pb_adv_recv and gen_prov_recv: the link id filter, the
\* require_link check, and the dispatch on the GPC format.
bt_mesh_pb_adv_recv(f) ==
    \/ slink.active /\ slink.id # f.link /\ Ignore
    \/ /\ ~slink.active \/ slink.id = f.link
       /\ \/ f.kind = "open" /\ link_open(f)
          \/ f.kind = "close" /\ slink.active /\ reset_link
          \/ f.kind # "open" /\ ~slink.active /\ Ignore
          \/ f.kind = "start" /\ slink.active /\ gen_prov_start(f)
          \/ f.kind = "cont" /\ slink.active /\ gen_prov_cont(f)

\* A frame arrives.  Duplicates are the provisioner's retransmissions; a
\* copy not yet received when the provisioner moves on is a late duplicate.
DeviceRecvOf(f) ==
    /\ f \in net
    /\ net' = net \ {f}
    /\ bt_mesh_pb_adv_recv(f)
    /\ UNCHANGED peer

DeviceRecv == \E f \in net : DeviceRecvOf(f)

\* Mutant: ack_complete leaves pending_ack set.
AckCompleteKeep ==
    /\ pending_ack # XACT_NVAL
    /\ UNCHANGED vars

\* ack_complete: the ack's advertisement started.
AckComplete ==
    /\ pending_ack # XACT_NVAL
    /\ pending_ack' = XACT_NVAL
    /\ UNCHANGED <<slink, net, devNet, peer, delivered, everDelivered, fmtCloses, lastWrite>>
    /\ allocFailed' = FALSE

\* prov_retransmit giving up after TRANSACTION_TIMEOUT.
TransactionTimeout ==
    /\ slink.active
    /\ reset_link
    /\ UNCHANGED <<net, peer>>

-----------------------------------------------------------------------------
(* The provisioner and the channel (not code of this repository: the      *)
(* peer's side of the Generic Provisioning layer as prov_send_adv,        *)
(* gen_prov_ack and link handling implement it for the device).          *)

\* The frames the provisioner (re)transmits in its current stage.
StageFrames ==
    CASE peer.idx = 0    -> {Frame("open", peer.link, 0, 0, 0)}
      [] peer.idx < Done -> XactFrames(peer.link, peer.idx - 1, peer.claim)
      [] OTHER           -> {}

\* Open the next link, giving up on the current one if there is one.
PeerOpen ==
    /\ peer.link < MaxLinks
    /\ peer' = [link |-> peer.link + 1, live |-> TRUE, idx |-> 0, claim |-> 0]
    /\ net' = {Frame("open", peer.link + 1, 0, 0, 0)}
              \cup IF BoundedDelay THEN {} ELSE net
    /\ UNCHANGED <<slink, pending_ack, devNet, delivered, everDelivered, fmtCloses, lastWrite>>
    /\ allocFailed' = FALSE

PeerRetransmit ==
    /\ peer.live /\ peer.idx < Done
    /\ net' = net \cup StageFrames
    /\ UNCHANGED <<slink, pending_ack, devNet, peer, delivered, everDelivered, fmtCloses, lastWrite>>
    /\ allocFailed' = FALSE

\* Move to transaction i (index into PduLens), choosing its Start's claim.
Advance(i) ==
    \E c \in IF i <= Len(PduLens) THEN Claims(i - 1) ELSE {0} :
        peer' = [peer EXCEPT !.idx = i, !.claim = c]

\* A device frame reaches the provisioner.
PeerRecvOf(d) ==
    /\ d \in devNet
    /\ devNet' = devNet \ {d}
    /\ IF /\ d.kind = "ack" /\ d.link = peer.link /\ peer.live
          /\ 1 <= peer.idx /\ peer.idx < Done /\ d.xact = peer.idx - 1
       THEN /\ Advance(peer.idx + 1)
            /\ net' = IF BoundedDelay THEN net \ StageFrames ELSE net
       ELSE /\ CASE d.link # peer.link \/ ~peer.live -> UNCHANGED peer
                 [] d.kind = "linkack" /\ peer.idx = 0 -> Advance(1)
                 [] d.kind = "close" -> peer' = [peer EXCEPT !.live = FALSE]
                 [] OTHER -> UNCHANGED peer
            /\ UNCHANGED net
    /\ UNCHANGED <<slink, pending_ack, delivered, everDelivered, fmtCloses, lastWrite>>
    /\ allocFailed' = FALSE

PeerRecv == \E d \in devNet : PeerRecvOf(d)

\* The provisioner closes its link, when it is done or gives up.
PeerClose ==
    /\ peer.live
    /\ peer' = [peer EXCEPT !.live = FALSE]
    /\ net' = net \cup {Frame("close", peer.link, 0, 0, 0)}
    /\ UNCHANGED <<slink, pending_ack, devNet, delivered, everDelivered, fmtCloses, lastWrite>>
    /\ allocFailed' = FALSE

\* The channel loses a frame in either direction.
Lose ==
    /\ \/ \E f \in net : net' = net \ {f} /\ UNCHANGED devNet
       \/ \E d \in devNet : devNet' = devNet \ {d} /\ UNCHANGED net
    /\ UNCHANGED <<slink, pending_ack, peer, delivered, everDelivered, fmtCloses, lastWrite>>
    /\ allocFailed' = FALSE

Next ==
    \/ DeviceRecv
    \/ AckComplete
    \/ TransactionTimeout
    \/ PeerOpen
    \/ PeerRetransmit
    \/ PeerRecv
    \/ PeerClose
    \/ Lose

Spec == Init /\ [][Next]_vars

\* The fair-lossy radio the Generic Provisioning layer is built for: a
\* frame the provisioner keeps retransmitting, or an ack of its current
\* transaction that the device keeps sending, is eventually received.  The
\* provisioner keeps retransmitting its stage, and the advertiser starts
\* every queued ack, which runs ack_complete.  adv_buf_create() fails only
\* while the advertiser holds every buffer, and the advertiser frees them, so
\* a frame received infinitely often is eventually handled without a failed
\* allocation.
\* The Link Open or Start of a stage is at position 0, Continuation j at j.
AtPosition(f, j) == IF j = 0 THEN f.kind \in {"open", "start"} ELSE f.kind = "cont" /\ f.seg = j
AckOfStage == IF 1 <= peer.idx /\ peer.idx < Done THEN {Ack(peer.link, peer.idx - 1)} ELSE {}
ChannelFairness ==
    /\ WF_vars(PeerRetransmit)
    /\ \A j \in 0..2 : SF_vars(\E f \in StageFrames : AtPosition(f, j) /\ DeviceRecvOf(f) /\ ~allocFailed')
    /\ SF_vars(\E d \in AckOfStage : PeerRecvOf(d))
    /\ WF_vars(AckComplete)

FairSpec == Spec /\ ChannelFairness

-----------------------------------------------------------------------------
(* Properties.                                                             *)

\* The receive layer implements the delivery service of ProvTransport:
\* link_open starts a session, reset_link and close_link end it, and
\* gen_prov_start/gen_prov_cont with prev_id hand each transaction of a
\* session to prov_msg_recv at most once, in increasing transaction order,
\* tagged with the active link.  A retransmitted or duplicated transaction
\* is re-acknowledged instead.
Transport == INSTANCE ProvTransport WITH
    session <- IF slink.active THEN slink.id ELSE 0,
    got     <- delivered

ImplementsTransport == Transport!Spec

\* An honest provisioner's frames, however lost, duplicated, delayed or
\* reordered, never make gen_prov_start/gen_prov_cont reject the transaction
\* as malformed (close_link with PROV_ERR_NVAL_FMT).
NoSpuriousClose == fmtCloses = 0

\* When the provisioner holds a transaction acknowledged (gen_prov_ack_send),
\* the device delivered that PDU on that link (prov_msg_recv).
AckImpliesDelivered ==
    \A i \in 1..(peer.idx - 1) : <<peer.link, i - 1>> \in everDelivered

\* Every transaction the honest provisioner keeps retransmitting on the
\* device's open link is acknowledged, unless one side closes the link:
\* the "Not sending duplicate ack" check of gen_prov_ack_send suppresses an
\* ack only until ack_complete clears pending_ack.
Transaction(i) == peer.live /\ peer.idx = i /\ slink.active /\ slink.id = peer.link
AckedEventually ==
    \A i \in 1..Len(PduLens) :
        Transaction(i) ~> (peer.idx # i \/ ~peer.live \/ ~slink.active)

\* The memcpy of gen_prov_start/gen_prov_cont into slink.rx.buf stays
\* within the buffer.
SegWriteInBounds == lastWrite <= RxBufSize

=============================================================================
