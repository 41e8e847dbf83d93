------------------------------ MODULE ProvLink ------------------------------
(***************************************************************************)
(* The provisionee side of Bluetooth Mesh provisioning over PB-ADV, at the *)
(* level of whole provisioning PDUs (network/bluetooth/bt_mesh/src/prov.c).*)
(*                                                                         *)
(* State: the file-scope struct prov_link slink (flags, expect, dhkey,     *)
(* conf, conf_key, prov_salt) and the two asynchronous services of the    *)
(* host's ECC engine that prov.c waits on (hci_core.c: the local P-256    *)
(* key, and the single-slot DH-key callback dh_key_cb).                   *)
(*                                                                         *)
(* Data is abstracted to what the properties tell apart: a key, salt or   *)
(* confirmation is represented by the link (epoch) whose ECDH exchange it *)
(* was derived from, 0 standing for zeroed memory.  A provisioning PDU is *)
(* its type, whether its length is right, and one argument saying whether *)
(* its cryptographic content is what an honest peer on this link sends.  *)
(* Segmentation, FCS and acknowledgement are modelled in GenProvRx; here a *)
(* PDU arrives whole, as prov_msg_recv() sees it after reassembly.        *)
(*                                                                         *)
(* Both bearers of this build (CONFIG_BT_MESH_PB_ADV and _PB_GATT) share  *)
(* slink: a link is opened by link_open() or bt_mesh_pb_gatt_open(), a    *)
(* PDU arrives through prov_msg_recv() or bt_mesh_pb_gatt_recv(), and the *)
(* link ends by reset_link(), close_link() or bt_mesh_pb_gatt_close().    *)
(***************************************************************************)
EXTENDS Naturals, Sequences, FiniteSets

CONSTANTS
    MaxLinks,       \* number of Link Opens the environment may make
    MaxPdus,        \* provisioning PDUs the peer may send on one link
    PeerTypes,      \* PDU types the peer may send
    LocalFailures,  \* whether adv-buffer and crypto-primitive failures occur
    Bearers,        \* the bearers provisioners use: subset of {"adv", "gatt"}
    ZeroLinkId      \* whether PB-ADV frames carry link id 0 while GATT is up

ASSUME MaxLinks \in Nat \ {0} /\ MaxPdus \in Nat /\ LocalFailures \in BOOLEAN
ASSUME Bearers \subseteq {"adv", "gatt"} /\ ZeroLinkId \in BOOLEAN

\* Provisioning PDU types (prov.c PROV_INVITE .. PROV_FAILED).
PROV_INVITE == 0
PROV_CAPABILITIES == 1
PROV_START == 2
PROV_PUB_KEY == 3
PROV_INPUT_COMPLETE == 4
PROV_CONFIRM == 5
PROV_RANDOM == 6
PROV_DATA == 7
PROV_COMPLETE == 8
PROV_FAILED == 9
PduTypes == 0..9

ASSUME PeerTypes \subseteq PduTypes

\* The bits of slink.flags that this build can set (WAIT_NUMBER and
\* WAIT_STRING are only set by the compiled-out input-OOB code).
REMOTE_PUB_KEY == "REMOTE_PUB_KEY"
LOCAL_PUB_KEY == "LOCAL_PUB_KEY"
LINK_ACTIVE == "LINK_ACTIVE"
HAVE_DHKEY == "HAVE_DHKEY"
SEND_CONFIRM == "SEND_CONFIRM"
Flags == {REMOTE_PUB_KEY, LOCAL_PUB_KEY, LINK_ACTIVE, HAVE_DHKEY, SEND_CONFIRM}

\* The PDUs a provisionee sends.
ProvisioneePdus == {PROV_CAPABILITIES, PROV_PUB_KEY, PROV_CONFIRM, PROV_RANDOM,
                    PROV_COMPLETE, PROV_FAILED}

Epochs == 0..MaxLinks

\* slink.conf: the peer's confirmation, computed by the peer with the
\* confirmation key of link `key`, and with the right AuthValue or not.
Confs == [key : Epochs, auth : BOOLEAN]

\* The argument a peer PDU carries, per type: prov_start()'s three checks,
\* whether a Confirmation was computed with the right AuthValue, whether a
\* Random opens the peer's Confirmation, whether Data is encrypted under the
\* session key of this link.
StartArgs == {"ok", "badAlg", "badKeyType", "badAuth"}
Args(t) == CASE t = PROV_START -> StartArgs
             [] t \in {PROV_CONFIRM, PROV_RANDOM, PROV_DATA} -> BOOLEAN
             [] OTHER -> {TRUE}

Fails == IF LocalFailures THEN BOOLEAN ELSE {FALSE}

VARIABLES
    slink,    \* [flags, expect, dhkey, conf, confKey, provSalt, conn, rxBuf, txLive]
    ecc,      \* [busy, hasPubKey, dhCb]: hci_core's key state and dh_key_cb
    epoch,    \* number of Link Opens so far; names the current link
    pdus,     \* PDUs received on the current link
    sent,     \* provisioning PDU types sent since the current Link Open
    commits   \* calls of bt_mesh_provision()

vars == <<slink, ecc, epoch, pdus, sent, commits>>

\* The struct after memset(&slink, 0, ...).  conn: slink.conn is a GATT
\* connection (not NULL); rxBuf: slink.rx.buf, the proxy's buffer or NULL;
\* txLive: the tx.retransmit work is pending or running its 500 ms chain.
ZeroLink == [flags |-> {}, expect |-> 0, dhkey |-> 0,
             conf |-> [key |-> 0, auth |-> FALSE], confKey |-> 0, provSalt |-> 0,
             conn |-> FALSE, rxBuf |-> "null", txLive |-> FALSE]

TypeOK ==
    /\ slink \in [flags : SUBSET Flags, expect : PduTypes, dhkey : Epochs,
                  conf : Confs, confKey : Epochs, provSalt : Epochs,
                  conn : BOOLEAN, rxBuf : {"proxy", "null"}, txLive : BOOLEAN]
    /\ ecc \in [busy : BOOLEAN, hasPubKey : BOOLEAN, dhCb : Epochs]
    /\ epoch \in Epochs
    /\ pdus \in 0..MaxPdus
    /\ sent \in Seq(ProvisioneePdus)
    /\ commits \in Nat

Active == LINK_ACTIVE \in slink.flags

-----------------------------------------------------------------------------
(* Helpers of prov.c, as functions of the link record they start from.    *)

\* close_link(err, reason) on PB-ADV: every caller passes an error, so a
\* Failed PDU is sent, then Link Close through send_reliable(), which arms
\* the retransmit work; LINK_ACTIVE is cleared and nothing else is reset.
Closed(l) == [l EXCEPT !.flags = @ \ {LINK_ACTIVE}, !.txLive = TRUE]

\* Mutant: LOCAL_PUB_KEY is not saved across the memset.
GattClosedNoKey(l) == ZeroLink

\* bt_mesh_pb_gatt_close(): the connection is unreferenced and all of slink
\* is zeroed (rx.buf and the retransmit work included); only LOCAL_PUB_KEY
\* is put back.
GattClosed(l) == [ZeroLink EXCEPT !.flags = l.flags \cap {LOCAL_PUB_KEY}]

\* close_link() hands a GATT link to bt_mesh_pb_gatt_close(), which sends
\* neither Failed nor Link Close.
CloseLink(l, out) ==
    IF l.conn
    THEN /\ slink' = GattClosed(l)
         /\ sent' = out
    ELSE /\ slink' = Closed(l)
         /\ sent' = out \o <<PROV_FAILED>>

\* reset_link(): prov_clear_tx() cancels the retransmit work, the struct up
\* to tx.retransmit is zeroed (slink.conn included, without unreferencing
\* it), LOCAL_PUB_KEY is set again when the host has a public key and
\* rx.buf is the proxy buffer again.  The ECC engine is not told.
ResetLink ==
    /\ slink' = [ZeroLink EXCEPT !.flags = IF ecc.hasPubKey
                                           THEN {LOCAL_PUB_KEY} ELSE {},
                                 !.rxBuf = "proxy"]
    /\ UNCHANGED <<ecc, epoch, pdus, sent, commits>>

\* bt_dh_key_gen() takes the request only while no DH callback is pending
\* and the host is not generating its key pair; otherwise -EBUSY.
DhKeyGenAccepted(e) == e.dhCb = 0 /\ ~e.busy

\* send_pub_key(), started from link record l and ECC state e: the local key
\* is sent, then bt_mesh_dh_key_gen() asks the host for the DH key, which
\* fails with -EBUSY while an earlier request is outstanding.
SendPubKey(l, e) ==
    \/ /\ ~e.hasPubKey
       /\ CloseLink(l, sent)
       /\ ecc' = e
    \/ /\ e.hasPubKey /\ DhKeyGenAccepted(e)
       /\ ecc' = [e EXCEPT !.dhCb = epoch]
       /\ slink' = [l EXCEPT !.expect = PROV_CONFIRM]
       /\ sent' = Append(sent, PROV_PUB_KEY)
    \/ /\ e.hasPubKey
       /\ \E f \in Fails : ~DhKeyGenAccepted(e) \/ f
       /\ CloseLink(l, Append(sent, PROV_PUB_KEY))
       /\ ecc' = e

\* send_confirm(): ConfirmationSalt and ConfirmationKey from slink.dhkey, a
\* fresh local Random, the confirmation value, and the Confirmation PDU.
SendConfirm(l) ==
    \/ /\ slink' = [l EXCEPT !.confKey = l.dhkey, !.expect = PROV_RANDOM]
       /\ sent' = Append(sent, PROV_CONFIRM)
    \/ /\ LocalFailures
       /\ CloseLink(l, sent)

-----------------------------------------------------------------------------
(* Handlers of prov_handlers[], entered with the PDU's type = slink.expect *)

\* Fault: the reply is built with prov_buf_init(buf, PROV_INVITE).
ProvInviteWrongType ==
    /\ \/ /\ slink' = [slink EXCEPT !.expect = PROV_START]
          /\ sent' = Append(sent, PROV_INVITE)
       \/ /\ LocalFailures
          /\ CloseLink(slink, sent)
    /\ UNCHANGED ecc

ProvInvite ==
    /\ \/ /\ slink' = [slink EXCEPT !.expect = PROV_START]
          /\ sent' = Append(sent, PROV_CAPABILITIES)
       \/ /\ LocalFailures
          /\ CloseLink(slink, sent)
    /\ UNCHANGED ecc

ProvStart(a) ==
    /\ \/ /\ a \in {"badAlg", "badKeyType"}
          /\ slink' = [slink EXCEPT !.expect = PROV_FAILED]
          /\ sent' = Append(sent, PROV_FAILED)
       \/ /\ a \in {"ok", "badAuth"}
          /\ slink' = [slink EXCEPT !.expect = PROV_PUB_KEY]
          /\ sent' = IF a = "badAuth" THEN Append(sent, PROV_FAILED) ELSE sent
    /\ UNCHANGED ecc

ProvPubKey ==
    \/ /\ LOCAL_PUB_KEY \notin slink.flags
       /\ slink' = [slink EXCEPT !.flags = @ \cup {REMOTE_PUB_KEY}]
       /\ UNCHANGED <<ecc, sent>>
    \/ /\ LOCAL_PUB_KEY \in slink.flags
       /\ SendPubKey(slink, ecc)

ProvConfirm(a) ==
    LET l == [slink EXCEPT !.conf = [key |-> epoch, auth |-> a]]
    IN  /\ \/ /\ HAVE_DHKEY \notin l.flags
              /\ slink' = [l EXCEPT !.flags = @ \cup {SEND_CONFIRM}]
              /\ UNCHANGED sent
           \/ /\ HAVE_DHKEY \in l.flags
              /\ SendConfirm(l)
        /\ UNCHANGED ecc

\* The peer's Random r opens its Confirmation when it was computed with the
\* same confirmation key the device derived, and the right AuthValue.
\* Fault: the result of memcmp(conf_verify, slink.conf, 16) is ignored.
ConfMatchesUnchecked(l, r) == r

ConfMatches(l, r) == l.conf.auth /\ l.conf.key = l.confKey /\ r

ProvRandom(r) ==
    /\ \/ /\ LocalFailures
          /\ \E out \in {sent, Append(sent, PROV_RANDOM)} : CloseLink(slink, out)
       \/ /\ ~ConfMatches(slink, r)
          /\ slink' = [slink EXCEPT !.expect = PROV_FAILED]
          /\ sent' = Append(sent, PROV_FAILED)
       \/ /\ ConfMatches(slink, r)
          /\ slink' = [slink EXCEPT !.provSalt = epoch, !.expect = PROV_DATA]
          /\ sent' = Append(sent, PROV_RANDOM)
    /\ UNCHANGED <<ecc, commits>>

\* The Data PDU decrypts when the peer encrypted it for this link and the
\* session key derives from this link's DH key and provisioning salt.
Decrypts(l, d) == d /\ l.provSalt = epoch /\ l.dhkey = epoch

ProvData(d) ==
    /\ \/ /\ LocalFailures
          /\ CloseLink(slink, sent)
          /\ UNCHANGED commits
       \/ /\ ~Decrypts(slink, d)
          /\ slink' = [slink EXCEPT !.expect = PROV_FAILED]
          /\ sent' = Append(sent, PROV_FAILED)
          /\ UNCHANGED commits
       \/ /\ Decrypts(slink, d)
          /\ slink' = [slink EXCEPT !.expect = 0]
          /\ sent' = Append(sent, PROV_COMPLETE)
          /\ commits' = commits + 1
    /\ UNCHANGED ecc

-----------------------------------------------------------------------------
(* Actions                                                                 *)

\* link_open(): a Link Open carrying our UUID while no link is active.
\* net_buf_simple_init(slink.rx.buf, 0) runs whatever rx.buf is: on NULL
\* the stores go to address 0, which this model lets pass unnoticed (the
\* property LinkResourcesOwned flags the state).  bearer_ctl_send(LINK_ACK)
\* arms the retransmit work.
LinkOpen ==
    /\ "adv" \in Bearers
    /\ ~Active
    /\ epoch < MaxLinks
    /\ epoch' = epoch + 1
    /\ slink' = [slink EXCEPT !.flags = @ \cup {LINK_ACTIVE},
                              !.expect = PROV_INVITE, !.txLive = TRUE]
    /\ sent' = <<>>
    /\ pdus' = 0
    /\ UNCHANGED <<ecc, commits>>

\* A PB-ADV frame reaches the link: always when the link is on PB-ADV; on
\* a GATT link slink.id is 0, so bt_mesh_pb_adv_recv()'s link filter lets
\* through the frames that carry link id 0.
AdvReaches == ~slink.conn \/ ZeroLinkId

\* gen_prov_ctl() -> link_close(): a Link Close for the active link.
LinkClose ==
    /\ Active /\ AdvReaches
    /\ ResetLink

\* prov_retransmit(): the pending work finds LINK_ACTIVE set and the
\* transaction 30 s old, and gives the link up without telling the peer.
\* On a PB-ADV link the work is always armed while a transaction is out;
\* a GATT link sees it only when the work of an earlier PB-ADV link was
\* still running when bt_mesh_pb_gatt_open() set LINK_ACTIVE.
TransactionTimeout ==
    /\ Active /\ (~slink.conn \/ slink.txLive)
    /\ ResetLink

\* prov_retransmit() runs while no link is active: "Link not active", and
\* the work is not armed again.
RetransmitIdle ==
    /\ ~Active /\ slink.txLive
    /\ slink' = [slink EXCEPT !.txLive = FALSE]
    /\ UNCHANGED <<ecc, epoch, pdus, sent, commits>>

\* prov_handlers[t].func for a PDU of type t that passed the bearer checks.
Dispatch(t, a) ==
    CASE t = PROV_INVITE  -> ProvInvite /\ UNCHANGED commits
      [] t = PROV_START   -> ProvStart(a) /\ UNCHANGED commits
      [] t = PROV_PUB_KEY -> ProvPubKey /\ UNCHANGED commits
      [] t = PROV_CONFIRM -> ProvConfirm(a) /\ UNCHANGED commits
      [] t = PROV_RANDOM  -> ProvRandom(a)
      [] t = PROV_DATA    -> ProvData(a)
      [] OTHER -> UNCHANGED <<slink, ecc, sent, commits>>

\* A peer PDU arrives; its type t, argument a and length (lenOk) are
\* chosen by the receiving action.
RecvPdu ==
    /\ pdus < MaxPdus
    /\ pdus' = pdus + 1
    /\ UNCHANGED epoch

\* prov_msg_recv(): a reassembled PDU whose FCS checked out.  A wrong type
\* is answered with Failed, a wrong length closes the link.
AdvChecked(t, a, lenOk) ==
    \/ /\ t # PROV_FAILED /\ t # slink.expect
       /\ slink' = [slink EXCEPT !.expect = PROV_FAILED]
       /\ sent' = Append(sent, PROV_FAILED)
       /\ UNCHANGED <<ecc, commits>>
    \/ /\ t = PROV_FAILED \/ t = slink.expect
       /\ ~lenOk
       /\ CloseLink(slink, sent)
       /\ UNCHANGED <<ecc, commits>>
    \/ /\ t = PROV_FAILED \/ t = slink.expect
       /\ lenOk
       /\ Dispatch(t, a)

ProvMsgRecv ==
    /\ Active /\ AdvReaches
    /\ RecvPdu
    /\ \E t \in PeerTypes : \E a \in Args(t), lenOk \in BOOLEAN : AdvChecked(t, a, lenOk)

\* bt_mesh_pb_gatt_recv(): a wrong type or length returns -EINVAL, and the
\* PDU is dropped without an answer.
GattChecked(t, a, lenOk) ==
    IF (t = PROV_FAILED \/ t = slink.expect) /\ lenOk
    THEN Dispatch(t, a)
    ELSE UNCHANGED <<slink, ecc, sent, commits>>

GattRecv ==
    /\ Active /\ slink.conn
    /\ RecvPdu
    /\ \E t \in PeerTypes : \E a \in Args(t), lenOk \in BOOLEAN : GattChecked(t, a, lenOk)

\* bt_mesh_pb_gatt_open(): atomic_test_and_set_bit(LINK_ACTIVE) fails with
\* -EBUSY on an active link; otherwise the connection is referenced and
\* Invite expected.  The retransmit work is left as it is.
GattOpen ==
    /\ "gatt" \in Bearers
    /\ ~Active
    /\ epoch < MaxLinks
    /\ epoch' = epoch + 1
    /\ slink' = [slink EXCEPT !.flags = @ \cup {LINK_ACTIVE}, !.conn = TRUE,
                              !.expect = PROV_INVITE]
    /\ sent' = <<>>
    /\ pdus' = 0
    /\ UNCHANGED <<ecc, commits>>

\* The proxy calls bt_mesh_pb_gatt_close() for the connection it saw go
\* away; for any other connection it returns -ENOTCONN.
GattClose ==
    /\ slink.conn
    /\ slink' = GattClosed(slink)
    /\ UNCHANGED <<ecc, epoch, pdus, sent, commits>>

\* le_pkey_complete(): BT_DEV_PUB_KEY_BUSY cleared, BT_DEV_HAS_PUB_KEY set
\* when the key was generated.
PkeyComplete(e, ok) == [e EXCEPT !.busy = FALSE, !.hasPubKey = @ \/ ok]

\* le_pkey_complete() -> pub_key_ready(): the host's local key is ready (or
\* its generation failed).  Nothing checks that a link is active.
PubKeyReady ==
    /\ ecc.busy
    /\ \E ok \in IF LocalFailures THEN BOOLEAN ELSE {TRUE} :
         LET e == PkeyComplete(ecc, ok)
             l == [slink EXCEPT !.flags = @ \cup {LOCAL_PUB_KEY}]
         IN  \/ /\ ~ok
                /\ ecc' = e
                /\ UNCHANGED <<slink, sent>>
             \/ /\ ok /\ REMOTE_PUB_KEY \notin l.flags
                /\ ecc' = e
                /\ slink' = l
                /\ UNCHANGED sent
             \/ /\ ok /\ REMOTE_PUB_KEY \in l.flags
                /\ SendPubKey([l EXCEPT !.flags = @ \ {REMOTE_PUB_KEY}], e)
    /\ UNCHANGED <<epoch, pdus, commits>>

\* Fault: prov_dh_key_cb() stores the key but never resumes a deferred
\* send_confirm().
DhKeyCompleteNoResume ==
    /\ ecc.dhCb # 0
    /\ ecc' = [ecc EXCEPT !.dhCb = 0]
    /\ \E ok \in IF LocalFailures THEN BOOLEAN ELSE {TRUE} :
         \/ /\ ~ok
            /\ CloseLink(slink, sent)
         \/ /\ ok
            /\ slink' = [slink EXCEPT !.dhkey = ecc.dhCb,
                                      !.flags = @ \cup {HAVE_DHKEY}]
            /\ UNCHANGED sent
    /\ UNCHANGED <<epoch, pdus, commits>>

\* le_dhkey_complete() -> prov_dh_key_cb(): the DH key requested for link
\* ecc.dhCb arrives (or the computation failed).  Nothing checks that the
\* link it was computed for is still the current one.
DhKeyComplete ==
    /\ ecc.dhCb # 0
    /\ ecc' = [ecc EXCEPT !.dhCb = 0]
    /\ \E ok \in IF LocalFailures THEN BOOLEAN ELSE {TRUE} :
         LET l == [slink EXCEPT !.dhkey = ecc.dhCb,
                                !.flags = @ \cup {HAVE_DHKEY}]
         IN  \/ /\ ~ok
                /\ CloseLink(slink, sent)
             \/ /\ ok /\ SEND_CONFIRM \notin l.flags
                /\ slink' = l
                /\ UNCHANGED sent
             \/ /\ ok /\ SEND_CONFIRM \in l.flags
                /\ SendConfirm([l EXCEPT !.flags = @ \ {SEND_CONFIRM}])
    /\ UNCHANGED <<epoch, pdus, commits>>

\* bt_mesh_prov_init() has zeroed slink and asked the host for a key pair.
Init ==
    /\ slink = [ZeroLink EXCEPT !.rxBuf = "proxy"]
    /\ ecc = [busy |-> TRUE, hasPubKey |-> FALSE, dhCb |-> 0]
    /\ epoch = 0
    /\ pdus = 0
    /\ sent = <<>>
    /\ commits = 0

Next ==
    \/ LinkOpen
    \/ LinkClose
    \/ TransactionTimeout
    \/ RetransmitIdle
    \/ ProvMsgRecv
    \/ GattOpen
    \/ GattRecv
    \/ GattClose
    \/ PubKeyReady
    \/ DhKeyComplete

\* The host controller answers every ECC command it accepted; the peer and
\* the timers are not assumed to do anything.
Fairness == WF_vars(PubKeyReady) /\ WF_vars(DhKeyComplete)

Spec == Init /\ [][Next]_vars /\ Fairness

-----------------------------------------------------------------------------
(* Properties                                                              *)

\* bt_mesh_provision() is called (prov_data() commits the network key and
\* address) only when the Confirmation stored in slink.conf was computed on
\* this link by a peer holding the AuthValue: the Random check of
\* prov_random() and the expect pointer must together exclude every peer
\* that did not authenticate, across link resets and stale callbacks.
CommitRequiresAuth ==
    [][commits' > commits => slink.conf.key = epoch /\ slink.conf.auth]_vars

\* A Confirmation that prov_confirm() deferred on the current link because
\* the DH key was not yet there (SEND_CONFIRM) is eventually sent by
\* prov_dh_key_cb(), unless the link goes away first.
DeferredConfirmSent ==
    \A e \in Epochs \ {0} :
        (epoch = e /\ Active /\ SEND_CONFIRM \in slink.flags /\ slink.conf.key = e)
            ~> (epoch # e \/ ~Active \/ SEND_CONFIRM \notin slink.flags)

\* prov_data() says "Ignore any further PDUs on this slink": the network key
\* and address are committed at most once.
SingleCommit == commits <= 1

\* pub_key_ready() runs once, when the host's key pair is generated, and
\* prov_pub_key() answers a peer key at once only if LOCAL_PUB_KEY is set.
\* Every teardown (close_link, reset_link, and the memset of
\* bt_mesh_pb_gatt_close) must keep the bit while the host holds the key,
\* or every later link waits for a callback that never comes.
LocalKeyKept == ecc.hasPubKey => LOCAL_PUB_KEY \in slink.flags

\* Spec sections 3 and 4.3: a link is set up and torn down by its own
\* bearer.  A PB-ADV link has a reassembly buffer (link_open initialises
\* slink.rx.buf and gen_prov_start writes into it), and a GATT link ends
\* only through bt_mesh_pb_gatt_close(), which releases the connection
\* reference that bt_mesh_pb_gatt_open() took.
LinkResourcesOwned ==
    /\ [](Active /\ ~slink.conn => slink.rxBuf = "proxy")
    /\ [][slink.conn /\ ~slink'.conn => slink' = GattClosed(slink)]_vars

\* Spec sections 3 and 5: no value survives a provisioning attempt, and a
\* callback that fires after its link closed must not act.  The ECC
\* callbacks pub_key_ready() and prov_dh_key_cb() send no PDU while no link
\* is active, and a Confirmation the device sends answers the peer's
\* Confirmation received on the current link and is computed from the DH
\* key of the current link.
LateCallbackIsolated ==
    [][ /\ ~Active => Len(sent') <= Len(sent)
        /\ sent' = Append(sent, PROV_CONFIRM) =>
               slink'.confKey = epoch /\ slink'.conf.key = epoch ]_vars

=============================================================================
