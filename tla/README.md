# TLA+ models of the Genie BT Mesh SDK provisioning stack

The models cover the device (provisionee) side of Bluetooth Mesh provisioning
over the advertising bearer (PB-ADV) and the GATT bearer (PB-GATT), all of
which is in `network/bluetooth/bt_mesh/src/prov.c`. They also cover the ECC
interface of `network/bluetooth/bt_host/host/hci_core.c` and the HCI command
path of the same file, which every host call to the controller goes through,
and the LE advertising and scanning state of that file, whose callers
(adv.c, proxy.c) are outside this tree. Paths below are relative to
`src/genie-bt-mesh-sdk-rel_1.3.4/`.

## The system

| Part | Code | State | Operations |
|---|---|---|---|
| Link control | `link_open`, `link_close`, `gen_prov_ctl`, `close_link`, `reset_link`, `prov_retransmit` | `slink.flags` (LINK_ACTIVE), `slink.id` | open, peer close, device close, 30 s transaction timeout |
| Generic Provisioning receive | `bt_mesh_pb_adv_recv`, `gen_prov_recv`, `gen_prov_start`, `gen_prov_cont`, `prov_msg_recv`, `gen_prov_ack_send`, `ack_complete` | `slink.rx` {id, prev_id, seg mask, last_seg, fcs, buf}, file-static `pending_ack` | Start, Continuation, ack, FCS check, delivery |
| Generic Provisioning transmit | `prov_send_adv`, `send_reliable`, `buf_sent`, `prov_retransmit`, `gen_prov_ack`, `next_transaction_id` | `slink.tx` {id, buf[3], start, retransmit work} | segment, send, retransmit, ack, time out |
| Provisioning state machine | `prov_handlers[]`: `prov_invite`, `prov_start`/`prov_auth`, `prov_pub_key`, `send_pub_key`, `pub_key_ready`, `prov_confirm`, `send_confirm`, `prov_dh_key_cb`, `prov_random`, `prov_data` | `slink.expect`, flags REMOTE_PUB_KEY, LOCAL_PUB_KEY, HAVE_DHKEY, SEND_CONFIRM, key material | one handler per PDU type |
| Host ECC | `bt_pub_key_gen`, `bt_dh_key_gen`, `le_pkey_complete`, `le_dhkey_complete` (hci_core.c) | BT_DEV_PUB_KEY_BUSY, BT_DEV_HAS_PUB_KEY, the single `dh_key_cb` | asynchronous key generation and ECDH |
| PB-GATT bearer | `bt_mesh_pb_gatt_recv/open/close` | `slink.conn` | open, receive, close |
| LE advertising and scanning | `bt_le_adv_start`, `bt_le_adv_start_instant`, `bt_le_adv_stop`, `bt_le_scan_start`, `bt_le_scan_stop`, `bt_le_scan_update`, `start_le_scan`, `set_advertise_enable`, `set_le_scan_enable`, and the flag updates of `hci_disconn_complete` and `le_enh_conn_complete` (hci_core.c) | `bt_dev.flags` ADVERTISING, KEEP_ADVERTISING, SCANNING, ACTIVE_SCAN, EXPLICIT_SCAN | start/stop advertising and scanning from application threads; connection and disconnection events on the RX thread |
| HCI command path | `bt_hci_cmd_create`, `bt_hci_cmd_send`, `bt_hci_cmd_send_sync`, `process_events`, `send_cmd`, `hci_tx_thread`, `bt_buf_get_cmd_complete`, `hci_cmd_complete`/`hci_cmd_status`, `hci_cmd_done` (hci_core.c) | the command pool, `bt_dev.cmd_tx_queue`, `bt_dev.sent_cmd`, each buffer's ref count and `cmd_data` {sync, status, opcode} | queue, send, complete, sync wait with timeout |

How the parts interact:

- Frames from the advertising bearer enter through `bt_mesh_pb_adv_recv`. The receive layer reassembles them into a PDU, acknowledges it, and hands it to `prov_msg_recv`. That function checks the PDU type against `slink.expect` and calls the handler.
- Handlers answer through the transmit layer.
- Two handlers start asynchronous ECC work whose callbacks run later, in the HCI event context:
  - `send_pub_key` starts an ECDH computation through `bt_dh_key_gen`; it finishes in `prov_dh_key_cb`.
  - `bt_mesh_prov_init` starts public-key generation through `bt_pub_key_gen`; it finishes in `pub_key_ready`.
- The callbacks read and write the same `slink` that the receive path uses.
- `close_link` (device-initiated, after an error) and `reset_link` (peer close, timeout) end a link in different ways:
  - `close_link` clears only `rx.seg` and LINK_ACTIVE.
  - `reset_link` zeroes the whole struct and sets `rx.prev_id = XACT_NVAL`.

The hard behaviours the code has to cope with:

- The peer's frames can be lost, duplicated or reordered.
- ECC callbacks can arrive after the link that asked for them has closed, or after a new link has opened.
- Buffer allocation can fail in the middle of a handler.
- The transaction timer can reset the link while the peer is still sending.
- Transaction ids and segment indices come from the peer and are bounded only by what the code checks.

## Modules

| Module | Models | MC module |
|---|---|---|
| ProvLink.tla | the provisioning state machine, link lifecycle on both bearers, ECC callbacks | MCProvLink.tla |
| GenProvRx.tla | the PB-ADV receive layer | MCGenProvRx.tla |
| ProvTransport.tla | the abstract delivery service GenProvRx implements (no code of its own) | through GenProvRx's `Transport` instance |
| GenProvTx.tla | the PB-ADV transmit layer and the advertiser queue | MCGenProvTx.tla |
| HciCmd.tla | the HCI command path of the host | MCHciCmd.tla |
| HciAdvScan.tla | advertising and scanning flags of the host against the controller | MCHciAdvScan.tla |

Each MC module EXTENDS its module and gives the constants that a .cfg cannot write (sets of strings and sequences). PROJECT.json `map` names the source lines of every definition that models code.

### ProvLink.tla: the provisioning state machine, link lifecycle and ECC callbacks

**State**

- `slink`:
  - `flags`, `expect`;
  - `conn`: whether a PB-GATT connection is up;
  - `rxBuf`: which buffer `slink.rx.buf` points at;
  - `dhkey`, `conf` and `confKey`, the derived keys;
  - `provSalt`.
- `ecc`: whether public-key generation is `busy`, whether the host `hasPubKey`, and `dhCb`, the pending DH callback.
- Ghost variables:
  - `epoch`: the number of links opened so far;
  - `pdus`: the PDUs received on the current link, bounded by MaxPdus;
  - `sent`: the PDUs the device sent since the current link was opened;
  - `commits`: the number of calls to `bt_mesh_provision`.

**Abstraction.** Cryptographic values are never computed. A key or salt is represented by the epoch (link) whose ECDH it came from, and 0 stands for zeroed memory. A peer Confirmation is recorded with the link it was received on and whether the peer knew the AuthValue. A peer PDU is a type (from `PeerTypes`), whether its length is right, and one argument that stands for the outcome of the handler's checks:

- the Start fields;
- whether a Random opens the Confirmation;
- whether Data decrypts.

**Actions**

- PB-ADV: `LinkOpen`, `LinkClose`, `TransactionTimeout`.
- PB-GATT (`Bearers` contains "gatt"):
  - `GattOpen` is `bt_mesh_pb_gatt_open`;
  - `GattRecv` is `bt_mesh_pb_gatt_recv` with its -EINVAL checks;
  - `GattClose` is `bt_mesh_pb_gatt_close`, whose `memset(&slink, 0, ...)` also clears `rx.buf`.
- `ZeroLinkId` lets PB-ADV frames with link id 0 reach a GATT link, because `slink.id` is 0 there.
- `ProvMsgRecv`: `prov_msg_recv` with every handler in `prov_handlers`.
- `PubKeyReady` (`le_pkey_complete`→`pub_key_ready`) and `DhKeyComplete` (`le_dhkey_complete`→`prov_dh_key_cb`).

`CloseLink` and `ResetLink` are helpers that follow `close_link` and `reset_link` exactly. `LocalFailures` lets `adv_buf_create` and the crypto helpers fail where the code tests for that.

### GenProvRx.tla: the PB-ADV generic provisioning receive layer

**State**

- `slink` = [`active`, `id`, `rx`]: LINK_ACTIVE, `slink.id`, and `slink.rx` as {id, prev_id, seg mask as a set, last_seg, len}.
- `pending_ack`.
- Two channels, both sets, so they reorder, and a frame is lost by `Lose`:
  - `net`: peer→device frames;
  - `devNet`: device→peer frames (acks, Link Ack, Link Close).
- The provisioner `peer`.
- Ghost variables:
  - `delivered`: the PDUs handed up in the current link_open session;
  - `everDelivered`;
  - `fmtCloses`: format-error closes;
  - `lastWrite`: the end offset of the last write into the reassembly buffer;
  - `allocFailed`: whether an `adv_buf_create` failed in the latest step.

**Device actions.** `DeviceRecv` covers `bt_mesh_pb_adv_recv` with its link filter, the require_link check, and `gen_prov_start`, `gen_prov_cont`, `link_open` and `link_close`. The others are `AckComplete` and `TransactionTimeout`. After a PDU is delivered, the state machine either keeps the link or calls `close_link` (UpperMayClose); which one is left open. That part is modelled in ProvLink.

**Provisioner (environment).**

- `PeerOpen`: link ids 1..MaxLinks, one after another.
- `PeerRetransmit` sends the frames of the current transaction. Those are the frames `prov_send_adv` builds, with `last_seg(len)`, or with any claimed last segment for a malformed peer (Honest = FALSE).
- `PeerRecv` and `PeerClose`.

Duplicates come from retransmission. A frame not yet received when the provisioner moves on is a late duplicate. `BoundedDelay` = TRUE assumes no frame outlives its transaction. Frames are never corrupted, because the advertising CRC drops those, so the FCS check always passes.

**The reassembly buffer.** With CONFIG_BT_MESH_PB_GATT = 1 (`yoc_config.h`), `rx_buf` is compiled out, and `reset_link` installs `bt_mesh_proxy_get_buf()`. proxy.c is not in this tree. The runs use RxBufSize = 68, the CLIENT_BUF_SIZE of the Zephyr proxy. The overflow below exists for any size under 158.

**Refinement.** ProvTransport.tla states what the receive layer promises `prov_msg_recv`:

- PDUs are handed up only while a link is open, and each is tagged with its link.
- Within one session, each transaction is handed up at most once, and in increasing transaction order.
- A session ends by close, possibly in the same step as a delivery.

GenProvRx defines `Transport == INSTANCE ProvTransport WITH session <- IF slink.active THEN slink.id ELSE 0, got <- delivered`. GenProvRx_pass checks `ImplementsTransport == Transport!Spec` as a PROPERTY. A step of the receive layer is then a step of the abstract service, or leaves its variables unchanged:

| Abstract step | Receive-layer step |
|---|---|
| `Open` | `link_open` |
| `Close` | `reset_link`, or `close_link` on a format error or a failed allocation |
| `Deliver` | `prov_msg_recv` at the end of a reassembly |

Everything else stutters.

### GenProvTx.tla: the PB-ADV generic provisioning transmit layer

**State**

- `dev`: LINK_ACTIVE, `slink.id`, `tx.id`, `tx.buf[3]` as a sequence of pool buffers, the retransmit work, the 30 s expiry, and the advertiser queue of buffers with their busy flags.
- `toDev`: the provisioner's Link Open, Link Close and acks in flight.
- `peer`: what the provisioner has received.
- Counters `sends` and `opens`, and `done`.

**Actions**

- `DeviceRecv`: `bt_mesh_pb_adv_recv` → `link_open`, `link_close`/`reset_link`, `gen_prov_ack`.
- `HandlerSend` (`prov_send_adv` → `send_reliable`) and `HandlerError` (`close_link`: Failed PDU, then Link Close through `bearer_ctl_send`).
- `Retransmit`: `prov_retransmit`, with the 30 s timeout, which calls `reset_link`.
- `AdvSend`: the advertising thread sends or drops the head of the queue, and `buf_sent` arms the retransmit work.
- `OtherAdv`: other layers take pool buffers.
- `Tick`: the 30 s timer.
- `PeerOpen`, `PeerRetransmitOpen`, `PeerClose`, `Lose`.

**The advertiser.** adv.c is not in this tree. Its queue, and the busy flag that `prov_clear_tx` clears to cancel a buffer, are modelled from the contract prov.c relies on. Those definitions are marked spec_modelled in PROJECT.json.

### HciCmd.tla: the HCI command path

**State**

- `free`: the buffers of `hci_cmd_pool`.
- `bufs`: for each buffer, its reference count and `struct cmd_data` {opcode, sync, status}, plus the Complete written into it.
- `queue`: `bt_dev.cmd_tx_queue`.
- `sentCmd`: `bt_dev.sent_cmd`.
- `sending`: a sender between the two halves of `send_cmd`.
- `ctl`: the commands the controller still has to answer.
- The synchronous callers' `pc`, buffer and `result`.

**Actions**

- `AsyncSend`: `bt_hci_cmd_create` + `bt_hci_cmd_send`.
- `SyncSend`: `bt_hci_cmd_send_sync` up to its loop. It keeps a second reference and sets `sync = SYNC_TX`.
- `ProcessEvents(t)`: `net_buf_get` on the FIFO, then the first half of `send_cmd`, which unrefs and clears `sent_cmd`. Callers (`t` a caller) and `TxThread` both take it: with `CONFIG_BT_RECV_IS_RX_THREAD`, a sync caller drains the queue itself.
- `SendCmd(t)`: `sent_cmd = net_buf_ref(buf)` and `bt_send`.
- `SendCmdFailed(t)`: with `SendFailures`, `bt_send` returns an error and `send_cmd` calls `hci_cmd_done(..., NULL)`. Reading `NULL->pool_id` is undefined, so `nullDeref` records one of two outcomes: the MCU faults (the model stops), or a foreign pool id makes `hci_cmd_done` return. Then both references are dropped and `sent_cmd` is cleared.
- `CmdComplete`: the controller's Complete or Status goes through `bt_buf_get_cmd_complete` (it takes `sent_cmd`), `hci_cmd_done` and the unref in `bt_recv_prio`.
- `CallerReturn`: the sync caller leaves its loop on SYNC_TX_DONE, or on the `HCI_CMD_TIMEOUT` expiry. The timeout is taken once no answer to the caller's command can still arrive. The caller then returns -EIO on a non-zero status, or 0 with the buffer as the response.

**Initial state.** The status field of a new command buffer is never written by `bt_hci_cmd_create`, so Init chooses it freely.

### HciAdvScan.tla: advertising and scanning

**Build.** `yoc_config.h` does not define CONFIG_BT_PRIVACY. The build must
define CONFIG_BT_USING_HCI_API: the `#else` branch of
`bt_le_adv_start_instant` uses a `buf` it never declares. So the commands go
through `hci_api_*`, which block like `bt_hci_cmd_send_sync`.

**Abstraction.** Every command blocks its caller. A thread step is the code
between two commands: it takes the status of the last command, updates
`bt_dev.flags`, and issues the next command. The controller executes a
command when it is issued, under the LE rules the code relies on (no Set
Advertising Parameters while advertising, and so on). Advertising data,
addresses and intervals are left out except where a check reads them
(`valid_adv_param`, `valid_le_scan_param`).

**State**

- `flags`: the five bits above.
- `ctl`: whether the controller advertises (and connectably), scans, and its links.
- `evq`: Connection Complete and Disconnection Complete events not yet handled.
- `pc`, `op`, `st`: each thread's step, call and last command status.
- `advStopped`: `bt_le_adv_stop` returned 0 and no start has been called since.

**Actions**

- `Call(a)`: an application call, up to its first command.
- The steps of `bt_le_adv_start` (`AdvSetData` .. `AdvEnabled`) and of `bt_le_adv_stop` (`AdvStopDisabled`, `AdvStopAddr`); `bt_le_adv_start_instant` runs the stop steps, then the start steps.
- `ScanStartDisabled`, `LeScanAddr`, `LeScanParam`, `LeScanEnabled`: `bt_le_scan_start` and `start_le_scan`.
- `ScanUpdateDisabled`: the disable in `bt_le_scan_update`, for any thread.
- `RxEvent`, `DisconnAdvEnabled`, `ConnAdvEnabled`: the RX thread's event handlers.
- `Connect`, `Disconnect`: a central connects to the connectable advertiser, or a link ends.

## Runs

| Run | Checks | Bounds | Result |
|---|---|---|---|
| ProvLink_pass | TypeOK, LocalKeyKept, CommitRequiresAuth, DeferredConfirmSent | 2 links on either bearer, 7 PDUs per link, all PDU types, local failures, link id 0 frames reach GATT | passes (41,451 states, 8 s) |
| ProvLink_SingleCommit | SingleCommit | 1 link, 12 PDUs | violated: `prov_data` sets `expect = 0` = PROV_INVITE (prov.c:1181); a second Invite provisions again |
| ProvLink_LateCallbackIsolated | LateCallbackIsolated | 2 links, 5 PDUs | violated: `pub_key_ready` sends a Public Key on a closed link because REMOTE_PUB_KEY survives `close_link`; the same stale state lets `prov_dh_key_cb` send a Confirmation from the previous link's key |
| ProvLink_LinkResourcesOwned | LinkResourcesOwned | 2 links on either bearer, 3 PDUs, no local failures or link id 0 traffic | violated: `bt_mesh_pb_gatt_close` zeroes `slink.rx.buf`, and nothing installs it again before the next `link_open` (prov.c:1693) |
| GenProvRx_pass | TypeOK, NoSpuriousClose, SegWriteInBounds, ImplementsTransport | 2 links, PDUs of 2 and 65 bytes (Invite, Public Key: 1 and 3 segments), honest peer, bounded delay, upper closes, local failures | passes (502,780 states, 28 s) |
| GenProvRx_live | AckedEventually | 1 link, same PDUs, local failures, FairSpec | passes (19,702 states, 17 s) |
| GenProvRx_AckImpliesDelivered | AckImpliesDelivered | 2 links, upper close | violated: `close_link` keeps `rx.prev_id`, so the next link's transaction 0 is acked and dropped (prov.c:1231) |
| GenProvRx_SegWriteInBounds | SegWriteInBounds | 1 link, malformed Start claiming up to 4 segments | violated: a Continuation is copied to offsets 66..88 of a 68-byte buffer (prov.c:1463) |
| GenProvTx_pass | TypeOK, TxXactInDeviceRange, AckedImpliesReceived, NoStall | 1 link, pool of 3, PDUs of 1 and 3 segments, 2 sends, lossy radio, other traffic, `tx.id` from 0 and from 254 | passes (223,362 states, 1 min 43 s) |
| GenProvTx_FailedBeforeClose | FailedBeforeClose | 1 link, 1 send, no loss or other traffic | violated: `close_link`'s Failed PDU is canceled by the Link Close that `bearer_ctl_send` queues right after it (prov.c:1232) |
| HciCmd_CmdPathSound | CmdPathSound | 2 sync callers, 1 async command, 2 command buffers (the default CONFIG_BT_HCI_CMD_COUNT), bt_send may fail | violated: a failed `bt_send` makes `send_cmd` call `hci_cmd_done(..., NULL)` (hci_core.c:2160); the same property is also broken by the `sent_cmd` reference leak (:2154) and by a sync caller returning another command's Complete (:2148) |
| HciAdvScan_HostTracksController | HostTracksController | 1 application thread, 4 calls, 1 link, 2 connection events, no local failures | violated: `le_enh_conn_complete` clears ADVERTISING before the waiting `bt_le_adv_start` sets it, so the idle host believes it advertises (hci_core.c:915); also broken by `bt_le_adv_stop` racing `hci_disconn_complete` (:707) and by a doubled Scan Disable (:1969) |

Each property of each passing run has a mutant in PROJECT.json: a plausible bug in a mapped definition that makes TLC report the property violated. For `ImplementsTransport` the mutant drops the `prev_id` resend check of `gen_prov_start`, and the refinement fails at once.

**What the violations show.**

- **ProvLink.** The state machine and link lifecycle carry flags and keys across links, so late ECC callbacks act on a closed or newer link (LateCallbackIsolated), and PB-GATT close leaves no reassembly buffer for the next PB-ADV link (LinkResourcesOwned).
- **GenProvRx.** A device-side close blocks the next link's first transaction (AckImpliesDelivered). A malformed Start writes out of bounds (SegWriteInBounds).
- **GenProvTx.** The device cancels its own error report (FailedBeforeClose).
- **HciCmd.** `send_cmd` has no flow control and no lock around `bt_dev.sent_cmd`. TLC's trace is the shortest break of CmdPathSound: a driver error makes `send_cmd` call `hci_cmd_done(..., NULL)`, which reads `NULL->pool_id` (hci_core.c:1840). With `bt_send` always succeeding, the property is still broken twice. (1) Two senders both clear `sent_cmd` before either sets it, so the second `net_buf_ref` overwrites the first and that buffer never returns to the pool (RefsHeld). (2) The next command is sent while `sent_cmd` is still waiting for its Complete, so a Complete lands in the wrong buffer, and a caller that times out returns its never-written status with its own command bytes (SyncResultOwn).

  Who can reach these in this build: with CONFIG_BT_USING_HCI_API and SMP off, the only users of the command path are `bt_pub_key_gen` and `bt_dh_key_gen` (asynchronous) and `set_public_address` (synchronous). The NULL dereference needs just one command and a driver error, and the stale-status timeout needs just one synchronous caller. The leak and the misrouted Complete need two concurrent synchronous callers, and no code in this tree creates them. They are defects of the exported `bt_hci_cmd_send_sync`, reachable only by a caller added later.

- **HciAdvScan.** The flags are updated only after a blocking command returns, and the RX thread updates them too. TLC's trace: `le_enh_conn_complete` clears ADVERTISING before the waiting `bt_le_adv_start` sets it, so with every thread idle the host believes it advertises and later starts return -EALREADY. The same property, HostTracksController, also breaks in two other ways. A stop racing the disconnect handler's re-enable returns 0 while advertising goes on. And `bt_le_scan_stop` and the connection handler's `bt_le_scan_update` both send Scan Disable, so a scan started between them is left running with SCANNING clear. None of these needs a failed command.

**Assumptions these results rest on.**

- prov.c calls `bt_mesh_pub_key_gen` and `bt_mesh_dh_key_gen`, which are not in this tree. ProvLink assumes they forward to `bt_pub_key_gen` and `bt_dh_key_gen` of hci_core.c, so there is one pending DH callback and its completion runs in the HCI event context.
- `yoc_config.h` does not define CONFIG_BT_MESH_PB_ADV. The PB-ADV models (GenProvRx, GenProvTx, the PB-ADV parts of ProvLink) describe the build that enables it, as the Genie provisioning flow does.
- `ImplementsTransport` constrains only what reaches `prov_msg_recv` (the session and the order of delivery). It does not catch two receive-side hazards. Redelivery of a late duplicate (prov.c:1495) never happens under BoundedDelay. A silent 30 s reset followed by a delayed Link Open of the same id (prov.c:1257) is a legal Close then Open of the abstract transport.

**Found by reading, with no run of its own.**

- `prov_start` sends Failed when `prov_auth` fails but keeps `expect = PROV_PUB_KEY` (prov.c:797). ProvLink models that path, but no run checks it, because the bug is reachable by a unit test.
- With unbounded delay, a late duplicate of transaction n-1 that arrives after transaction n is delivered again. `gen_prov_start` remembers only `rx.prev_id` (prov.c:1495). The runs assume BoundedDelay, and the hazard list records this limit.

**Bounds.** They are big enough for the interesting cases to happen:

- **Two links.** This is the least that can show state carried from one link into the next.
- **7 PDUs per link.** This covers the full Invite..Data run plus a stray PDU.
- **65-byte PDU.** It uses three segments, and its last Continuation ends exactly at the last byte of the PDU, so length checks are tested at their boundary.
- **`tx.id` from 254.** This puts the 0xFF→0x80 wrap inside the run.
- **A pool of 3 with other traffic.** A 3-segment PDU can find the pool exhausted.
- **HCI.** Two callers and one async command on two buffers make the pool, the queue and `sent_cmd` all contended.
- **HciAdvScan.** One thread, four calls and one link. That is enough for adv_start, connect, disconnect and adv_stop, and for adv_start, scan_start, scan_stop and scan_start around a connection. Local failures are off, so no violation rests on a failed command.
- **GenProvRx_live at one link.** Two links with fairness do not finish in 5 minutes. One link still covers `pending_ack` suppression, lost acks and local allocation failures.

## Fairness

- **ProvLink.** Weak fairness of `PubKeyReady` and `DhKeyComplete` only. The controller answers every ECC command it has accepted, and that is what lets `prov_confirm` defer the Confirmation at all. The peer, the radio and the timers are not assumed to do anything.
- **GenProvTx.**
  - Weak fairness of `AdvSend`: the advertising thread drains its queue.
  - Weak fairness of `Retransmit` and `Tick`: the kernel runs delayed work and timers.
  - The radio and the provisioner are not fair.
- **GenProvRx_live.** These are the fair-lossy channel assumptions of the protocol:
  - weak fairness of `PeerRetransmit`: the provisioner keeps retransmitting a transaction until it is acked;
  - strong fairness of the provisioner receiving an ack of its current transaction;
  - weak fairness of `AckComplete`: the advertiser calls the ack's end callback;
  - a frame sent infinitely often is received infinitely often.
  - The device's receive step is strongly fair, for each position of the frame in its transaction, but only for steps in which no `adv_buf_create` failed (`~allocFailed'`).
  - This is justified because allocation fails only while the advertiser holds every buffer, and the advertiser frees them.
  - Without that restriction, a local failure that repeats forever would be "fair", and `AckedEventually` would fail for a reason the code does not have.

Every run sets CHECK_DEADLOCK FALSE. The device is reactive: once the peer has used up its bounded links or PDUs, nothing can happen, and the device waits idle. In HciCmd, the host stops once every command has returned. In HciAdvScan, the threads stop once their calls are made.

## Not modelled

- **Cryptography.** These are black boxes, and a non-goal of the spec.
- **The OOB input/output paths.** They are compiled out with `#if 0`.
- **The genie event dispatcher** (`genie_event.c`). It is a switch whose handlers call `genie_provision_*` (the UNPROV/START/SUCCESS state and the PB-ADV and provisioning timers), `genie_reset_*`, `genie_storage_*` and aos timers. None of these is in this tree and spec.md does not describe them, so the state it changes cannot be translated from source.
- **The low-power manager and CLI** in `genie_service/`. They react to provisioning events but change nothing that prov.c reads.
- **The mesh shell and `tools/cli`.** They are I/O.
- **The application models and platform drivers.**
- **hci_core.c beyond the ECC calls, the command path and advertising/scanning.** Connection setup (`bt_conn_create_le` has no caller in this tree, so no connection waits in CONNECT_SCAN), the white list, the init sequence and the remaining event handlers are left out. They are mostly table-driven code.
- **adv.c and proxy.c** are not in this tree. Their contracts are modelled where prov.c depends on them.

These parts are most of the repository's lines, so the map covers a small share of them. What is mapped is the provisioning protocol and the HCI command path, which is where the concurrency, retransmission and lifecycle hazards are.

## Plan

1. **ProvAbstract.** An abstract provisioning session (Idle, InProgress, Committed, Failed). ProvLink is to be shown to refine it through INSTANCE with a mapping from `expect` and the flags. SingleCommit says the refinement fails today.
2. **A composed model.** Couple GenProvRx delivery to ProvLink's `ProvMsgRecv`, so that the upper close is what the handlers do, not a free choice.
3. **Unbounded delay** for GenProvRx under a state constraint, to show the late-duplicate redelivery as a run.
