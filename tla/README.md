# semantos-edge in TLA+

Specifications of the stateful parts of this repository, their TLC
configurations, and machine-checked proofs about the core. Paths below are
relative to the repository root.

## 1. The system

| Part | State it keeps | Operations | Talks to |
|---|---|---|---|
| Temperature logger node (`components/cell-mesh-zig/src/cell_templog.zig`, `examples/temp_logger/main`) | flash ring of 16-byte records; NVS keys `boot`, `log_id`, `acked`, `epochs`; window in RAM; send schedule | sample, append, recover at boot, build a batch, take an ack, back off | gateway, by radio |
| Gateway (`examples/temp_logger/main/main.c`) | a receive queue of four | batch to a `TL` line, `AK` line to an ack cell | node by radio, bridge by serial line |
| Templog bridge (`tools/templog-bridge`) | per log `through` and the seqs held; a JSONL journal; POSTs in flight | read a line, ingest, rebuild, ack, POST, replay; a synthetic node | gateway, an HTTP sink |
| Cell frames (`cell_frame.zig`) | six reassembly slots | push a fragment, evict, time out | every receiver |
| Ring and rules (`cell_ring.zig`, `cell_rules.zig`) | time-stamped ring, eight rules | push, count, evaluate | mesh_demo |
| Channel and meter (`cell_channel.zig`, `cell_meter.zig`) | seq, share, capacity, expiry | open, commit, close, tick | mesh_demo, x402 bridge |
| Capability table (`cell_capability.zig`) | four certificates | install, renew, look up | forwarding, mesh_demo |
| Forwarding (`cell_forward*.zig`) | channel binding, burst slots | locate, admit, relay | channel, capability |
| MNCA (`cell_mnca.zig`, `tools/x402-bridge/mnca-oracle.ts`) | a tile, windows of votes | step, vote, agree, time out; check and sign | mesh_demo |
| C glue (`components/cell-mesh/src`), engine host (`components/semantos/src`) | radio and signature contexts; a WASM kernel | I/O | all firmware |
| mesh_demo (`examples/mesh_demo/main/main.c`) | single-slot mailboxes between the Wi-Fi task and the main loop, device state | all of the above on a board | mesh, serial |
| x402 bridge (`tools/x402-bridge/bridge.ts`, `serial-mesh.ts`, `meter.ts`, `web/`) | a payment queue, used txids, a channel meter file; a page with one saved ticket | quote, verify, settle, queue, light, meter | wallets, chain, mesh by serial |
| Mesh control (`mesh-control.ts`, `channel-anchor.ts`) | the current channel, counters, books, certificate hashes; views of the boards | forward, certify, open, settle, pay, anchor, /authz | operators, wallet, chain, mesh |
| Gated spend (`onchain-gated-spend.ts`) | one funded output, in memory and on file | fund, spend, wait for the verdict, settle | wallet, chain, board |
| Fleet (`tools/fleet`, `tools/fleet-zig`) | derivation positions over an SDK, zones, units, certificates, a recipe | derive, add, retire, renew, rebuild, check on the bench | SDK, boards |
| Observer (`tools/mesh-observer`) | channel and telemetry windows of each board | read a line, show | browsers |

What is hard in it:

* **Crashes and restarts.** The node may lose power between any two flash or
  NVS operations and in the middle of an erase or a write; the bridge may die
  inside a journal write. Both rebuild what they believed from what is left. The
  other programs lose everything that is not on file and go on talking to boards
  that did not restart, and the other way round.
* **An unreliable path.** Batches, acks, cells and log lines are lost, doubled,
  damaged and overtaken, and outlive a reboot of either side.
* **Failures that are only logged.** Every NVS and flash call may fail, a POST
  may, and the code goes on.
* **Limits.** The ring laps; queues of four, tables of four, six and eight
  slots; sequence numbers that stop at 2^32 - 1.
* **Awaits and mailboxes.** In the host programs and in mesh_demo a value is
  checked, then something else runs, then it is used; a time-out gives up on
  what it does not stop; single slots are overwritten or full.

What makes each part correct: for the temperature logger, that no reading is
lost without a trace: the node may forget or stop sending only what the bridge
holds or knows to be lost, and what the bridge holds is what was measured, where
and when. For the channel and the meters, that a payer's commitment never goes
back and is never claimed twice. For the payments, that one payment buys one
light, that the payer is told the truth about it, and that nobody waits for ever.
For the control plane, that what boards were promised is in the books, that what
it sends is taken, and that every request is answered. For the capability table,
that a live grant stays. For the quorum, that what settles is right. For the
gated spend, that only what the engine accepted is released, and no money is
forgotten. For the fleet, that a retired position stays retired and the recipe
rebuilds what it lists. For the views, that they are behind the boards and not
wrong. `PROJECT.json` lists every component with its status and every hazard at
its line with the properties that would catch it.

## 2. Modules

| Module | Models | Notes |
|---|---|---|
| `TempLogNode` | the reading log of a node: `cell_templog.zig`, `tlog_store.c`, and `take_sample`, `send_batch`, `handle_ack` of `main.c` | no recursion; proved about |
| `TempLogStore` | the bridge's store: `planBatch`, `ingest`, `rebuild`, the file journal | proved about |
| `TempLog` | node, path and bridge composed | EXTENDS the node, INSTANCEs the store; proved about |
| `StoreAndForward` | what the logger promises | `TempLog` implements it |
| `TempLogBridge` | lines, port, POSTs, server and replay around the store | EXTENDS `TempLogStore`; proved about |
| `TempLogSim` | the synthetic node of `--sim`, and where readings are placed in time | EXTENDS `TempLogStore`; proved about |
| `CellChannel` | the payment channel of a board, as operators: `cell_channel.zig` | shared by the modules that have a board |
| `MeteredLamp` | a board that sells light: channel, `cell_meter.zig`, the Wi-Fi task and main loop of `mesh_demo/main/main.c` | EXTENDS `CellChannel`; proved about |
| `ChannelMeter` | the bridge's books (`x402-bridge/meter.ts`) and the boards they are about | EXTENDS `CellChannel`; proved about |
| `MeteredPayments` | the purchases over those books: `actuateMetered`, `withTimeout` | proved about |
| `PaidLight` | a payment's way to a light: `bridge.ts`, `serial-mesh.ts`, the injector and the lamp board of `mesh_demo` | proved about |
| `PhoneLight` | phones and agents at the bridge: `web/light-client.ts`, `light.ts`, `onchain-payment.ts` | EXTENDS `PaidLight`, whose specification it implements; proved about |
| `CapabilityTable` | the grants of a board, as operators: `cell_capability.zig` | shared by the next two |
| `Fleet` | the identity control plane: `fleet.ts`, `plexus-deriver.ts`, `provision.ts` | proved about, with the next |
| `FleetBench` | the fleet with a board on the bench: `hardware.ts` | EXTENDS `Fleet`, INSTANCEs the table |
| `CellFrames` | cells on the air and their reassembly: `cell_frame.zig`, `cell_radio.c`, the receive queue | proved about |
| `CellPath` | what the other models take the radio for: a path of whole cells | `CellFrames` implements it |
| `ForwardRelay` | forwards along a route: `cell_forward_admit.zig`, the mailboxes and drains of `mesh_demo` | proved about |
| `BoardRules` | ring and rules of a board: `cell_ring.zig`, `cell_rules.zig`, the ways a rule comes in | proved about |
| `MeshControl` | `mesh-control.ts`, `channel-anchor.ts`, the injector and a relay board | INSTANCEs the table and the channel; proved about |
| `BoardViews` | what `mesh-control.ts` and `mesh-observer` know of a board from its log | INSTANCEs the channel; proved about |
| `Mnca` | the shared automaton, the quorum, the oracle's step | proved about |
| `GatedSpend` | `onchain-gated-spend.ts` with the network and the board's verdicts | proved about |
| `...Proofs` | theorems, with their proofs | `LampAndBooksProofs` is about `MeteredLamp` and `ChannelMeter`, `BoardAndLightProofs` about `PaidLight`, `PhoneLight`, `CellFrames` and `BoardRules`, `BenchAndForwardsProofs` about `FleetBench` and `ForwardRelay`, `DemosProofs` about `GatedSpend`, `Mnca`, `MeteredPayments` and `BoardViews`, `TempLogProofs` about `TempLogNode` and `TempLog`, `TempLogBridgeProofs` about `TempLogBridge` and `TempLogSim`, the others about the module they are named after |
| `MC...` | small instances for TLC | `MCNodeAndBridge` and `MCLampAndBooks` hold two programs, `MCBenchAndCells` and `MCDemos` four each: they share no variable, and a behaviour runs one of them |

### TempLogNode

`flash` is the data partition: each slot is erased, torn (anything the CRC
rejects) or a record. Within one log a seq can only be given out twice by two
different boots, so a record is (seq, boot). `nvs` holds the keys `boot`, `log`
and `acked`; `ram` is the part of `cm_tlog_t` and `tlog_store_t` that lives
between calls; `drawn` and `issued` are bookkeeping of the model (how many log
ids were drawn, and the highest seq an append returned in this log), and
`failed` remembers that a flash call returned an error.

| Action | Code |
|---|---|
| `TakeSample` | `tlog_store_append`: reserve, erase if the seq opens a sector, write |
| `AppendFails` | the same when one of the two calls named in `FlashFaults` returns an error; a write may leave the slot as it was or half programmed |
| `HandleAck(a)` | `handle_ack`, `tlog_store_set_acked`: the pointer is set, clamped, and saved if it changed |
| `Boot` | `tlog_store_init`: boot id, recovery, a fresh log if nothing decodes, burning of half-written slots |
| `PowerCut`, `PowerCutInAppend`, `PowerCutInBoot` | the power goes at rest, inside the erase or the write, between two NVS writes |
| `Wipe` | the data partition is erased while NVS survives (a reflash), the case the comment at `tlog_store.c:87` names |

The partial erase leaves each slot of the sector old, erased or torn, slot by
slot. A record in flash survives a failed call. A transient read error (a slot
that reads back badly once) is not modelled.

### TempLogStore

`lines` is the journal as its readable whole lines, in order; `tail` is what
stands behind the last newline: nothing, a fragment, or a whole record without
its newline. `logs` is `TempLogStore.logs`; `promised` remembers the highest ack
returned. `Ingest` is `ingest` where everything is written, `IngestFails` where
`writeSync` stops part-way and throws, `CrashInIngest` where the process dies at
any byte, `Open` the start-up. A sample's payload is one abstract value.

### TempLog

`toHost` and `toNode` are sets of messages; `MaxInFlight` bounds them. A message
may be lost or delivered twice when `PathFaults` says so, and delivery is in any
order. Flash calls do not fail here. `taken` is the history of readings. A bridge
step stores a batch and puts its ack on the path in one action, as `handleLine` and `pump` do with no await
between them; the crash between the two is `CrashInIngest` with everything
written.

### MeteredLamp

`channel`, `base`, `meter` and `led` are `s_channel`, `s_channel_base_ms`,
`s_meter` and the LED; `served` is the light given in this channel and `ticks`
the number of times the loop's tick has billed some. The board has one core and the Wi-Fi task preempts the main loop, so a handler is one step
while a pass of the loop is several, and `loop` holds the locals it carries from
one to the next.

| Action | Code |
|---|---|
| `RxOpen`, `RxCommitment`, `RxClose` | the branches of `on_radio_recv`, with the time `at` which the handler took before it checked the signature |
| `LoopLooks` | the state test at the head of the channel work |
| `LoopTicksExpiry`, `LoopStopsMeter` | `cm_channel_tick_expiry`, and `cm_meter_stop` if it expired the channel |
| `LoopDrains` | `cm_meter_tick`, `cm_meter_authorized` |
| `LoopDrives` | the LED, from the channel as it is now and the authorization as it was |
| `Tick`, `Reboot` | the clock; everything is in RAM |

Cells carry any ids, seqs, shares and expiries. The two other reasons for which
the firmware lights the LED, a fixed-price activation and a blink, are products
of their own and left out.

### ChannelMeter

`books` is `ChannelMeter.state`, `disk` the state file, `boards` the channel each
board is in. `job` is the `start()` or the `addSats()` under way and `job.at` the
await it stands at: each broadcast is one step, in which any subset of the boards
hears the cell and the injector's line is seen or not. `tail` counts the copies
of the last commitment that are sent after the answer. `listening` and `copies`
are history: the boards that could follow the change of channel under way and
heard at least one copy of each of its cells so far.

| Action | Code |
|---|---|
| `Start` | the constructor's `load`, then `start()` |
| `Resync`, `Close`, `Renew`, `Open` | `newSession` and `sendOpen`: the last commitment, the copies of the close, the new id and its save, the copies of the open |
| `AddSats`, `GoesDark`, `StillLit` | `addSats` up to the decision whether the channel goes on |
| `Commit`, `Record` | the commitment's broadcast; the books, the state file and the answer |
| `RepeatCommitment` | the background copies, which `flush` waits for |
| `Throws`, `Crash` | the serial port fails; the process dies at one of `CrashPoints` |
| `BoardReboots` | a board's channel is zeroed |

### PaidLight

The bridge without a meter. It is single-threaded, so what lies between two
awaits is one step; a payment is its txid. `tickets`, `pending` and `used` are
the fields of `X402CellBridge`. `tail` is the promise chain: the activations
linked onto it that have not begun. `job` is the one that has, with the await it
stands at (`sending` its copies, `waiting` for the ack, `holding` the light) and
the copies left. `settling` counts the requests that await ARCADE, `chain` what
the network has. `ackSeen` is the comparison `lastAckAt >= broadcastAt`, the only
thing the two times are used for. `demoCell` and `mailbox` are the one-cell
buffers of the injector and the lamp board. `lights`, `lits` and `stalled` are
history.

| Action | Code |
|---|---|
| `Activate` | `activate` from the claim to its first await, or to the queue if the bridge does not broadcast |
| `ChainTakes`, `SettleOk`, `SettleFails` | the network, and the two ends of `broadcastTxHex`; the answer may be lost after the network took the payment |
| `StartNext` | `tail.then(actuate)`, the start of `broadcast` |
| `SendCopy` | one of the three copies: `inject_process_line` drops it, stages it, or sends it |
| `WriteStalls` | `writeSync` blocks the process for seconds |
| `AwaitSees`, `AwaitExpires`, `SendThrows`, `QueueTimeout` | the four ends of an activation |
| `SendStray` | `withTimeout` does not stop what it gave up: the rest of the copies |
| `HoldEnds` | the hold after an ack, then `done` |
| `BroadcastDemoCell` | the staged cell goes out and is heard or not; a full mailbox drops it |
| `DrainPendingActuator`, `ReadAckLine` | the lamp board acts and logs; the bridge reads the line, or it is garbled |
| `Restart` | a new process; everything it knew was in memory |

Time is left out: any await may end early. Two guards stand for times that
matter. The staged cell waits 1.8 s after the last copy and copies are 0.4 s
apart, so it does not go out while its activation is sending, unless a write was
held up. An activation has ten seconds more than its ack wait, so `QueueTimeout`
needs a held-up write too. One that is held up in another way (a promise that
never settles) does not exist in `serial-mesh.ts`. An ack line that is read in
the very millisecond in which the next broadcast begins is taken as read before
it; with a hold of more than a millisecond the case does not arise.

### PhoneLight

`PaidLight` with those who pay. `page` is where `go()` and `poll()` of a page
are, `saved` the ticket in its localStorage, `signed` the payments whose signed
transaction exists.

| Action | Code |
|---|---|
| `Tap`, `WalletSigns`, `WalletFails` | `go()` up to the wallet's answer, which may come after the page gave up |
| `Post`, `Accepted`, `Rejected` | the request, what `Brc29OnchainVerifier.verify` says of it, and the answer, which may be lost |
| `PollEnds`, `Close`, `Open` | `poll()`, and a page that is closed and picks its ticket up again |
| `Resubmit` | an agent's payment, or a signed one posted by anybody |
| `MeshStep` | everything else in `PaidLight` |

### MeteredPayments

The purchases of the metered bridge, which `withTimeout` may give up while their
`addSats` runs on. `calls` says at which await each `addSats` stands and which
commitment it broadcast; `ledger` is `ChannelMeter.state`. `Serve`, `Flushed`,
`Renew`, `Commit`, `Record` and `GivesUp` are the pieces of `addSats` between
awaits. Boards, cells, file and crashes are `ChannelMeter`'s, for one `addSats`
at a time.

### TempLogBridge

The bridge between the port and the server. A line may have other text before
it, be cut, damaged, no batch, another node's, damaged before its CRC or too
short for its count; `IsTaken` is every test that stands between it and
`Ingest`. `inflight` are the POSTs under way, which end with an answer, without
one though the server took them, or not at all (`PostEnds`); `PortCloses` and
`PortReopens` are `runSerial`, `Dies` a crash between lines or inside `ingest`,
`ReplayStarts` and `ReplayPosts` are `runReplay`. The server is not in the
repository and keeps the first value of each seq, as `replay.ts` says of it.

### TempLogSim

`SimNode` and `SimWorld` over the store: `Take`, `Burn` (a half-written slot),
`Reboot`, `Send`, `BridgeHandlesLine`, `GatewayToNode`, `ForeignAck` (the ack of another
gateway's bridge), `Loses`, `Delay`. The value of a stored sample is where
`anchorOf` placed it: by the time of receipt if it is of the running boot, by the
start of its boot if the node knows that, and nowhere otherwise. `truth` is when
it was taken.

### Fleet, CapabilityTable and FleetBench

A node of the fleet is its derivation path, and keys and ids are functions of it.
The SDK is outside the repository: `next` is the index it gives out for a slot,
which it keeps in a database or in memory. A call of the deriver is `pending`
between the SDK's step and the mirror of it in `nodes` and `ceilings`; any
number of calls may be. `AddZone`, `AddDevice`, `Decommission` and `IssueCert`
are the methods of `fleet.ts`, `Restart` and `Readd` the next session and the
rebuild of `provision.ts`, `DeriveFails` a write that the SDK's database refuses.

`CapabilityTable` is `cm_cap_install` and `cm_cap_lookup` as operators on a
function from slots to certificates. `FleetBench` puts a board with such a table
on the bench: `BenchStarts`, `Inject`, `AwaitBegins`, `AwaitReads` and
`AwaitTimesOut` are the three steps of `hardware.ts` (as issued, damaged, signed
with the demo key), `BroadcastStaged` is the injecting board, `RebootUnit` the
watched one. Its firmware trusts the operator's key alone, the demo key too, or anything.

### CellFrames and CellPath

`frames` are the fragments on the air, `slots` the reassembly table, `rxQueue`
the queue between the radio's callback and the main loop, `arrived` what the loop
took. A cell is a function from its parts to the transmission each was cut from,
so a mixed or a zero-filled cell is a value of its own. `openings` is history:
each assembly begun, when, and which of its parts were heard. `SendCell` is
`cm_radio_send_cell`, which stops at the first frame that is refused; `Hear` is
the callback with `cm_reasm_push` (the sweep, the slot that matches, or a vacant
or the oldest one); `TakeCell` and `MsPasses` are the loop and the clock. A frame
that is never heard is lost. `CellPath` says what the modules above the radio
assume: whole cells, sent before, in any order, and twice only if the radio
doubles frames.

### ForwardRelay

The boards of a route between the Wi-Fi task, where a handler is one step, and
the main loop, where a drain is five. `links` are the cells on the air,
`burst` the Cell A a board holds, `mail` its mailboxes, `drain` where its loop
is, `chanSeq` the seq of its channel, `admitted` the history of what it took.
A cell carries the flows of its first and its last bytes, since a mailbox may be
filled again while it is copied. `calm` chooses between a radio that keeps order
and one that loses, doubles and overtakes.

| Action | Code |
|---|---|
| `Begin`, `InjectCell` | the bridge's next forward; its cells, once or twice, from the port's board |
| `HearCell` | `on_radio_recv`: `cm_forward_locate`, `cm_forward_v0_admit`, `cm_forward_v1_admit`; Cell A is kept; Cell B is compared with it and goes through `cm_forward_v2_admit` and `cm_admit_consumes_burst_slot` |
| `Clear`, `Choose`, `CopyHead`, `Transmit` | `drain_pending_forward*`: the flag is taken down, the phase is read, the cell is copied and given to the radio, which takes it, is full, or fails |
| `AfterSend` | Cell A again or Cell B next; Cell B three times |

What a drain does after the radio's answer is one step. The ticks it skips are
time and left out, and so is what the verbs do on a board.

### BoardRules

`ring` is the ring of `cell_ring.zig`, `rules` the table, `fwdRule` the mailbox
of a rule that came with a forward, `install` where the main loop is in an
install, `heard` and `reported` history. `broken` remembers that the Wi-Fi task
touched what an install of the main loop was working on.

| Action | Code |
|---|---|
| `HearPlain` | a cell: `cm_ring_push`, `cm_rules_evaluate`, with `cm_ring_count_recent` |
| `HearRule` | a rule cell: unless an equal one is held, `cm_rules_install`, in the Wi-Fi task |
| `HearInstall`, `DrainInstall`, `DecodeTrigger`, `DecodeEffect` | a forward that brings a rule: the mailbox, marked empty before it is decoded |
| `HotSwap` | `broadcast_hot_swap_rule`, which the configuration with `DEMO_SCRIPT_ONLY` leaves out |
| `ChooseEntry`, `CopyTrigger`, `CopyEffect` | `cm_rules_install` in the main loop, byte by byte |
| `DrainEmit`, `StampGrows` | the emit that a rule asked for; the clock |

### MeshControl

`reqs` holds each HTTP request with the await it stands at and what it read
before it; `line` is `injectChain`, the queue for the one serial port; `stage` is
the single cell the injector holds; `board` the certificates, the channel and the
half burst of a relay board. `calm` is true while one request at a time uses one
version of the forward and nothing was lost.

| Action | Code |
|---|---|
| `Start` | a route up to its first await, by kind: `v0`, `v1`, `v2`, `bad` (key) forwards, `cert`, `open`, `plain` (`/inject` and the like), `pay`, `scada` |
| `CertInjected`, `CertSettled` | `injectCapabilityCert` and the pause after it; then the forward, on what it read before |
| `ForwardInjected`, `GapOver` | the forward, or the two cells of a burst; its booking and, past the threshold, the settlement |
| `SettleReturns`, `EvidenceInjected` | `settleActiveChannel` after its await, and the copies of the evidence |
| `FundingReturns`, `FundingFails` | `openChannel` |
| `WalletReturns`, `AnchorReturns` | the wallet's part of `/pay-actuate`, `/interlock` and the event log |
| `InjectionFails` | the port cannot be opened; the next in the queue goes on |
| `Broadcast` | the injector sends what it holds; the board verifies, pairs, adopts the channel and commits |
| `BoardReboots`, `ProcessRestarts` | everything in RAM is gone |

### BoardViews

A board prints a line for what happens to it; a `cat` reads them while the port
is there, and `control` (`trackDevice`, `/authz`) or `observer` (`parseLine`,
`applyEvent`, `StreamStats`) is what the program makes of them. A reset may take
the port with it. `air` is the speeder whose poses the board forwards or misses.
Which lines the observer takes follows from the values the board prints
(`Printed`) and those its patterns ask for (`Wanted`): a pattern starts at the head
of a line and wants each value right after the other, and what follows the last is
not looked at (`IsEvent`). The lines `mesh-control.ts` reads are those of the
forwards' checks and of the certificates, which its patterns match.

### Mnca

`MncaStep` is the rule on a tile, `StepTile` the oracle's own version of it,
`Update` is `cm_mnca_quorum_update`. A tick is two steps, since the radio's task
may come in between (`Preempts`): `Tick` computes and chooses the slot,
`Broadcast` votes and sends. `Faulty` boards may broadcast something else.

### GatedSpend

Each typed command is a process of its own, since the program does not await
them; `commands` says where each stands. `pendingVerdict` is the one wait there
is, `timers` the timers of all of them. `NetworkFunds` and `NetworkSpends` are the
chain, ahead of the answers `Funded` and `Settled`; `Resumes` is the next start
from `STATE_FILE`.

### Faulty variants

Definitions whose comment starts with "Faulty variant" are not part of a
specification. Each is a plausible bug in the definition after it;
`PROJECT.json` ("mutants") names the property that must notice when the variant
takes the definition's place.

## 3. Runs

| Run | Question | Bounds and result |
|---|---|---|
| `node_and_bridge` | the node: is the log consistent through power cuts anywhere, failing NVS and flash writes, arbitrary acks and wipes? The bridge: does the journal rebuild the memory, is the ack point earned and durable, does nothing damaged get in, and does the server follow the file and catch up by a replay? | two programs, each by itself: two sectors of two slots, seqs to 7 (nearly two laps), three boots, two logs; one log, seqs to 3, two values, batches and bodies of up to two, four lines, two POSTs, crashes at any byte; holds, the promises about seqs and the newest reading until a flash call fails |
| `journal_write_fault` | the same when a write fails and the process lives on | violated: the next record is glued to the torn one |
| `templog_sim` | is a reading placed near the moment it was taken, and does sending come to an end? | ring of two, seqs to 4, three boots, a delay of one second, one loss or foreign ack; holds |
| `end_to_end` | is what the node counts as delivered accounted for, and is what is held true, also of a log that comes after a wipe? | two sectors of two slots, seqs to 5 (one sector lapped), two boots, two logs, one message each way, lost or doubled; holds |
| `eventually_accounted` | the same with two messages each way in any order; does it implement `StoreAndForward`, and is every reading in the end accounted for? | one slot per sector, seqs to 3, messages lost at will; holds |
| `lamp_and_books` | a board: does the meter follow the channel and the light the money, whatever arrives while the loop is in the middle of its pass? The books: do boards that miss cells and reboot follow them, through changes of channel and restarts of the bridge? | two ids, seqs to 2, one sat, six milliseconds, an expiry inside and one at the end of them, a rate with a remainder; two boards, two copies of each cell, three channels of two commitments; holds |
| `phone_light` | does one payment buy one light, is every payer told the truth, and does every page that polls come to an end? | one phone and two agents (one pays too little), two copies, one restart; the bridge settles, the injector holds cells back; holds |
| `bench_and_cells` | do retired positions stay retired, does the recipe cover its nodes, does a live grant stay in the table, and what does a clean run on the bench mean? Are frames a path of whole cells; is no hop left out and none paid twice; do rules stay and does a quorum count what was heard? | one unit, one zone of two positions, a table of two, one restart, with and without a database; two senders, three transmissions of two frames, two slots; two forwards of any version over two hops; two rules beside the demo's three, a ring of two; holds |
| `burst_slot` | is the burst slot released only by the partner of the Cell A it holds? | violated: a late Cell B of another flow releases it |
| `mesh_control` | are forwards taken, are the boards' promises booked, is every request answered? | two requests at once of all nine kinds, one channel, two seqs, two certificates, one restart or reboot; holds |
| `demos_and_views` | do the views catch up with the boards; is what settles right; is what is released validated and money kept; is the tally exact? | four programs that share nothing, each by itself: four lines, two commitments, three poses; three boards, one faulty, two slots, a time-to-live of two; two outputs, three commands, two starts; four purchases; holds |
| `unread_commitments` | does the observer show a channel's commitments? | violated: it reads none of them |

Small bounds are enough because what goes wrong goes wrong around a sector
boundary, around one message or within one pass of a loop: two sectors are the
least `usableCapacity` allows, a lap needs one more seq than the ring has slots,
two boots are needed to reach recovery and three to recover from an interrupted
recovery, and two messages to overtake. Seqs stop one short of `MaxU32`, so the
refusal at the end of the number space is reached too. A board needs two ids for
an open that replaces a channel and two seqs for a stale commitment; the books
need three channels so that a change of channel can itself be interrupted and
taken up, and two copies for a board that hears only one of them. Two payments
are enough for one to stand behind the other, for an ack of one to arrive during
the other, and for a cell to replace another on the stage; the third underpays.
Two requests are enough for one to change what the other read before its await,
and a threshold of four lets the second forward settle the channel. A table of two
slots fills and renews with three certificates, and two calls of the deriver race
under one zone (a unit's
position and a retirement). Three transmissions in two slots evict one, and two senders may draw
one id. Two flows are enough for the copies of one to meet the other, and two hops
for a relay between them. A window of votes with room for K + 1 = 3 needs three boards, and
two generations open at once need two slots. Four purchases let one that was given
up run beside the next in a third and a fourth channel. The proofs cover every
geometry, every number of boards, copies, payments and units, and every rate.

Three constants of `MeteredLamp` say how the tasks are scheduled. `LoopPeriod`
is the longest pause between two passes (10 ms in the code), `VerifyTime` how
long a signature check may hold a cell back. `CellsPerPass = 1` because the
injector is the only sender of channel cells and stages one every 1.8 s, much
longer than a pass; if two cells may be handled within one pass, a close and an
open between the loop's look and its stop leave an ACTIVE channel with a stopped
meter. In `lamp_and_books` a milli-sat takes part of a millisecond (`Rate` 3,
`Kilo` 2, for the code's 1200 and 1000), so that every tick of an odd number of
milliseconds drops some; its books never miss the injector's line and the bridge
does not crash between a commitment and its record, since otherwise the unrecorded
commitment of section 4 applies; `Commit`
does not pass the capacity of the channel, a bound the code lacks. `mesh_control`
starts its plain requests before the first forward is counted and before any
restart, one at a time: they share nothing with the others but the port and the
stage. `SettledIsComputed` is stated for at most one faulty board and ticks that
are not interrupted, or for no faulty board at all, and `ReleasedIsValidated` and
`KeptUntilSpent` as long as one output was all that was ever on file: each fails
beyond that (section 4).

Deadlock is not checked: every counter is bounded, and once the boots, the seqs,
the log ids, the channels or the payments are used up the models stop.

**Fairness** is assumed in four runs.

* `eventually_accounted`: weak for sending, booting and starting the bridge,
  because `run_node` and `pump` are loops that never wait for each other and both
  processes are started again; strong for delivery, because the node sends as long
  as something is pending, so a message kept getting lost for ever would mean a
  path that is down for good. The property assumes that the bridge crashes
  finitely often. Duplicates are left out of this run: a path that delivers one
  old ack infinitely often can hold the node back for ever.
* `phone_light`: weak for `Runs`, what the bridge does by itself with the
  activation at the head (`StartNext`, `SendCopy`, `AwaitSees`, `AwaitExpires`,
  `HoldEnds`), because timers fire, settled promises run their continuations, and
  a write that was held up returns; and weak for `PollEnds`, since a page polls
  every second. Nothing is assumed of wallets, boards, the radio or ARCADE.
* `mesh_control`: weak for each request's own continuation (`GoesOn`: writes end,
  pauses are over, the network answers or a time-out does) and for the injector's
  broadcast. A request that waits for a wallet is excepted, since its owner may
  never answer.
* `templog_sim`: weak for `Send`, `BridgeHandlesLine` and `GatewayToNode`, the loop of
  `deliver`; what may disturb it (losses, foreign acks, readings) is bounded.

## 4. Findings

`store.ts:314`: a journal write that fails part-way leaves a fragment; the next
record is glued to it and lost, although it is acked (`journal_write_fault`).
`store.ts:17` and `:346` say otherwise.

`main.c:1248`: a Cell B that names another flow than the Cell A held releases the
burst slot before anything is verified. Every Cell B is sent three times by a
relay and twice by the injector, so a late copy of one flow takes the Cell A of
the next with it (`burst_slot`). `cell_forward_admit.zig:78` says that only the
proven partner releases it.

`server.ts:257` of the observer: the pattern of a commitment's line wants the expiry
right after the device's share, and the board prints what was consumed between the
two (`main.c:1656`). No commitment is ever read, so a channel under way stays
`open` on the page, without the seq, the share and the expiry that
`mesh-observer/README.md:60` and `:111` list (`unread_commitments`).

Met while modelling, and without a run of their own. The properties of the runs
are stated so that they hold in spite of them; where a false property is written
down, its comment says that no run has it.

Temperature logger:

* `store.ts:167`, `:11`: a crash between the start line and the loss line of a
  log's first batch makes a reported loss disappear.
* `main.c:298` against `TEMP-LOGGER.md:113`: an ack of the previous log that
  arrives after a wipe releases readings of the new one, which is why
  `end_to_end` checks `ReleasedUntilWiped`.
* `tlog_store.c:135` against `cell_templog.zig:171`: a failed flash write consumes
  its seq only until the next reboot, which is why `node_and_bridge` checks
  `NeverReissuedBySoundFlash`. With failing erases records of two laps share a
  sector and the window itself breaks.
* A POST that fails, or is under way when the process dies, is not tried again
  but by a replay; `splitLines` drops a line that outgrows its buffer.
* An ack that was under way for some seconds places later readings of that boot
  that much early: `PlacedNearTruth` allows for the delay.

Light and meter:

* `cell_meter.zig:30` against `cell_meter.h:53`: each tick of the meter drops what
  is left of a milli-sat, so light is given away in proportion to the ticks.
  `LightIsPaidFor` allows for just that: less than a milli-sat for each tick, and
  nothing at a rate that is a whole number of milli-sats per millisecond.
* `meter.ts:213` against `:25`: a commitment that went out but whose log line was
  missed is not in the books; its seq is used again with another share, the boards
  refuse it while the payer is told it worked, and they miss the next change of
  channel.
* `bridge.ts:314` against `:224`: an `addSats` that was given up and the next one
  use a seq twice (`CommitmentsDiffer`).
* `main.c:1531` against `serial-mesh.ts:104`: nothing on a board compares an
  actuator cell with one it acted on: in the full mesh build each copy that finds
  the mailbox free extends the light. The demo build hides it by its stage.
* `serial-mesh.ts:129`: an ack line names no cell, so one that comes after its
  payer was told "failed" is credited to the next: `LitsAreBacked` bounds the
  number of payers told "lit", not which they are.

Mesh control:

* `mesh-control.ts:1063`: two overlapping calls of `/open-channel` both fund a
  channel, and the refund of one is forgotten (`UnspentIsHeld`).
* The bad-key route waits 0.4 s where the injector holds a cell for 1.8 s, so its
  certificate is replaced by the forward.
* `:790`: the certificate flag is set after an await, maybe for a channel that was
  opened meanwhile. The v1 and v2 counters share one channel of the board, which
  refuses the one behind as stale. A board adopts the first channel it sees and
  refuses a second. A reboot of the board or of the process loses certificates and
  counters that the other side goes on relying on.
* `channel-anchor.ts:273`: when the answer of a settlement is lost the channel
  stays open in the books, and `/open-channel` answers 409 from then on. The
  evidence is read after the await, from the channel that is then active. Forwards
  after the settlement are not paid.
* `/pay-actuate`: when the write fails after the payment, the answer is 502
  without the txid.
* `:549`: a line of `cat` that is read after its exit was noticed marks the tail
  alive (`QuietMeansHeld`). The observer never opens a port again and shows the
  channel from before a board's reset; its drop count breaks when seqs wrap or
  poses are doubled.

Fleet and boards:

* A database refused a write, or a position was retired, and a control plane
  without one is rebuilt: units get other positions (`KeyIsReproducible`). With a
  database, the recipe of a later session omits what earlier ones derived
  (`deriver.ts:51`). Retiring a unit burns the zone's next free position, not the
  unit's. The table never looks at `valid_from`. `hardware.ts` does not wait for a
  refusal of the domain and reports a time-out instead.

Forwards and rules:

* A paid forward that is admitted while the mailbox of its version is full is
  paid and goes no further. A mailbox that is filled again between the moment its
  flag is taken down and the moment it is read loses the first forward and sends
  the second twice; one that is filled again while Cell A goes out marks the new
  burst's Cell A as sent. The v1 and v2 forwards are counted separately and
  checked against one channel, which is why `LoneFlowsArrive` asks that a flow be
  `Timely`.
* `main.c:2378` says that modifications of the rules are serialised with the main
  loop (`InstallsAreSerial`). Rule cells are installed in the Wi-Fi task, which
  may choose the entry the main loop is writing; a rule that a second forward
  brings while the first is decoded is half the one and half the other.
  `ReportedRulesStay` is about installs that were not interrupted. The hot swap
  is not in a build with `DEMO_SCRIPT_ONLY`; the install by a forward is.

MNCA and gated spend:

* `main.c:2809`: an agreement frees its slot, the third vote opens another that
  only its expiry frees, and a table of four is full at the fifth generation
  (`AgreementSettles`). A frame that comes between the choice of a slot and the
  vote may put a vote into the window of another generation, so that two faults
  are not needed for a wrong one. The oracle signs whatever generation is claimed.
* A verdict names no spend (`OnlyValidatedAreReleased`), and an old timer ends
  another command's wait. A crash between the funding's broadcast and its save, or
  funding twice, strands an output; `settle` releases without a verdict, by design.

Hazards that no property covers: flash and NVS calls that fail elsewhere than in a
write (`tlog_store.c:127`, `:94`) and the burning loop at the end of the number
space (`:103`), the capacity and expiry of a channel that is prepaid for days
(`meter.ts:44`), a network call
without a deadline (`arc.ts:89`), and a blocking write (`serial-mesh.ts:113`).

## 5. Proofs

### The reading log

The first part of `TempLogProofs` proves, for every ring geometry and every bound, with NVS
writes that may fail and acks that may be anything:

* `NodeInvariant`: `NodeSpec => []SoundFlashIInv`, the inductive invariant until
  a flash call returns an error, and `SeqsAreNeverReissued` from it, for any
  `FlashFaults`;
* `NodeTypeCorrect`, `WindowFitsRing`, `NoRecordIsOrphaned` and the action
  property `OnlyLappedLeave`, on the assumption `FlashFaults = {}`: flash calls
  may be cut short by a power failure but do not return an error.

`WindowMatchesRing` puts the two about the window together, and
`LastReadingSurvives` is `NewestSurvives` for any `FlashFaults`: until a flash
call fails, the newest reading of the log is in its slot. After a failing write a
seq may be given out again (section 4).

None of the safety properties is inductive alone, because a reboot throws the
window away and computes a new one from flash. The strengthening says what flash
must look like for that to give the right answer: every record is in its slot
and not newer than the newest issued seq (`RecordsInPlace`), the newest issued
record is always there (`NewestHeld`), opening a sector has retired everything a
lap back (`SectorsRetired`), past the newest record the open sector is some torn
slots followed by erased ones only (`TailErased`, so that the burn loop ends on a
slot that can be written), and, while the node is up, the window in RAM is what
recovery would compute (`WindowInv`). The proof has one lemma per action. The
work is in `Boot` and in the two appends, which rest on the arithmetic of the
ring: which seqs share a slot (`SlotCollision`), which open a sector
(`SectorStart`, `SectorNear`), and which records an erase removes
(`SectorVictims`, `OneLapBehind`).

### The metered board

`LampAndBooksProofs` proves `LampInvariant`, `LampSpec => []LampInv`, for every rate
and bound when at most one cell is handled in a pass, and from it
`LampTypeCorrect`, `MeteringFollowsChannel`, `SharesAlwaysFit` and
`NeverOverbilled`; `GrowthOnly` needs no assumption on the schedule at all.
`MeterFollowsChannel` is not inductive, because the loop expires a channel and
stops its meter in two steps and a cell may come between. `ExpiryUnderway` says
what that cell can be: a close, after which no further cell can open a channel
in the same pass. `BilledAtMostElapsed` needs to know up to when the meter has
billed (`BillCoversTime`) and that the loop's time, which may be older than the
cell's, is not older than the open (`ClockOrder`): a product of the rate and a
difference of times is then bounded by the product of the sum
(`Spread`, `TickBill`).

`NoLightIsGivenAway` is `LightIsPaidFor` for every rate. A tick drops less than a
milli-sat of the time it covers, and nothing when a millisecond's worth is a whole
number of them (`TickDrops`, `TickIsExact`), so `LightInv` speaks of the light net of
what the ticks have dropped (`Net`): a running meter has billed, or has still to
bill, no less than that (`Owed`). An authorization is therefore worth what was paid up to the start of its
pass (`Worth`). The LED may go on for one pass after the state has changed under
it and be put out in the next, which is where the two passes of the bound come
from.

### The books

`LampAndBooksProofs` proves `SavedInvariant`, that what was answered is in the
state file, with acks missed, boards rebooting and the process dying anywhere;
and `BooksInvariant`, `BooksAreFollowed` and `EveryListenerJoins` for any number
of boards and copies, if no ack is missed and the process does not die between a
commitment and its record. The invariant says: the state file is the books and
ids are never drawn twice (`BooksAreCurrent`); a board in the books' channel is
at the books or behind them, or at the one commitment that waits in `record`
(`BoardsFollowBooks`, `RecordIsNext`). So the last commitment, sent again, brings
every listener exactly to the books, the close that follows names its seq and
share, and the id drawn next is one no board has, which is why the open is taken
(`ChangeUnderway`, step by step).

### The paid light

`BoardAndLightProofs` proves `PaidInvariant`, `Spec => []PaidInv`, for any set of
payments, any number of copies and restarts, a bridge that settles payments or
does not, and both builds of the boards; from it follow `QueueAnswersTruly`,
`ClaimsAreLive`, `OneLightPerPayment`, `NoAckServesTwo`, `NoLightUnpaid` and
`PaidTypeCorrect`.

* The queue: `QueueMatchesTickets` is split into the list (`ListIsChain`) and
  the links (`ChainIsTickets`, over indices). A payment that joins was
  `unknown`, which `ClaimedWhileLive` gives for one whose claim was just taken
  or settled (`JoinQueue`); what ends is at the head, and nowhere else
  (`HeadIsOut`, `DropFirst`, `FinishLeaves`).
* One light: `LightsToCome` counts, for each payment, the lights it made and
  what may still become one: the cell in the mailbox, the cell on the stage, and
  one if it may yet be staged. The sum never exceeds the restarts plus one for a
  claim that is held. A step moves one of these on by one stage or loses it; a
  claim is given back only with what it could have become; a restart adds one
  and drops everything the bridge held. It is stated for runs in which no write
  was held up, because a write held up longer than the stage waits does light
  twice.
* Acks: `AcksAreSpentOnce` counts the lines not yet read and an ack that counts
  for the activation under way among the activations not yet told to a payer.
* Settlement: `OnlySettledActs` covers every place a payment can be in.

### The phones

`PhonesUseTheBridge`, `PhoneSpec => Spec`: whatever phones and agents do, the
bridge with its boards makes the steps of `PaidLight`, so each of its theorems
holds with phones too (`PhonesLightOnce`). What a page posts is an activation of
the bridge only if it is a payment at all, which is what `PagesInv` says of a
page that is at its wallet, posts or polls. `SavedTicketsAreKnown` (`SavedIsAccepted`) adds that
tickets stay as long as the process does (`TicketsStay`), so that a ticket in a
page's storage is one the bridge accepted.

### The gated spend

`DemosProofs` proves `GatedInvariant`, `OutputIsKept` and
`ReleasesAreValidated` for any commands, outputs and starts. `CommandsInv` says
that a command which injects, waits or settles is about an output that was on file
first, `RecordsInv` that memory, file, cells and releases name no other outputs
and that the network knows each of them. As long as one output was all that was
ever on file (`AtMostOne` turns the cardinality into an equality of elements), a
verdict is about that one, whichever command it answers (`VerdictKeeps`), and
what has money in it is what the file names.

### The fleet and the bench

`BenchAndForwardsProofs` proves `BenchInvariant`, `BenchSpec => []BenchInv`, for any units,
any depth of zones and indices, any size of the capability table and any
firmware of the watched board; from it follow `BenchTypeCorrect`,
`UnitsHaveOnePosition`, `RetiredStaysRetired`, `RecipeIsUsable`,
`CleanRunIsAnchored`, `GrantsStayDistinct` and the action property
`LiveGrantsAreKept`.

* Positions: a call that awaits the SDK already owns its index (`CallsAreApart`:
  two calls never share one, and each lies behind its slot's mark), and what was
  given or burned lies behind the mark too and differs from every call under way
  (`PositionsAreKept`). So an answer may arrive in any order and give a position
  that is nobody's (`CallReturns`). The second part is stated for an SDK with a
  database: a restart forgets the mark otherwise.
* The table: `SlotTaken` says which slot `cm_cap_install` picks, the entry of the
  same grant when there is one, else one that is not live. `InstallKeepsOne` and
  `InstallKeepsLive` follow, and time only frees slots (`TimeFreesSlots`).
* The script: what the injecting board holds is the cell of the step under way
  (`StagedIsTheStep`), and a line read in that step is said of it
  (`LinesAreOfTheStep`): until the broadcast no line was added after the wait
  began. A third step that is good is then a cell the demo key signed and the
  board refused.

### Cells, forwards and rules

The proofs about the three other programs of `bench_and_cells` are in
`BoardAndLightProofs` (cells and rules) and `BenchAndForwardsProofs` (forwards).

* `FramesAreAPath`, `FramesSpec => Path!Spec`: reassembly implements `CellPath`,
  for any number of senders, slots, frames to a cell and any time-out. `FramesInv`
  says that a slot holds parts of one transmission and zeros where its mask has
  no part, and, if nothing is doubled, that a part is in one place only: on the
  air, in one slot, in the queue or with the main loop (`PartsAreApart`).
  `FewAreKept` needs the history: every slot in use is an assembly that was begun
  and holds what was heard of it (`SlotsAreOpenings`). An assembly is thrown away
  by one that finds no vacant slot, and then the slots give as many rivals as
  there are slots, each another one (`EvictedByMany`).
* `HopsAreKept` and `PaidIsOnce`, for any route, any number of boards, flows and
  copies and any subset of boards that hold the grant. `RelayInv` says that what
  is in a board's mailbox, under the hands of its loop or on its links was
  admitted by it, first and last bytes each, even if they are of two flows
  (`MailIsOwned`, `DrainIsOwned`, `LinksAreOwned`), and that the channel of a
  board is at or past the seq of every paid flow it admitted, which makes any
  further copy stale (`AdmissionsAreCounted`).
* `LoneFlowsReach` is `LoneFlowsArrive`: over a calm radio (nothing on the air is
  lost, doubled or overtaken, and a forward is begun only when the one before is
  through), a forward that is `Timely` reaches the last board of its route, if all
  of them hold the grant. It is a safety property, of the moments at which all is
  quiet, and needs to say where a forward is at every other moment (`LoneInv`):
  all that is under way is of the latest flow (`OnlyLatest`); a board sends to the
  next on the route only and every Cell A it holds is whole (`WellSent`); a v2
  burst is nowhere, has both parts to send, has sent Cell A or has sent both, so
  that no second burst is put into a mailbox while the first goes out
  (`BoxesGoOn`); on each link Cell A is before Cell B (`LanesInOrder`); and of two
  hops that follow each other, if the one is reached, either the other is too or
  each part of the forward is still to be sent to it, on the link, or held
  (`LatestGoesOn`). When all is quiet nothing is to come, and the first hop that
  was not reached, if there is one, has a reached one before it (`Least`). Why a
  copy that comes is admitted at all is a fact about the channel: it is at the seq
  of a flow the board admitted (`ChannelsAreOfFlows`), which is older if the new
  one is timely, unless it is this very flow.
* `QuorumIsCounted` and `ReportedStaysInstalled`, for rings and tables of any
  size. The ring is the last cells that were heard and is ordered by time
  (`RingIsRecent`), so the young cells the count walks over are a suffix of it,
  and the window is a suffix of what was heard: if the window fits the ring the
  two agree. Its hypothesis is that no rule that comes in has the effect by which
  the property recognises the quorum rule. `InstallInv` says that, unless
  interrupted, the entry the main loop is writing is free and nothing else has
  chosen it, and that every report has an entry (`ReportsGrow`, `HeldGrows`); the
  demo's own rules stay in the first three (`TableInv`).

### The store and the bridge

`TempLogStoreProofs` proves `StoreInvariant`, `RestartChangesNothing` (a rebuild
of the file gives the memory), `AcksAreKept`, `AcksAreEarned` and `SamplesAreOnce`,
for any batches and any number of crashes at any byte. `StoreInv` says that the
file is `Sound` (each log is begun before it is used, each sample is there once,
each ack point is earned by the lines), that memory is the rebuild of what is on
file while the bridge is up, and that the file covers what was promised
(`PromiseKept`). `CommitIsRebuild` shows for the three kinds of lines that what `ingest` does
to memory is what `rebuild` will do with the lines; an ingest that is cut short
leaves a file that is still sound (`SoundExtended`) and whose ack was never sent.

`TempLogBridgeProofs`: `BridgeIsAStore`, that ports, lines and POSTs add nothing
to the store's steps, so its theorems hold there (`BridgeKeepsAcks`,
`BridgeEarnsAcks`); `ServerAgrees`, by an invariant on every body under way
(`BodiesWithin`: each is made of samples on file) and on replays: what the server
lacks of the file that a replay began with is in the bodies it has still to post,
unless a POST failed (`ReplayInv`; `ChunksAre` says that the chunks cover the
file); and `NoNoiseIsStored`.

### The synthetic node

`SimPlacesNearTruth` (`TempLogBridgeProofs`) is `PlacedNearTruth`, for any ring, any number of
boots, losses and acks of other bridges, and any delay: a reading that is placed
at all is placed no further from its moment than something may be under way.
`SimInv` says that there are moments at which the boots began (`Clocked`) with
which everything agrees: what is in flash, `node.epochs` up to the delay of the
ack that dated the boot, and the batch under way, whose header dates either the
running boot by its time of sending or an older one by its entry in `epochs`
(`Dated`). The moments are quantified and not a variable, since no one in the
system knows them. The batch's run of one boot (`BatchRun`) is why one header is
enough for all its samples, and two sums of at most `MaxDelay` apart give the
bound (`SumsApart`).

### The mesh control

`MeshControlProofs` is about `MeshControl` for any number of requests that
overlap, of channels, certificates, copies and restarts.

* `BooksCover` is `BooksCoverBoards`, in every interleaving. `BooksInv` says
  that every commitment anywhere, in a request, in the injector, as half a burst
  or on a board, is `Honest`: on a channel that was funded, and if that is the
  active one, of no more than its counters have counted; a channel that is just
  being funded is named by none. And `Booked`: the counters are the forwards
  booked, under way, and known to be missed. Each request moves one forward from
  one of the three to the next (`Balance`, `BookedKept`); `LineFits`, that a
  request stands in the queue of the port once and only while it waits for it, makes
  the head of the queue the request that is written.
* `LoneForwardsTaken` is `LoneForwardsAreTaken`. `LoneInv` says what holds while
  all is calm: one request at most is not idle (`Alone`); where it stands tells
  what the injector holds (`Phase`), and whatever the injector holds the board
  will take (`Good`): a certificate is the current one, a commitment is
  `Payable`, and the second cell of a burst meets its first. The flag
  `s_capCertInjected` tells the truth only after the pause
  (`CertCalm`), the table holds no grants but the demo channel's and the active
  one's (`TableCalm`, so that a slot is free), and the board is at the demo
  channel's id until it hears of the funded one (`ChannelCalm`, `Unseen`). A
  settlement cannot be under way before the board knows the channel, because one
  forward stays below the threshold.

`RoomAssumption` names what the second of these rests on: a table of more than
one slot (the code has four), a threshold above the price of one forward (50 over
20 sats), and a capacity that the counted forwards do not pass (a million sats at
10 each; the bound on the counters is the model's).

### The quorum

`SettledTilesAreComputed` (`DemosProofs`) is `SettledIsComputed`, for tiles of any size, any number
of boards, slots and time-outs and any first tile. `QuorumInvariant` says that a
board that computes rightly holds the right tile and votes for it (`TilesAreRight`), that
while nothing interrupts a tick the slot it chose is still the one for its vote
(`WindowsAreSound`), that a window counts a board once and is closed by the
first two votes that agree (`SoundSlot`), and that what is settled is right: of
two boards that agree one computes rightly. `Computed` is a recursive function;
that it has a value at every generation is proved with the library's
well-foundedness of `<` on the naturals (`ComputedIs`). `StepsAgree` proves that
the oracle's step, written in another language over other tables, is the boards' on every tile.

### The metered payments

`MeteredTallyIsExact` (`DemosProofs`) is `TallyIsExact`, for any purchases, prices and drains: the
tally is the sum over the purchases recorded. `MeteredInv` says that a purchase is in
line once and before its `addSats` begins (`LineIsInOrder`), so that it is
recorded once. The sum is a fold over a set, whose value for a set with one more
element is proved by induction along strict subsets.

### The views of a board

`ViewsFollowBoards` (`DemosProofs`) is `ViewsCatchUp`, for any edges, gates, seqs and lines, any
length of the refusal list and of the observer's window, and boards that reset at
any time. What a program will know once it has read what is on its way to it is
the fold of its own handlers over those lines; `FoldIsFollow` says that the three
folds of the module (`Control`, `Observer`, `Channel`) have a value for every line of
log, and `FollowAppend` and `FollowTail` what a line more or a line read does to
it. `ViewsInv` then has one part for each thing the board says:

* `GrantsAhead`: what control is going to have read are the board's grants, and a
  refusal list without duplicates or counts ahead of the board's. While no more
  gates refused than the list has room for, it names them all: a list without
  duplicates has as many gates as entries (`ImageSize`), so none was pushed out
  (`ListKeeps`). A reset of the board empties both, since its "ready" line is
  read before any line of the next boot.
* `ChannelAhead`: the same for the channel the observer keeps, while the board's is
  not closed: it is going to show it expired when it is, and otherwise open, with
  nothing of its commitments, since `EventsAre` shows that their lines are no events.
* `StreamInv`: poses of one life of the speeder arrive and are read in their order,
  and a pose between two that were read or are on their way was read, is in the
  pipe, or was missed (`NoneUnseen`). `Push` only drops from the front of the
  window (`PushIs`), so the seqs between its first and last that it does not hold
  are those missed, and their number is what `StreamStats` shows
  (`DropsAreCounted`): a count by cardinality against a difference of seqs.

### End to end

The second part of `TempLogProofs` composes node, path and bridge. `EndToEndInvariant` is the conjunction of the
node's inductive invariant, the store's (through the INSTANCE), and three parts
about what lies between: `LogInv`, that a node has one log at a time, drawn
before, with its id in NVS, and that what is in flash was measured; `PathInv`,
that a batch on the path tells the truth: a sample is a reading, and a seq it
reports as lost was never, and will never be, sent as a sample of that log
(`Spent`, which survives boots because a burned slot is never written again);
and `AckInv`, that an ack on the path and the pointer in NVS are behind what the
bridge accounted for, until a second log comes to be. From it follow
`ReleaseIsSafe` (`ReleasedUntilWiped`), `StoreTellsTruth` (`StoreIsTrue`) and
`AcksAreNotAhead`.

The assumption is that the NVS write of `log_id` does not fail. All others may:
were the id not saved, the next boot would draw another one for the same
partition, and the records of one log would be sent as those of another, as the
code has it. `PromiseIsKept`, `ImplementsPromise`, is the refinement of
`StoreAndForward`, step by step, for any geometry, number of messages and
crashes, and for one log (`MaxLogs <= 1`): an ack names no log, and the first
finding on it in section 4 is what happens with two. Only the safety part of the
promise is proved.

### What is only model-checked

Liveness stays with TLC (`EveryReadingAccounted`, `EveryPollEnds`,
`EveryRequestEnds`, `DeliverySettles`): it needs ENABLED, which the provers here
do not do. Induction over data is done where a theorem needs it by the least
counterexample: the library's facts that `<` and strict inclusion are well-founded
take sets, not operators.

Every invariant and every action property that a passing run checks is stated by a
theorem. Some facts are proved and have no run of their own, because they are parts
of an invariant that a run's property rests on: `OnlyLappedLeave`,
`ClaimedWhileLive`, `QueueMatchesTickets`, `SavedIsAccepted`, `BilledAtMostElapsed`,
`RebuildAgrees`, `HeldOnce`, `OneUnitPerPosition`, `GrantsAreDistinct` and
`HostNotAhead`.

## 6. Not modelled, and the plan

Left out for good: the WASM kernel (no source), the radio driver, signatures and
bit-banged sensor I/O, byte layouts and logging, one-shot and demonstration
scripts (they keep no state and print what they see), the Zig port of the fleet's
derivation. Of the metered light: the seven-day expiry and the capacity of a
million sats, which a stretch of light does not reach; sums of u32 and u64 that
saturate. Of the payments: requests that change nothing (400, 402, 409) and the
wording of the answers. Of mesh control: routes that only differ in the cell they
inject. Of the views: patterns
that only count or blink.

Could be modelled and is not yet:

* the node's send schedule and `epochs` table (the synthetic node has its own), and
  boot ids that are reused when their NVS write fails.
* `metered-rental.ts`: its REPL interleaves the frames of overlapping commands,
  and an open and a close without a payment leave the board OPEN.
