# LinkG in TLA+

LinkG is the firmware application of a multi-link (Wi-Fi, cellular, Ethernet)
network device: it carries user traffic between nodes over several links at
once, switches between them, upgrades itself and its Kernel, and is watched by a
small Supervisor process. This directory models its concurrent and
fault-sensitive core, checks it with TLC and proves part of it with TLAPS.

Paths below are relative to the root of the repository.

## 1. Inventory

| Part | Code | State it keeps | Operations | Talks to |
|---|---|---|---|---|
| Release state | `infra/base/linkg_release_state.c`, `linkg_atomic_file.c` | `/app/version_state.json`: target, stable, Kernel of each release, phase | load, compare-and-replace under `.lock` | Supervisor, Upgrade |
| Boot environment | `infra/base/linkg_boot_env.c` | U-Boot ENV: target and stable slot, bootcount, upgrade_available | prepare, trial, stable, read, reboot; writes by an `fw_setenv` child | U-Boot, Supervisor, Upgrade |
| Upgrade | `core/upgrade/` | one install transaction, `.ota.lock` | request, verify, extract, install, flash, candidate, fail | release state, ENV, flash, lifecycle |
| Supervisor releases | `supervisor/src/supervisor_{release,links,version}.c` | snapshot of the JSON, trial flag, the two `current` links | prepare, confirm, rollback, running | release state, ENV |
| Supervisor process | `supervisor/src/supervisor_process.c` | child pid and state, deadlines, failure count | spawn, monitor, message, confirm, terminate, back off | LinkG over one pipe; signals |
| Supervisor client | `infra/base/linkg_supervisor_client.c` | pipe, heartbeat thread | ready, restarting, deinit, beat | Supervisor |
| Main and lifecycle | `app/linkg_main.c`, `infra/base/linkg_lifecycle.c` | flags of 19 modules, requested action, eventfd, signalfd | init, start, stop, deinit, request, wait, reset | every module |
| Transport | `core/transport/` | Peers with epoch, receive windows, reorder queues, reassembly | register, reset, unregister, receive, send, forward | links, handlers, Discovery |
| Packet pool, Node, Link/Path | `core/packet`, `core/node`, `core/link` | buffers with references; nodes; Paths and their state | allocate, ref, unref; register; send, receive | Transport, Switch |
| Probe | `core/probe` | outstanding requests, RTT and loss windows | send, answer, time out | Paths, Switch |
| Discovery | `core/discovery` | Peers, topology, channels | announce, age, register | Transport, Node, Route |
| Switch | `core/switch` | operations, plans, verification, reports | decide, prepare, verify, commit, report to the other end | Probe, Path, Transport |
| Scheduler, Route, NAT, TUN, DHCP | `core/*` | queues, tables | enqueue, look up, configure | Kernel |
| Services, modules, platform | `service`, `modules`, `platform` | device state | I/O | Web, UART, GPIO, modem, Wi-Fi driver |
| Kernel modules, MCU, tools | `kernel`, `linkg-mcu`, `Tools` | - | - | - |

What is hard in it:

* **Two persistent records that cannot be written together** (JSON and ENV),
  three programs that write them (Supervisor, Upgrade worker, U-Boot), a power
  loss at any point, a rename whose directory sync fails, and a writer
  (`fw_setenv`) that may outlive the process which started it.
* **A process watched over a pipe**, with deadlines, a Supervisor that is itself
  late, a child that hangs, restarts its services or dies during a confirmation.
* **Ordered start and stop** of 19 modules with a failure anywhere, and exit
  requests from several threads racing the wait, the cleanup and the reset.
* **Receive threads, a worker and resets** sharing reorder queues whose handlers
  run with no lock held.
* **Numbers that are taken back** when no link accepted a frame, and kept across
  resets of a Peer, while the receiver knows frames by their number alone.
* **Fragments on several links** that race their timeout, eviction and a reset of
  the Peer, in buffers shared by reference.
* **Two ends that agree on a send plan** over a network that loses, repeats and
  reorders messages.
* Still to come: probe answers racing their timeout, operations and maintenance of
  the Switch, ageing in Discovery.

`PROJECT.json` lists every hazard at its line with the properties that cover it.

## 2. Modules

| Module | Models | Extends |
|---|---|---|
| `ReleaseState` | the JSON snapshot and its transitions, as values | - |
| `BootEnv` | the ENV, its four writes, U-Boot's choice (external) | `ReleaseState` |
| `Ota` | the OTA transaction: Supervisor, Upgrade worker, fw_setenv, U-Boot, crashes | `BootEnv` |
| `OtaInv` | its inductive invariant; module of the run `ota_safety` | `Ota` |
| `OtaProofs` | proofs of its types, its invariant and its six safety properties | `Ota`, `OtaInv` |
| `Supervise` | Supervisor process and LinkG's client, pipe and clock | - |
| `SuperviseProofs` | proofs about its processes and its times | `Supervise` |
| `AppMain` | main loop and lifecycle requests | - |
| `AppMainProofs` | proofs about the order of its calls and the reset | `AppMain` |
| `RxWindow` | the receive bitmap window, as values | - |
| `WindowProofs` | what the proofs about receiving share: induction over sets of numbers, filters of a batch, numbers on a ring, types of the window, what one frame does to it | `RxWindow` |
| `ReorderQueue` | one Peer/Class queue, as a value; one operator per `_locked` function | `RxWindow` |
| `Reorder` | receive threads, worker, handlers, Peer life cycle | `ReorderQueue` |
| `MCReorder` | chunks of frames for TLC | `Reorder` |
| `ReorderProofs` | proofs about slots, delivery, order and resets | `Reorder`, `WindowProofs` |
| `TransportTx` | sending threads, numbering, links, Peer life cycle | - |
| `MCTransportTx` | chunks of packets for TLC | `TransportTx` |
| `TransportTxProofs` | proofs about numbers, order, resets and locks | `TransportTx` |
| `FragmentCache` | one set of the reassembly or pair cache, as a value | - |
| `PacketChannel` | abstract: what the receiving side promises | - |
| `Fragments` | receive threads, both caches, buffers, Peer life cycle; refines `PacketChannel` | `RxWindow`, `FragmentCache` |
| `MCFragments` | packets and batches for TLC | `Fragments` |
| `FragmentsProofs` | proofs about references, lives and losses, and of the refinement | `Fragments`, `WindowProofs` |
| `PlanSync` | the PLAN_SYNC protocol of the Switch, both ends and the network | - |
| `PlanSyncProofs` | proofs of agreement and order | `PlanSync` |

`Ota` and `Supervise` describe the same Supervisor twice, at two grains. `Ota`
has every persistent effect and no clock: a deadline may expire, and a window may
elapse, whenever the child is in the right state. `Supervise` has the clock, the
pipe and the process, and there preparing, committing and rolling back a release
succeed or fail, and show what they do to `version_state.json` and nothing of the ENV.

### OTA (`ReleaseState`, `BootEnv`, `Ota`)

One action is the code between two effects that something else can separate.
`supervisor_release_prepare` is therefore `PrepareLoad`, then one of
`RollbackJson`/`RollbackEnv`, `CommitEnv`/`CommitJson`, `PrepareStable` or
`PrepareTrial`, then `LinksApp`, `LinksWeb`, `RecordTesting`. An ENV write is
`WriteEnv` (the tool starts, holding the flock), `ToolEnds` (it takes effect) and
the waiter's read-back; if the waiter dies in between, `tool` runs on.
`Replace(expected, desired, Ok, Bad)` is `linkg_release_replace`: equal to
expected or desired, then save; the save may fail with no effect, or (with
`SyncFaults`) after its rename. `durable` is the set of contents a power loss
can leave. `image` and `files` say of each Kernel slot and release directory
whether it is blank/partial, new or proven, where proven means that a trial
passed on it: this is how a wrong confirmation becomes visible. `why` is the
caller of a shared routine, and stands for the return address.

Bounds: `MaxFaults` counts power losses, Supervisor kills, I/O errors and Kernels
that do not come up. Two faults are the smallest number that can cut a
transaction and then its recovery; `ota_safety` takes three. `BootLimit = 1` is
enough to exhaust the counter. Installs are not bounded: the state is finite.

### Supervisor process (`Supervise`)

`pc` follows `_supervisor_process_run` and the functions it calls; `sup` is
`supervisor_child_t`; `proc` is the process and the client in it. Times are ticks
remaining or passed. `Tick` lets one tick pass for everybody. The assumption
behind it is the constant `Lag`: the Supervisor looks at its child at least once
every `Lag` ticks, and a LinkG that is not hung beats when a beat is due.
`AppWrites` is any program that does not keep to the protocol; `noise` counts
such messages, and the three properties about honest children hold while it is
0.

`trial` is the Supervisor's belief and `json` what the file selects. A LinkG may
install a candidate at any time (`AppInstalls`), or take it back (`AppAbandons`),
and every prepare reads the file anew: the stable LinkG that installs a candidate
and ends is followed by a trial in the same life of the Supervisor. `tries` counts
the processes of the newest candidate and starts again with each install. A
confirmation or rollback whose rename took effect and whose sync failed (`Torn`)
leaves `json = "stable"` under a Supervisor that still has a candidate on trial; an
install then makes it "newer". What the Supervisor compares it with is its own older
snapshot, so that it commits and rolls back no more (finding 1 has the same end);
`ProcessInv` says that neither of the two candidates is started until then. Where
`json` is "stable" a commit or rollback may succeed or fail. Whether it finds the
very phase it expects in the file is a matter of `Ota`.

`RestartMin` is the shortest time a restart of all services takes;
`ConfirmEarned` needs it to be larger than `Lag`, as it is in the code (seconds
against 100 ms). With `RestartMin = 0` TLC finds the batch of messages that
`_supervisor_confirmation_progress` misreads: RESTARTING and READY together
leave RUNNING behind, and the commit goes on with a window that has just begun.

Bounds: in `sup_safety` the heartbeat period and its timeout have the ratio 1:4 of
`supervisor_config.h`; the other deadlines, which the code never compares with
each other, are scaled down to two or three ticks, enough to expire before and
after every message; `PipeCap` stands for 64 KiB and makes a full pipe reachable;
the failure counter saturates at `MaxFailures = 1` (32 in the code), so the doubling of
the back-off delay is in the model and not in the runs: no property depends on it.

### Main and lifecycle (`AppMain`)

`InitOrder` and `StartOrder` are the orders of `_linkg_app_init` and
`_linkg_app_start`; cleanup walks them backwards. `FlaggedFirst` are the modules
whose flag is set before the call, so that a failed start is still stopped.
`linkg_lifecycle_request_exit` is three steps (raise the action, set the flag,
write the event) and interleaves with the steps of `wait_for_exit`. A stop joins
the thread of its module. `StopOrder` and `DeinitOrder` are those of `_linkg_app_stop`
and `_linkg_app_deinit`, read from the calls.

`open` is history: the modules of which a start left something running, whether it
succeeded or failed half way. A failed start may leave something or nothing, except
in the diagnostic and upgrade modules (`AllOrNothing`), whose start does nothing but
create a thread; these two are also the ones whose flag is set after the call. A stop
call takes away what its module left, but main only makes it for modules with their
flag set. `LayersHold` compares `open` and `inited`, that is, what is really there,
with the order in which main brought it up: everything in `open` still has all that
was initialized and everything that was started before it. No table of dependencies
is assumed; the order of bringing up is the dependency order the code states
(`linkg_main.c:404`). An init that fails is taken to leave nothing behind.

### Transport receive (`RxWindow`, `ReorderQueue`, `Reorder`)

`RxWindow` keeps the 512-bit map as a set of offsets from the newest number.
Sequence numbers are taken modulo `SeqCount` (2^32 in the code) and the runs
start shortly before the wrap. A frame in `Reorder` is its class, its position in
sending order and the epoch in which it was accepted. A step is what a thread
does between two points where it takes, releases or waits for `g_reorder.lock`;
`lock` records who keeps it from one step to the next. `pc = "hand"` is a handler
running without a lock. `Quiesce`, `ResetWaits`, `ResetClears`, `Resume` and
`Unregistered` are the Discovery thread in `linkg_transport_reset_peer` and
`linkg_transport_unregister_peer`. `last` is history.

Abstracted: a deadline expires at any time after the frame was cached (`Expire`);
the frames of one emitted batch are a set, handed over together; the check of the
epoch of each frame in `emit_reordered` is made once for the batch. Bounds: four
frames in each class, a window of two slots, two receive threads. `reorder_safety`
has one class, any order of its frames and a life of the Peer before and after a
reset (`MaxEpoch = 4`); `reorder_liveness` has two classes, so that a thread with
frames of one in hand meets a full queue of the other, and one life that an
unregistration ends (`MaxEpoch = 3`). A window of two has a head and a slot that
is not the head, which is what its logic distinguishes; four frames overrun it.

### Transport send (`TransportTx`)

A stream is a class and a kind (USER or CONTROL), with a sequence counter of its
own. `AcquireState` and `LockOrder` are the two locks that
`_linkg_transport_tx_acquire_state` takes one inside the other; a sender that
waits for `tx_order_lock` holds `g_transport.lock` meanwhile. `Encode` numbers one
packet, `Submit` gives the batch to one link, which accepts any subset of it,
`FinishSend` takes the numbers back if nobody accepted anything.
`linkg_transport_forward_batch` has the same steps: its frames are packets of one
frame. `Quiesce`, `DrainClass`, `SaveAndReset` and `Reactivate` are reset and
unregister. `saved` is `g_transport_tx_sequences`, which outlives the Peer.
`wire` is history: what each link accepted.

A reset or a new registration does not begin the numbers again: `saved` is put back
(`Restored`), as the code's comments say (`linkg_transport.c:22-27`). The design
document says the opposite, see section 4.

Sequence numbers do not wrap here (`seq` is a natural number): a number is reused
after 2^32 frames by design, which the receive window answers for. Packet ids do,
and skip 0. Bounds: two senders, two nodes that compete for one slot, two classes,
two links, two chunks of one or two packets, and three lives of a slot.

### Fragments (`FragmentCache`, `Fragments`, `PacketChannel`)

A packet is one frame or two, for this node or to relay. `Receive` is
`_linkg_transport_rx_accept_batch`, under one lock; fragments for this node then go
through `linkg_transport_reassembly_submit_batch` and fragments to relay through
`linkg_transport_forward_pair_submit`. The steps are cut where the code has no
lock or reads something another thread may change: the clock before the lock, the
epoch before the store, the epoch of each item before it is handed on. `Submitted`
has the exits of a well-formed packet; those that drop the entry because its halves
disagree (`-EPROTO`) or do not fit into one buffer are left out (section 6). `refs` is
the reference count of every buffer; `rx[l].base` are the references of the link's
receive thread, `own` and `kept` those of delivery batches.

`PacketChannel` knows nothing of fragments, caches, clocks and buffers: in each
life of the Peer, a packet for this node is handed up whole and once, a relayed
one goes on frame by frame and in order, and nothing is handed on for a life that
is over. The refinement mapping is the identity on the epoch and on `got`, the
history of what was handed on. An entry of `got` says which copy it is of the same
frames in the same life; in `PacketChannel` it is always the first, so that handing
a packet up twice is a step that refines nothing and not a stutter. A frame counts as handed on
when its epoch is read for the last time (`FlushItem`): the handler itself runs after that, and may
still be running when a reset begins. What the abstract specification cannot
promise: that FIRST and LAST of a relayed packet go on together. The epoch is read
for each of them, and a reset between the two reads lets FIRST go alone, where
`05-M05-Transport传输协议.md` has both submitted together; the next hop drops the
half by timeout.

A buffer is a link and a frame: a link brings a frame once, and a batch repeats
none (`FragmentsAssumption`), so that the pair names one buffer. Another copy of
the frame comes over another link. `FragmentsAssumption` also keeps all numbers of
the packets within half a lap of the counter.

Bounds: two links, three packets of two fragments (two for this node, one of which
never completes, and one to relay), four arrivals, one way in each cache, a time of two ticks with
a lifetime of one, one reset or re-registration. One way makes every insertion an
eviction; sequence numbers wrap during the run. `Quiesce` begins only while
`epoch + 2 <= MaxEpoch`, so that a reset that has begun can end.

### Plan synchronisation (`PlanSync`)

`sta` is the STA's runtime of its AP with its `plan_sync`, `ap` the AP's runtime
of the STA. One action is one critical section of `g_switch.lock`.
`_linkg_switch_plan_process_sync_event` has two with a conversion between them:
`TakeSync` and `ApplySync`, then `Answer`; Discovery may remove or register the
Peer, and the local plan may change, before each. `air` holds every message ever
sent: one that is delivered stays, so that it can arrive again and at any later
time, and one that never arrives is lost. A message that finds the queue full, or
no Peer, is dropped by staying where it is. Timers may be due at any time, so
that a timeout may race any acknowledgement. The place `n` of a message in the
order of allocation and `applied` are history.

Bounds: numbers start two before the wrap of a counter of 16, two messages are
allocated (by two commits, or a commit and its recovery round), each sent up to
twice and arriving any number of times; one removal or uncommitted change; one
event in each queue. In `SyncReported` a result counts as handed out also when its
Peer is removed or a later sync's result takes its place, which is what the code
does with it. Not modelled: a restart of the STA process, whose numbers
start again from 0; the AP accepts them because Discovery removes the Peer of a
session that ended (`discovery_peer_runtime.c`).

## 3. Runs

| Run | Shows |
|---|---|
| `ota_safety` | with three faults: the stable release and its Kernel stay intact in everything a power loss can leave (`StableIntact`), U-Boot always has a Kernel (`Bootable`), LinkG runs the selected release with its Web files on its Kernel (`RunsSelected`), an unproven Kernel runs with fallback armed (`TrialProtected`); and the invariant of the proof, which includes types and the exclusion of preparation and install |
| `ota_liveness` | faults that do not split a rename from its sync: LinkG always comes back (`AppReturns`), trials end (`TrialEnds`), nobody writes under a running install (`InstallerOwnsJson`) |
| `ota_rollback_stuck` | finding: `RollbackCompletes` fails when the sync of the testing phase fails |
| `sup_safety` | the record of the child agrees with the process, so that none is left behind, and each candidate is started once, whenever LinkG installs it (`ProcessInv`); one child at a time, a candidate is confirmed after a full window only, healthy children are kept, the failure count is forgotten only after a stable run, messages cannot stretch a deadline |
| `sup_liveness` | hung children are removed, SIGTERM ends the Supervisor, LinkG is started again |
| `app_main` | under any two failures, whatever is left running keeps all that was brought up before it (`LayersHold`); reset happens in silence; no request is lost; cleanup ends |
| `app_reboot_lost` | finding: a reboot requested while services restart is discarded |
| `reorder_safety` | one deliverer for a class, in order, slots sound, nothing dropped for a full window, silence after a reset |
| `reorder_liveness` | two classes: cached frames leave by timeout, no wake-up is lost, receive threads come back, unregistering ends |
| `transport_tx` | a number names one frame (`NumberNamesOneFrame`), links see streams in order (`LinksSeeOrder`), no frame goes out between the reset of a Peer and its next life (`QuietWhileReset`), and locks never block everybody (`NobodyStuck`) |
| `fragments` | references are exact (`RefsExact`), no half outlives its Peer's life (`NoOldEntries`), losses are counted exactly (`LossExact`), and the receiver implements `PacketChannel` (`ChannelSpec`) |
| `plan_sync` | CONFIRMED means that the AP has applied that message and the STA uses its plan (`ConfirmedAgree`; the AP may have changed its own plan since), an older plan never comes back (`AppliedInOrder`), every sync ends and is reported (`SyncReported`) |

`CHECK_DEADLOCK FALSE` stands where the system may stop: the Supervisor and LinkG
exit, and the transport runs have a bounded number of frames and epochs. The OTA
runs check deadlock.

Every property of a passing run has a mutant in `PROJECT.json`: an alternative
definition, kept next to the real one in the module and marked as mutant, that
makes TLC find the property violated.

### Fairness

* `Ota`: weak fairness of the Supervisor, of an install that has begun, of
  `fw_setenv`, U-Boot and the processes' own progress. Faults are bounded, so
  every behaviour is free of them in the end. Starting an install is not forced.
* `Supervise`: weak fairness of the clock, of the single thread of the
  Supervisor and of the heartbeat thread; and errors of system calls and of
  release transactions stop at some time (`<>[][~Fails]_vars`), since a `waitpid`
  or a rollback that fails for ever is retried for ever by design. This also sets
  aside the rollback that is refused for ever: finding 1.
* `AppMain`: main and requesting threads run. An accepted task ends in a request
  or gives up: stops join their threads without a time limit.
* `Reorder`: threads run when they are not blocked, handlers return, time passes.
  Links need not receive. The enabling conditions are spelled out (`RxReady`,
  `WorkerReady`); weak fairness suffices because the number of receives and
  resets is bounded, so that nobody can starve a thread of the lock for ever.
* `PlanSync`: strong fairness of the STA's due timer and of handing out a result.
  One turn of the Switch worker handles at most one queue of events (64), then
  calls `linkg_switch_plan_process` and then takes the result, so events cannot keep
  it from either. Nothing is assumed of the network, the AP or Discovery.

## 4. Findings

1. **A rollback can be stuck** (`supervisor_release.c:260`). If the directory sync
   of the testing phase fails after its rename, the Supervisor's snapshot stays
   behind the file. Should the candidate fail, each rollback attempt is refused
   with `-ESTALE`, and no LinkG is started until the Supervisor restarts.
2. **A reboot request can be lost** (`linkg_main.c:1299`). REBOOT_SYSTEM raised
   during the cleanup of a service restart is cleared by the reset. An install
   then stays in phase rebooting until the next boot.

Smaller ones have no run of their own. A retry can overwrite an install
(`supervisor_release.c:374`): after a failed directory sync in
`supervisor_release_running` the retry compares with the old snapshot; a new
install that reaches the same phase makes the comparison succeed, and the
install's state is overwritten. TLC shows it for `InstallerOwnsJson` when
`SyncFaults` is set to TRUE in `OtaLiveness.cfg`; `StableIntact` still holds. A
relayed packet can be torn by a reset, as described under Fragments.

Documents and comments that say something else than the code, which the models follow:

* `05-M05-Transport传输协议.md`, line 346 (“把当前 Peer 的发送 Sequence 和接收 Window
  清零”) and line 749 (“Sequence / RX Window重置”): a reset of a Peer zeroes its
  sending numbers and its receive window. The code clears the receive window, but
  `linkg_transport_reset_peer` restores the sending numbers (`linkg_transport.c:796`,
  reason at lines 22-27: the other end may still have its window). `NumberNamesOneFrame` and
  `LinksSeeOrder` hold of the code and not of the document: the mutant
  `RestoredNever`, which is what the document says, violates `LinksSeeOrder`.
* `linkg_main.c:505` has Discovery enter the running state after Switch, Probe and
  DHCP. The calls, the brief at line 405 and the comments of Probe and UDHCP below
  have it after Switch and before Probe and UDHCP.
* `linkg_main.c:439-442` says that a started flag means that the module's start was
  entered, so that cleanup stops it. Of diagnostic and upgrade the flag is set after
  the call. This does no harm: their start leaves nothing when it fails.

## 5. Proofs

Proved by TLAPS for all values of the constants that satisfy the assumptions
named in the modules (`OtaAssumption`, `BootLimitAssumption`,
`SuperviseAssumption`, `AppAssumption`, `TxAssumption`, `PlanSyncAssumption`; for
`Reorder` `WindowAssumption`, `QueueAssumption`, `ReorderAssumption`; for `Fragments`
`FragmentsAssumption`, `NoneAssumption`, `CacheAssumption`, `WindowAssumption`). Three
theorems about time, one about OTA and one about losses have a further hypothesis,
named below.

**OTA** (`OtaProofs`). `TypeCorrect`: `Spec => []TypeOK`.
`InvariantHolds`: `Spec => []OtaInvariant`, from which the properties follow. The
invariant has three layers.

* For `StableSurvives` and `LeaseIsExclusive`. `StableIntact` is not inductive: a
  confirmation writes a new stable release, and what justifies it is evidence
  collected earlier, perhaps before a crash. The invariant says where this
  evidence can be. `EnvEvidence`: an ENV, present or about to be written by a
  running tool, whose stable slot is the candidate's own Kernel means that the
  candidate passed. `TrialKnown`: what the Supervisor's snapshot of a candidate has
  to do with the JSON. `Agreement`: the snapshots that a missing sync left side by
  side name the same Kernels. `WritingSafe`: while an install writes there is one
  stable release and no candidate. `Reasons` and `RollbackKnown`: which caller is
  behind a shared routine, and that a half-done rollback keeps installs out.
* For `AlwaysBootable`, `AlwaysRunsSelected` and `TrialAlwaysProtected`. `Powered`:
  the running Kernel is one U-Boot could start. `InstallReady`: no ENV selects the
  slot an install writes to, and what it is about to make the candidate is
  complete. `CandidateComplete`: so is every candidate a power loss may leave in
  the JSON. `Chosen`: what the Supervisor starts was checked against the running
  Kernel, the links follow it one after the other, and no late `fw_setenv` disarms a
  trial. `Hosted`: an Upgrade worker has a process to run in.
* For `InstallerAlwaysOwnsJson`, with the hypothesis `SyncFaults = FALSE`. With
  failed directory syncs the property is false, see section 4. `RecordPending`: a
  Supervisor that still has to record the end of an upgrade has read the JSON as it
  is, and its unsettled phase keeps installs out.

The proof has a lemma for each group of actions and one step for each conjunct.

**Supervisor process** (`SuperviseProofs`). `ProcessInvHolds`, `ExitsAloneHolds`,
`CandidateOnce`, `OneChildHolds`. `ProcessInv` ties the remembered pid to the
process and each control state to whether there is one, and says that a candidate,
be it the Supervisor's or that of the JSON, which was tried is being watched, owed a
rollback, or abandoned to an exit; a candidate of the JSON that the Supervisor does
not know yet was not tried; and one that an installer has replaced is not started
again either. `CandidateOnce` and the action property `OneChild` follow from it.

`AttemptAlwaysBounded` needs only that the Supervisor's deadline and the time
since the attempt began move together. The other three properties compare two
clocks, the Supervisor's and LinkG's, over a pipe that the one fills and the other
empties late. Each rests on the previous one's invariant:

* `Talk`: what is in the pipe and in the batch that was read is a sequence of
  messages the protocol allows from the Supervisor's state on, and it ends in the
  state LinkG is in.
* `HealthyAlwaysKept`: `Prompt`, how much of its window a RUNNING child can have
  lost with nothing under way, and with a message under way. Hypothesis `Punctual`:
  the heartbeat window exceeds a beat and two of the Supervisor's delays (4000 ms
  against 1000 ms + 2 * 100 ms).
* `BackoffForgetsHolds`: `Room` (as many beats in the pipe as there was time for
  since it was last emptied), `Full`, and `Credit` (the Supervisor's count of stable
  time is one that LinkG served, but for its delay). Further hypothesis `Roomy`: the
  pipe has room for the beats of one delay (64 KiB).
* `ConfirmEarnedHolds`: `Fresh` (a RESTARTING in the pipe belongs to a restart that
  is still going on) and `Trial` (a confirmation belongs to one RUN with a full
  window). Further hypothesis `SlowRestart`: a restart of all services takes longer
  than the Supervisor's delay (seconds against 100 ms); without it the property is
  false, see the Supervisor process in section 2.

`SuperviseSafety.cfg` satisfies all three.

**Main** (`AppMainProofs`). `AppInvariant`, `LayersAlwaysHold`, `ResetAlwaysQuiet`,
for any number of failing calls. `AppInv`: what is initialized is a prefix of
`InitOrder`, what is flagged as started a prefix of `StartOrder`, of
lengths that fit main's place in its sequence of calls; what really runs (`open`) is
that prefix or the prefix without its last module, so nothing runs without a
flag; and a thread that is not idle belongs to a started module. It rests on
`FlaggedFirst` and `AllOrNothing` (a start that may fail half way has its flag set) and
on the two orders of cleanup being the reverses of the other two (`Reversed`).

**Transport send** (`TransportTxProofs`). `TxInvariant`, `TxTypes`,
`OneFramePerNumber`, `LinksInOrder`, `ResetIsQuiet`, `LocksNeverCycle`, for any number
of threads, nodes, slots, classes and links. That a number names one frame is not inductive: a
counter may go down, when a chunk is taken back or a slot is given to another
node. `TxInv` bounds what is on the wire of a stream by the counter that is in
force for it: the slot's, or the saved one while there is no slot; and for a chunk
under way by what its sender has seen accepted, so that taking back is safe
exactly when nothing was. It also says who holds which lock at which step, and
that a node has one slot.

`LocksNeverCycle` is `NobodyStuck` with the guards of the steps in place of ENABLED:
a sender past its class lock can go on, a sender before it if that lock is free, a
drain if the next class lock is free or it has them all, a reset that has cleared the
caches if `g_transport.lock` is free. It needs the converse of what `TxInv` says of
locks, `Holders`: a lock that is taken has a user who still works under it, so none
is left behind by a failed encoding or a finished reset. A sender that waits in
`LockOrder` then waits for another sender past its lock, or for a drain of the same
slot; and a drain excludes every sender that waits, because both hold
`g_transport.lock`.

**Reorder** (`ReorderProofs`). `ReorderInvariant`, `SlotsAlwaysSound`,
`OneDelivererAlways`, `ResetIsAlwaysQuiet`, and the action properties
`DeliveredInOrderHolds` and `FramesKeptHolds`, for any number of receive threads,
classes, chunks and epochs, any window and any sequence number to start from. None of
the properties is inductive; all come from one invariant, `ReorderInv`.

* *Places.* A queue is seen by `Pos`, the place in the order of sending of the frame
  it expects, so numbers and their wrap appear only in the lemmas about places.
  `QueueOk`: a cached frame is of the queue's life, at its slot, and between `Pos` and
  `Pos + Window`. `ReorderAssumption` keeps `MaxN` below half of `SeqCount`: a link may
  delay a frame for as long as it likes in the model, and a frame that is overtaken by
  half a lap is one the code's comparison takes for new. A window of `Window` slots
  divides the ring (`QueueAssumption`); the code has 64 and 2^32.
* *Deliverers.* `Carried`: what a thread has taken out of a queue is behind `Pos`, and
  the queue says that this thread delivers it; a busy queue has such frames.
  `Control` says where a thread can be with frames in hand, so that `READY` frames of a
  chunk are still completed after the frames of a pressure group.
* *Lives.* `Parity`, `QueuesAged`, `TodoBegun`, `TodoOne`: a queue that has begun is of
  the life that goes on, or of the last one until the reset has cleared it.
* *What was delivered.* `Delivered`: the last frame handed over is behind `Pos`, and
  before everything that is carried and not yet handed over.

Every function on a queue satisfies one relation (`Moved`: where the queue is
afterwards, what left it, what it holds), and every step of a thread or the worker
gives its frames to that thread (`Gives`); the invariant is proved once for
each relation, and each action is shown to satisfy it. The fold over the groups of
a batch is an induction on its length (`SetInduction`).

**Fragments** (`FragmentsProofs`). `FragmentsInvariant`, `ReferencesExact`,
`NoOldEntriesHolds`, `LossCountedHolds`, `LossExactHolds` and
`ReceiverImplementsChannel`, for any number of links, packets, batches, cache ways
and resets. None of the properties is inductive.

* `LifeInv` is for `NoOldEntries`: an epoch is even exactly while the Peer is
  active (`Parity`); a thread between its check of the epoch and its store keeps the
  lock of the cache (`Locked`), so that the clearing of the cache comes after the
  store; entries, and fragments about to be stored, are of this life, or of the
  last one in a cache that is still to be cleared (`EntriesAged`, `StoresAged`).
* `RefInv` is for `RefsExact`. `Stages`: how far a call has come and what it still
  has before it; a batch has no frame twice. `Exclusive`: a buffer is in one cache
  entry, or owned by one thread, or still to be stored by the thread of its link,
  and what arrived once does not arrive again. `Counts` is the property itself,
  restated over that partition: one reference for the link, one for the one place.
  Without `Exclusive` a buffer that is in an entry and in a batch would need two
  references that nobody took.
* `Counting` is for the losses. It ties the window to `passed`: the newest number is
  the largest that passed, a bit is set exactly for a number that passed, and `lost`
  counts what is missing from the place where counting started. The batch that opens
  the window starts it at the earliest number it holds within the reorder window of
  its first (`_linkg_transport_rx_prepare_window_start_locked`), so the start lies less
  than `Window` before the earliest frame that passed: this is `LossCountedHolds`, for
  any batches. `LossExactHolds` says that it is that frame, with the hypothesis
  `NearBatches`: no frame of a batch comes behind one that is `WinBits` or more ahead
  of it (512 in the code, where a link receives 32 frames at a time by default). The
  batches of the run satisfy it. Without it an earliest frame may be found by the
  start and then come behind the window and be dropped as stale.
* `Accounted` is for the refinement. While the Peer is active every frame of its life
  that passed the window is in at most one of three places: a cache entry of this
  life, the call of one thread that began in this life, or `got`. Together with
  `Counting`, by which a number passes once in a life, nothing can be handed on
  twice. `Accounted` also says that what a call will hand up is whole packets, from
  their own two frames, and that it still has FIRST before LAST of a packet to relay
  (`Clean`, `Ordered`). Calls of an earlier life need none of this: they find that
  the epoch has moved on, and `EpochsKnown` says that it never comes back. Each
  action is then shown to change the three places as one of a few relations allows,
  and only `FlushItem` and the life cycle map to steps of `PacketChannel`.

**Plan synchronisation** (`PlanSyncProofs`). `PlanInvariant`, `Confirmation`,
`AppliedOrder`, for any number of plans, retries, recovery rounds and queued events.
`PlanInv` adds to the types: `Numbered`, a message's number is that of its place in
the order of allocation, so that within half a lap of the counter comparing
numbers is comparing places; `Sourced`, whatever is in a queue, in the AP's record
or in work was sent, and an acknowledgement of success is of a message that was
applied; `InUse`, a sync in progress is of the plan in use. `PlanSyncAssumption`
keeps `MaxMessages` below half of `IdCount`: beyond that the code's comparison
itself is ambiguous.

Only model-checked, and why:

* every liveness property: fairness is out of the prover's reach, and with it the
  refinement of anything that is promised to happen in the end;
* `NobodyStuck` of `TransportTx` as it stands, which says ENABLED; the lock guards it
  comes down to are proved as `LocksNeverCycle`.

## 6. Not modelled

See `components` in `PROJECT.json`. Within modelled parts: reading, checking
and unpacking packages, `upgrade_system.c`; JSON text; diagnosis records; several
Peers at the receiving side, endpoint learning, statistics, start and stop of the
runtimes and re-entry from a handler in Transport; fragments of one packet that
contradict each other (`transport_reassembly.c:508-558`, `transport_forward.c:353-357`:
the entry is dropped); of the Switch everything but
plan synchronisation; what the modules named in `AppMain` do. Two threads that
both deliver one class and both need the other's: the chunks of `reorder_liveness`
are too short for it. Device drivers, kernel modules, the MCU, Web pages, UART and vendored
code depend on hardware or contain no protocol of their own.

## 7. Plan

Order of the remaining work, most important first:

1. `Switch`: operations, maintenance and reports between two ends, on top of
   `PlanSync`; both ends agree in the end, traffic is never sent on a Path that
   neither end has verified.
2. `Fragments` and `Reorder` composed with `TransportTx`: what a handler is given is
   what was sent, in order, through both ends.
3. Packet pool and Node/Path references: allocation, batches, the end of the pool.
4. `Probe`: late answers against timeouts, sequence reuse, loss windows.
5. `Discovery`: ageing, topology generations, order of registration in Transport,
   Node and Route; the restart of a session that `PlanSync` leaves out.
6. `Scheduler` and the dial state machine of the cellular module.
7. Proofs: the composition of 2 from `TxInvariant` and `ReceiverImplementsChannel`, which
   needs the numbers on the wire and those the window accepts in one model.
