# TLA+ verification of apple-t2-touchid-windows

This directory models the drivers that make the Touch ID sensor of a Mac with a
T2 chip usable from Windows, checks the models with TLC and proves theorems
about them with TLAPS. It is read beside the code in `../src`; every definition
that stands for code is listed, with its lines, under `map` in `PROJECT.json`.

## 1. The system

```
 Windows Biometric Framework      NDIS / TCP-IP            user
        |                              |                    |
  [Engine adapter]               [T2NCM.sys]          [SEP vault GUI]
        |                              |                    |
  [T2TouchIdBio UMDF driver] --TCP/IPv6--> bridgeOS         |
        |   ^      (BridgeXpc, Discovery, BiometricKit)     |
        |   | status IOCTL                                  |
        |  [T2TouchIdTransport.sys] <---- [T2SepBootstrap service]
        |        |  mailbox + OOL DMA
        +-- registry/report         the SEP (secure enclave)
```

At boot the service opens the transport, which tells the SEP the addresses of
two DMA buffers and exchanges AppleKeyStore messages with it. Once the service
has reported success, the sensor driver answers capture requests of Windows by
running a BiometricKit session over the network link that T2NCM provides.

| Component | State it keeps | Operations | What makes it correct | Model |
|---|---|---|---|---|
| T2TouchIdTransport (`device.c`, `mailbox.c`, `akstore.c`, `dma.c`) | transport lifecycle, OOL buffers and what the SEP knows of them, transaction counter, BAR4 mapping, ExchangeLock | PrepareHardware, D0Entry/D0Exit, ReleaseHardware, GET_STATUS, REGISTER_OOL, AKS_EXCHANGE, bootstrap status pair | one exchange at a time; memory the SEP may write is never freed; an unusable transport stays unusable; a reply belongs to its request; no call hangs | `T2Transport`, `T2TransportProofs`; the status pair in `T2Bootstrap` |
| T2TouchIdBio capture (`umdf/Queue.cpp`) | capture slot, per-request CancelTrack, cancel and resume events, generation, commit mutex, match replay, display and shutdown gates | CAPTURE_DATA worker, WDF cancel callback, suspend/resume, session and display messages, purge, I/O stop, unload | each request completed once; one session at a time; no touch from before a lock or sleep unlocks; sleep ends nothing; everything drains | `T2BioCapture`, `T2BioCaptureProofs` |
| T2NCM (`NdisMiniport.c`, `NcmRx.c`, `NcmTx.c`, `Power.c`, `device.c`) | device context and lifecycle, data-path gate, pipes, receive runs and orphans, write accounting, reset bookkeeping | Initialize, Restart, Pause, Halt, power OIDs, surprise removal, CheckForHang, Reset and its work item, read and write completions, sends | a run is freed exactly when nobody uses it; nothing of an orphan touches the device; the read engine has one caller; a paused adapter is silent; only what really failed asks for a reset | `T2Ncm`, `T2NcmProofs` |
| BiometricKit engine (`VerificationEngine.cpp`, `MatchResult.cpp`, `Commands.cpp`) | session ordinals, live-touch evidence, the identity lists read; across sessions the observed ordinal (`Queue.cpp`) | ready sequence, Verify, Cancel, attestation | only a touch of this session matches, once, for an identity enrolled throughout | `T2Verify`, `T2VerifyProofs` |
| BridgeXpc connection (`Connection.cpp`) | socket, pending events, connectionLost; an I/O mutex with one user, since only the verify worker owns a Connection | Connect, SendBiometricCommand, WaitForEvent, Disconnect | a reply reaches its command, retained events come first and in order | `T2Verify`, without connect and framing |
| SEP bootstrap (`T2SepBootstrapService.cpp`, its exchanges in `AppleKeyStore/Client.cpp`, the reader in `umdf/Queue.cpp`) | service status, stop and lock events, pump, lock watcher, the ready event; in the transport the bootstrap status; in the sensor driver its cached copy | wait for the device, one-shot sequence, report, control handler, lock requests, readiness check | READY means unlocked; an outcome is reported; starts and stops end; lock requests are served | `T2Bootstrap`, `T2BootstrapProofs` |
| Engine adapter (`T2TouchIdEngineAdapter.cpp`) | per pipeline the sample and the enrollment; the framework's storage | every entry point of the engine interface | a sample authorises one thing, a touch a sign-in, a confirmation a record; sleep forgets | `T2Consent`, `T2Engine`, `T2ConsentProofs`, `T2EngineProofs` |
| Discovery and transport mode (`BridgeDiscovery.cpp`, `Adapter.cpp`, `PortScan.cpp`, `PortCache.cpp`, `NativeVerdict.h`, `TransportMode.h`, `T2NCM/driver/Tunnel.c`) | in driver memory the mode and the sticky flag; per process their copies; port cache, scan state, path verdicts | connect attempt: gate, cached port, scan, connect, phase and restore, native and tunnel step; resume, unlock, restart | the driver is left in the committed mode; the tunnel is earned; a usable path is found | `T2Discovery`, `T2DiscoveryProofs` |
| NTB parser and NCM control (`NcmProtocol.c`, part of `NcmRx.c`) | none (pure) | parse a received block | stays inside the block | not modelled: see 5 |
| Framing, plist, WBDI layouts | none | encode and decode | byte layout | not modelled; what the engine adapter reads of a BIR is in `T2Engine` |
| SEP vault GUI, tests, installers, control stub, co-installer; the command-line tool but for its connect | - | - | - | not modelled: sequential user interface, test code, scripts, pass-through I/O |

### What is hard in it

* **Interleavings.** Queue.cpp runs a worker per request, a cancel callback per
  request and three notification threads over one set of Win32 events. NcmRx.c
  has no lock: it relies on reference counts and on a flush of the work item.
  The transport has one lock, and three places that read before taking it.
* **Memory others write to.** The SEP keeps DMA addresses for the whole boot,
  across driver reloads; the USB stack may keep a read for ever.
* **Failure in the middle.** A registration is two messages, and a reply may be
  lost after the SEP has acted on the request.
* **Matching.** Mailbox replies are matched by a tag or by an 8-bit number.
* **Sleep and lock** must end a session without ending the request behind it.
* **State that outlives its owner**: the mode and the sticky flag live in driver
  memory and survive the process that set them; the SEP stays unlocked when the
  service that unlocked it is gone.
* **Bounded waits** in most places, whose expiry races what they wait for, and a
  few without a bound: the connect of a capture, the stop of a USB target.

`PROJECT.json` lists each hazard with its line and the properties aimed at it.

## 2. Modules

Each component is one module that EXTENDS only standard modules, an `MC...`
module where the configuration needs a symmetry set or model values of its own,
and `.cfg` files. `T2Engine`
also instantiates `T2Consent`, the abstract specification it implements. There
is no RECURSIVE operator, so every module can be proved about. Operators
commented `Mutant:` are plausible bugs: variants of a definition that the
specification does not use, each of which makes one property fail (`mutants` in
`PROJECT.json`).

How the modules compose: T2Bootstrap contains the status that T2Transport's
device keeps and the readiness check with which T2BioCapture's requests begin;
T2BioCapture's `Verify` is the session of T2Verify; T2Discovery is how that
session gets its connection, through the driver of T2Ncm; T2Engine receives what
T2BioCapture completes. The shared part is small (a status, a verdict, a mode, a
payload), so each module keeps the other side as a nondeterministic environment
instead of building the product.

### T2Transport

Two threads share the device context: the request at the head of the sequential
IOCTL queue (`ioPc`) and the framework's PnP/power thread (`pnp`). A step is
what one thread does between two points where the other can interfere: taking
or releasing `ExchangeLock`, an MMIO access, an access outside the lock.

* `state, inReg, outReg, mayKnow, inBuf, outBuf, pinned*, nextTxn, barMapped`
  are the fields of `T2_DEVICE_CONTEXT`; `live, freed, refs` is host memory;
  `outbox, sepQ, inbox` is the mailbox, `sepIn, sepOut, known` what the SEP was
  told. The SEP is the environment (external): it may answer late, refuse,
  interject messages of another endpoint, or keep silent.
* `AksArrives ... AksCompletes` is the IOCTL path of `akstore.c` and
  `device.c`; `RegisterStarts, SetOol*` is REGISTER_OOL with `dma.c`;
  `GetStatus*` reads the lock-free status with its two locked reads;
  `PrepareHardware*, D0Entry*, D0Exit, ReleaseHardware*, DeviceDeleted,
  DeviceAdd` are the callbacks; `PowerDown/PowerUp` what the PCI function
  loses.
* An AKS message carries its 8-bit number and its *age*, how many numbers ago
  it was drawn: the age decides whether a reply is the request's own. Numbers
  wrap at `TxnMod` (256 in the code, 3 in the runs).
* `AckReleases` chooses between the two readings of what WDF does with a
  request that `EvtIoStop` has acknowledged (`device.c` 485): TRUE lets power and removal
  callbacks overtake it (the code permits it), FALSE makes them wait.
  `ResumeMayFail` lets `D0Entry` find a dead mailbox. FALSE is in neither case
  ensured by the code. `SepKnownNeverFreed` needs both and says so; a property
  that FALSE would make trivial is kept only as a finding, where it fails.

### T2BioCapture

Every request has a worker (`pc`) and, once cancelled, a callback (`cb`); the
actors `power`, `window` and `pnp` are the threads that invalidate captures. A
step is what a thread does between two shared accesses another one can
separate; all waits are polled, as in the code (a second at most).

* `owner, alive` is the `CancelTrack` on the worker's stack; `slot` is
  `CaptureBusyGuard`; `mu` is `g_captureRequestCommitMu`; `generation,
  cancelEvent, resumeEvent, replay` are the globals; `sleepBarrier, grace` the
  display gates.
* `Arrive, Refuse` are the dispatch thread, which completes what it refuses
  itself: a bootstrap that has not succeeded, an unload, a thread that cannot be
  created (`"noThread"`). `Admit ... Leave` follow the worker from there to the end
  of the capture (a purpose that is neither verify nor enroll, `"other"`, is turned
  down once the slot is taken); `Cb*` is `EvtCaptureCancel`; `InvalidateResume,
  InvalidateGeneration, InvalidateCancel` are the three stores of
  `InvalidateCaptures` in their order; `Join` is the drain at unload.
* `Connect` is `ConnectForCaptureWithRetry`, which tries again without a limit
  until the T2 answers (`reachable`, which comes and goes with `"net"`) or the
  cancel event is set.
* A BiometricKit session is one step that returns a verdict from `Verdicts`;
  the ghosts `staleTouch, staleReplay` remember whether its touch predates a
  boundary (a suspend or a lock).

### T2Ncm

Two threads call the read engine: the one NDIS makes callbacks on (`ndis`) and
the recovery work item (`work`). Completions run on any CPU (`cpu`) and may
outlive the device context; a sender (`snd`) runs at dispatch level.

* `run[r]` is a `T2NCM_RX_RUN` (references, InCompletion, Orphaned) plus `out`,
  the reads the USB stack holds; `orphans` is `g_T2NcmRxOrphanedRuns`; `gate`
  is `DataPathRunning`; `lc` the lifecycle state.
* `StopEnters ... StartEnds` is the engine (`T2NcmRxStop`,
  `T2NcmRxTeardownReads`, `T2NcmRxStart`, `T2NcmRxSubmitRead`) executed by
  either thread; `TearStops` and `RecoveryCancels` are the two places where it is
  inside `WdfIoTargetStop`, of the bulk-IN and of the bulk-OUT target; `ReadReturns ... Leaves` is `T2NcmEvtRxReadComplete`, one step
  per access to state another party writes.
* `InitializeEx, Restart*, PauseBegins, Flushed, Drains, PauseEnds, Halt*,
  Powers*, Removed` are the NDIS callbacks; `CheckForHang, ResetEx, WorkStarts,
  Recovery*, ResetCompletes` the recovery; `Send*, WriteCompletes` the writes.

Simplifications: a write completion is one step; at Halt `outTx` and `rxNbls`
are reset with the context, so a write completion that arrives after a Halt
whose drain timed out is not modelled. `WdfIoTargetStop` of the bulk-IN target may
return with reads still out (that is what orphans are for) or wait for them; that
of the bulk-OUT target waits for the writes it found (`HeldWrites`), as `NcmTx.c`
795, 810 and 858 say. The synchronous pipe resets and control requests of a
recovery return. OID requests other than power, the
packet filter work item and statistics are left out.

### T2Verify

One worker (`pc`, `cmd`) runs `VerificationEngine::Verify` on a `Connection` it
owns alone, again and again as the capture loop of `Queue.cpp` does. What
interleaves with it is the T2 and the world: touches, images that are still
being processed, replies and events on the wire, a lost connection, the cancel
event, changed enrolments.

* `pending, wire, reqs, last, conn` is the `Connection` and the TCP stream;
  `barrier, finger, captured, imageTs, highest` the evidence of `Verify`; `snap`
  its six identity lists; `mark, forceLong` the globals of `Queue.cpp`.
* `Send, Read*` is one command (`SendBiometricCommand`,
  `ReadUntilMatchingReply`); `LongPlan` and `Follower` order the commands, `Fails`
  and `Succeeds` say what each outcome means at each command. `Deliver*,
  LoopEnds` is `WaitForEvent`, `Handle*` the body of the match loop, `Finish`
  what `Queue.cpp` does with the verdict.
* Time is the T2's ordinal. An image is known by the ordinal of its capture.
  The T2 (external) finishes an image it has, whatever was cancelled, and keeps
  events nobody acknowledged for the next connection. The status 95 that tells when
  an image was taken (`Accepts`) and the result (`Judges`) are events of their own,
  and the first may never come; `noted` is the image it was sent for.
* `MaxUnread` bounds the frames on their way to the driver.
* `ArmIsKept` says whether that may include the status 90 that announces the
  arming of an earlier session. `shotAt` is the last image taken since this
  session's StartMatch armed the sensor.
* At the end of the match loop the model forgets what nobody reads again: the
  evidence and the events left in `pendingEvents_`.

Left out: bodies that do not parse (the code keeps waiting), the frame parser,
connect and HELO, and the deadline that passes while a frame is there.

### T2Consent and T2Engine

`T2Consent` is what the header of `T2TouchIdEngineAdapter.cpp` promises, without
callbacks: a sample is a ticket, a ticket of a touch may be spent on one match,
one of a confirmation on one pledge, and the pledge on one enrolled record.

`T2Engine` has one action per entry point of the engine interface, the ones that
only answer included. Calls come in any order, as the framework decides it;
`storage` belongs to the framework and changes under the adapter; a storage call
may fail anywhere (`Walks`, `RecordSets`). `sample, enroll` are the fields of
the pipeline's context. `Held, Pledged, GrantTickets` is the refinement mapping,
`ImplementsConsent` the statement. NULL arguments and the layout of a BIR are
left out; that a BIR is malformed is the choice `ours`.

### T2Bootstrap

One boot: the service process (`main` is `ServiceMain` with its sequence,
`handler` the control handler, `pump` the START_PENDING pump, `watcher` the lock
watcher), the status in the transport device, and the sensor driver that reads
it (`CheckSepReady`, `StoreSepReady`: two steps, as the answer is read in one
process and cached in another). A step is what a thread does between two shared
accesses; `SetServiceStatus` sends whatever `gStatus` holds by then, and the
handler writes it twice, so the stores and the calls are separate steps.

* An exchange may succeed, be refused, or be carried out by the SEP with its
  reply lost. `sep` is what the SEP has carried out in this boot.
* The process may crash, the transport may be removed and come back, any Win32
  call that creates something may fail, and so may the registration of the control
  handler (`RegisterFails`; both `"api"`): `ServiceMain` then returns with the
  service at START_PENDING, and nobody left to change that.
* A control may arrive as soon as the handler is registered, since STOP and
  SHUTDOWN are accepted from START_PENDING on. `LockRequestsServed` counts a
  request as served when the watcher takes it (`Taken`); that a stop closes the event
  under it is no service. `StartsAndStopsEnd` is asked of a start whose handler was
  registered, and of a control that comes once `gStatus` says RUNNING. Of the 5 s
  `ServiceMain` gives the watcher before it closes the events, a watcher that waits
  is taken to need less, one that is locking a session perhaps more. Left out: the
  service manager's own time-outs, the vault format, and a SEP that relocks by
  itself.

### T2Discovery

The sensor driver's connect attempt (`att`) among everything that changes around
it: the network and the T2 (`net`), the AutoSwitch setting, unlock, suspend and
resume, cancellation, restarts of WUDFHost, reloads of T2Ncm.sys, failing IOCTLs,
and the command-line tool, which connects through the same header from a process
of its own.

* `driver` is the memory of T2Ncm.sys, `mem[p]` what process p holds of it
  (`LastPushedModeFlag`, the copy of the sticky flag, whether that was seeded).
  The operators `Push, Seeded, PushSticky, CommitAutoTunnel` of TransportMode.h
  are functions on the record that joins the two (`View`, `Become`). `owed` remembers
  that the request that ends a phase failed, was withheld because the machine
  sleeps, or died with the process.
* `Gate, Pick, Enter, TryCachedBridgePort, ScanCools, ScanFinds, ScanFails,
  ConnectFoundPort, Restore, Connected, Continue, GiveUp` follow the attempt; a
  step of it is one exchange with the driver or the network.
* `scan[t]` is the resumable scan of each transport (cursor, cool-down,
  candidate), `seen` the verdicts of this generation, `streak` the path silence.
* What a socket sees (`Dial`) depends on the network, on the mode the driver is
  really in, and on the port: a native connect through a driver in tunnel mode
  is silent, which is how a wrong mode shows.

Simplifications: the T2 keeps its address (a changed one starts a new generation,
`Adapter.cpp` 468; so does a reload of T2Ncm.sys, which is modelled); ARP and peer
publishing succeed, so a preparation fails by the request for the mode alone; the deadline of a scan may
strike anywhere (`Claims`); the probe of a candidate does not time out; suspend
is one step, since no attempt fits between its stores; `Start` waits for
resume; the connect mutex is uncontended, since its other users do not take it.
The setting, the network and the tool's calls are external events.

## 3. Runs

`tlc -workers 2 -config X.cfg M` in this directory. Every run but the liveness
ones checks safety without fairness. `CHECK_DEADLOCK FALSE` is set for T2BioCapture,
T2Ncm, T2Verify, T2Bootstrap and T2Discovery because their systems really stop: all requests
are answered and the boundaries used up, the context is gone for good, the sessions are over,
the service is not started again, or the bridge is connected and nothing more happens.

| Run | Module | Bounds | Question |
|---|---|---|---|
| `transport_all` | MCT2Transport | 1 context, 2 buffers, 2 skips, 1 message in flight each way, resume may fail, callbacks may overtake | what holds in every environment, and that a silent or babbling SEP blocks nobody |
| `transport_orderly` | MCT2Transport | 2 contexts, 2 messages each way, resume succeeds, callbacks wait | that memory the SEP knows outlives removal and a second context, and what Ready says in the first |
| `capture_sleep` | MCT2BioCapture | 2 verify requests, 2 boundaries (suspend, lock, display-off) | one completion, one session, no stale Match |
| `capture_pairs` | MCT2BioCapture | 3 requests of any purpose, threads that may not start, 1 boundary | the replay of the WBF pair, late bootstrap, I/O stop, shutdown, unload |
| `capture_live` | MCT2BioCapture | 1 verify or enroll request, 2 boundaries (suspend, display-off, shutdown, unload), a T2 that comes and goes; a session ends in a transport error | sleep alone ends no request; waits, cancels, shutdown and unload end, as far as the T2 lets them |
| `capture_deadlock` | MCT2BioCapture | 1 request, 1 cancel, Match | expected violation, see Findings |
| `ncm` | MCT2Ncm | 3 runs of 2 reads, 2 CPUs, 2 orphans, 1 frame up | references, orphans, silence, exclusion, no false alarm |
| `ncm_live` | MCT2Ncm | 1 run of 1 read, 1 CPU, 1 write | callbacks and resets end, unless the stop of a USB target does not |
| `verify` | T2Verify | 2 sessions, 2 incidents (touches, faults, enrolment changes), 2 unread frames, 2 identities of which 1 foreign, short verify | what a Match proves |
| `engine` | MCT2Engine | 1 pipeline, 2 users, 2 accounts, 1 finger, 2 samples, 2 records, failing storage | refinement of `T2Consent`; sleep and a new enrollment forget |
| `bootstrap` | T2Bootstrap | 2 starts, 1 retry, 2 incidents (control, crash, removal, failing call) | READY is true; outcomes, starts, stops and lock requests |
| `discovery` | T2Discovery | 2 ports, grace of 1, 3 events of any of 9 kinds, any number of attempts | committed mode after a phase that could say so, earned tunnel, cause of a commitment, a path is found |

Why the bounds suffice. The third buffer of a transport context appears only
after a failed or second registration, the fourth completes that pair, and a
second context is the first that can meet what the SEP remembers: that is
`transport_orderly`. `transport_all` stays with one pair, so that liveness can be
checked with it; its safety properties are proved for every number of buffers
(section 4). `TxnMod = 3`
leaves two numbers, so that a number comes round while an old reply is still in
the FIFO. Two requests are needed for a busy slot, three for a replay that is
consumed by the wrong capture. What `capture_live` asks depends on the events
around one request, so it has one, and its only verdict is the transport error,
after which a verify tries again; a lock, which ends a capture like a display-off,
is in `capture_sleep`. Two CPUs are needed for a completion that
overtakes another, and two reads for a run that is partly withdrawn; three runs
are two orphans (the bound) and a live one. An image that outlives its session
needs two sessions; that it be taken for the touch of the second needs two
touches, which are two incidents; an identity removed behind a verdict is a
touch and a change. Two unread frames (`MaxUnread`) let an event overtake a reply;
the T2 keeps what does not fit (`backlog`), so nothing is lost by the bound. Of the set-up commands that carry no state only the reset is
kept (`SetUp`): the others differ from it in nothing but their number.
Of the engine one pipeline suffices because pipelines share only the storage,
which changes by itself anyway; two samples are needed for one that is left over
when the next operation begins, two users and two accounts for a record of
another. Two starts are the first that can find the SEP unlocked by an earlier
one, and two incidents a crash or a removal in the start that follows a stop.
In T2Discovery two ports give a scan a place to be interrupted and a service
that moves behind or ahead of the cursor; a grace of one attempt is the first
that is held and then exceeded; three events are, for example, an IPv6 outage,
its end and a failing request. `requireLiveTouchEvidence` is TRUE in the shipped driver; FALSE, its
"diagnostics" value, is there to show that the ordinal mark alone keeps a result
from being reported twice.

**Fairness.** T2Transport: the dispatch thread and a removal in progress
(`WF_vars(IoStep)`, `WF_vars(ReleaseStep)`); nothing of the SEP. T2BioCapture:
each running worker, callback and handler is scheduled, the display grace
window ends and a suspended machine resumes; nothing of the user, of the T2
(`Network` may leave it out of reach for ever, and `Connect` then goes on), or of
the sensor beyond that a session returns (its own time-outs bound it). T2Ncm: each
thread, work item and completion that has begun is scheduled; nothing of the
USB stack or NDIS, which may keep reads, writes and frames for ever - that the
bounded waits give up is part of the engine's own steps. The stop of a USB target
is not bounded: for reads it may return early or wait, which nothing relies on;
for writes it waits for what was sent before it, which a write sent during the
stop does not prolong (`SF_vars(RecoveryCancels)`). T2Bootstrap: each
thread of the service and the return of its dispatcher; nothing of the service
manager, the device or the user. T2Discovery: the thread of a capture goes on
with its attempt and retries (`GoesOn`; a new capture is up to Windows), and the
cool-down of a scan ends; nothing of the network. `Reconnects` assumes that some
transport stays usable from some point on, and that the tool, which may leave
the driver in the other mode, has not run. Threads of an
operating system are scheduled, waits have time-outs in the code: that is all
these assumptions say.

Where the code waits without a bound, the liveness properties say so.
`PendingScans` excuses a capture that connects in vain (`ConnectsInVain`).
`StopsEnd` asks that a shutdown end a verify whether or not the T2 answers, but an
enroll, and the join of an unload that may wait for one, only if it answers in
the end: `HandleCaptureEnroll` resets the cancel event after its last look at the
shutdown (`CaptureUnreachable.cfg`). `CallbacksAndResetsEnd` supposes that no
thread stays in the stop of a USB target for ever (`NcmStopWaits.cfg`).
`CancelCompletes` holds while no Match is being committed (`capture_live` has
no Match among its verdicts); with one it fails, which is the finding.
`PhaseEndsCommitted` supposes that the request that ended the last phase was
carried out (`owed`), and shows that whatever failed before, even a failed or
skipped restore, is put right by the first phase that can; without the supposition
it is `ModeIsCommitted`, which fails (`DiscoverySleep.cfg`).
`PhaseEndsCommitted`, `StickyEarned` and `CommitHasCause` except what else
changed the driver's memory (`lapses`): a reload, the tool, or a request that
was refused or withheld. `StickyEarned` cannot hold after an update the driver
never got, because the code does not repeat it (see below).

### Findings

`capture_deadlock`: `Queue.cpp` 884 says `EvtCaptureCancel` completes the
request at once. A worker that is committing a Match holds
`g_captureRequestCommitMu` until `Release()` has seen owner 3; the callback
that already claimed the track needs that mutex before it stores owner 3.

The following configurations are not part of the run list; each reproduces, in
seconds, a disagreement of the same kind between the code and its own comments.
They are kept so that a fix can be checked; one of them records an assumption instead.

| Configuration | Property | What the counterexample shows |
|---|---|---|
| TransportUnpinned.cfg | SepKnownNeverFreed | `dma.c` 120 "Keeps SEP-visible DMA memory alive for the rest of the boot": the three `Pinned` flags are per context, not per buffer, so a second pair (allocated when a resume failed) has no reference and is deleted with the device while the SEP holds its address |
| TransportUnmapped.cfg | StatusReadsMapped | `GET_STATUS` reads a BAR4 that ReleaseHardware has unmapped, if removal does not wait for an acknowledged request (`device.c` 485); if it does wait, the two never overlap and there is nothing to show |
| TransportReadyOff.cfg | ReadyOnlyInD0 | under the same reading a registration makes the transport Ready after D0Exit |
| TransportRealloc.cfg | NoSecondAllocation | after a failed resume a second pair is allocated over the first (`device.c` 612); a registration that follows no failed resume never does, as its guard says |
| TransportStaleConfirm.cfg | ReadyMeansConfirmed | a late reply to an earlier context's SET_OOL confirms this one's (`mailbox.c` 274) |
| CaptureScope.cfg | TrackOutlivesCallback | `CbNotifies` follows the store of owner 3 that lets the worker leave the scope (`Queue.cpp` 964) |
| CaptureLock.cfg | EndsAsDocumented | a lock (and a display-off) aborts a capture, though "CAPTURE ends only on Match, CancelIoEx, fatal transport, or shutdown" (`Queue.cpp` 370) |
| CaptureUnmark.cfg | UnmarkBeforeCompletion | `WdfRequestUnmarkCancelable` after the callback completed the request (1098, against 886) |
| CaptureBusy.cfg | BusyOnlyBehindLive | a request is refused as busy behind a capture that was cancelled, since one cancel event serves all (1185, against 1339) |
| CaptureReplay.cfg | NoStaleReplay | a consumed replay is delivered after the lock that should invalidate it (2031) |
| CaptureVeto.cfg | PendingScans | after a vetoed shutdown the resume event stays reset and captures wait (2994) |
| CaptureStop.cfg | PendingScans | I/O stop resets the resume event, and no EvtIoResume is registered to set it (2787) |
| CaptureAsleep.cfg | NoSessionDuringSleep | a display wait resets the cancel event that a suspend had set (1252) |
| CaptureUnreachable.cfg | ShutdownClosesCaptures | "a pending CAPTURE_DATA must NOT stay open across shutdown" (`Queue.cpp` 432); an enroll that resets the cancel event (2423) after its look at the shutdown (2391) erases the shutdown's signal and, with the T2 out of reach, connects for ever (1785) |
| NcmStuckTx.cfg | StuckTxRestartsDevice | `NdisMiniport.c` 1767 restarts the device after `T2NCM_TX_MAX_RESETS` resets without a successful write (`driver.h` 377); a received block between two resets forgives them (`NcmRx.c` 1056) |
| NcmRetired.cfg | LossIsNoticed | a read that is lost makes the hang check ask for a reset (`driver.h` 465); a resend the stack refuses retires its read and counts nothing (`NcmRx.c` 927, 943, 1066) |
| NcmStopWaits.cfg | PauseIsBounded | a write that never comes back "shows up as a logged timeout instead of a hung MiniportPause" (`NdisMiniport.c` 94); a pause whose drain has timed out then stops the bulk-OUT target, which waits for that write (`NcmTx.c` 795), as does a pause that flushes a recovery at 810 or 858 |
| VerifyArmKept.cfg | OnlyLiveTouchMatches | not a flaw but an assumption: if the T2 delivered an unacknowledged status 90 of an earlier session again, that session's image would pass for a touch of this one (`VerificationEngine.cpp` 600 takes the first 90 it sees) |
| VerifyStaleImage.cfg | MatchedImageIsLive | "and the matched image itself was captured after the barrier" (`VerificationEngine.cpp` 685); the status 95 that tells when an image was taken is optional (690), so the result of an older image is accepted if its 95 was missing or came before the barrier and a live image follows it |
| VerifyHighest.cfg | HighestCoversAcked | an event acknowledged while a command waits that then fails, or after the match loop, is not in the ordinal `VerificationEngine.h` 216 calls the highest "observed anywhere in this call" |
| EngineAmbiguous.cfg | IdentifyIsUnique | two records of one user "fail the identify instead of guessing an account" (`T2TouchIdEngineAdapter.cpp` 37); a storage error ends the walk before the second one is seen (288) |
| BootstrapRestart.cfg | OncePerBoot | a start "in this same boot session" that follows a finished one does "not touch the SEP a second time" (`T2SepBootstrapService.cpp` 219); the named event is closed with the process, so the second run repeats the sequence |
| BootstrapStop.cfg | EveryStopEnds | a STOP is accepted from START_PENDING on, but the handler finds no stop event yet (694) and `RUNNING` is written over `STOPPED` |
| DiscoveryCli.cfg | ModeIsCommitted | "on return the driver mode equals the committed mode on every path" (`BridgeDiscovery.h` 61), for "this process is the only writer" (`TransportMode.h` 1328); the tool's connect (`main.cpp` 778) falls back to the tunnel and pushes its mode from its own process |
| DiscoverySleep.cfg | ModeIsCommitted | the same line of `BridgeDiscovery.h`, for the sensor driver alone: a suspend during a phase withholds the restoring request (`TransportMode.h` 1071), resume only forgets what was pushed, and the driver stays in the mode of the phase until a later phase ends |
| NcmPause.cfg | PauseDrainsWrites | a send passes the gate, Pause drains and returns, then the write is counted and sent (`NdisMiniport.c` 1112, against `driver.h` 350) |

Seen while modelling T2Ncm, not stated as properties: `driver.h` 343 says only
Restart and Pause write `DataPathRunning`, yet Halt, surprise removal and
shutdown do too; a recovery whose `RxStart` fails leaves the gate open with no
reader (and reports the reset as failed); a failed Restart may leave an
indicated frame outstanding on a paused adapter, because the gate opens first;
Restart from `UsbReady` runs with the lifecycle still at `UsbReady`.

Seen while modelling T2Bootstrap: a transport that is removed and comes back
after the sequence has status Unknown, which `Queue.cpp` 229 reads as "still
running" or "hasn't started yet", and answers BUSY; nobody reports again until the
service is restarted; and if the control handler cannot be registered (710), the
service stays at START_PENDING. Seen while modelling T2Discovery: `BridgeDiscovery.h` 76
makes *exhausted* three empty scan passes, the code one; "pushes every change
back" (`TransportMode.h` 68) skips a push while the machine is suspended and
never repeats it; the hint of the mode last pushed is not reset when T2Ncm.sys
is reloaded; the connect mutex goes on without exclusivity after two seconds.

## 4. Proofs

`T2TransportProofs` proves, for every number of buffers, contexts, messages and
skips, under the assumptions `BufsAssumption`, `NumbersAssumption` and
`FlagsAssumption` of `T2Transport` (all evaluated by TLC in every run):

| Theorem | Statement |
|---|---|
| `TypeCorrect` | `Spec => []TypeOK` |
| `LockedExchangeAlways` | `Spec => []LockedExchange` |
| `ExposureAlwaysRecorded` | `Spec => []ExposureRecorded` |
| `FreesOnlyUnknown` | `Spec => DriverFreesOnlyUnknown` (action property) |
| `NeverResurrected` | `Spec => NoResurrection` (action property) |
| `SepMemoryOutlives` | `Orderly /\ Spec => []SepKnownNeverFreed` |
| `OwnReplyAlways` | `Spec => []OwnReply` |
| `FirstReadyAlways` | `Spec => []FirstReadyMeansConfirmed` |

`Orderly` is `~ResumeMayFail /\ ~AckReleases`, the constants of `transport_orderly`;
without it `TransportUnpinned.cfg` has the counterexample. It is an assumption about
Windows and the hardware, not something the code ensures.

The argument is a tower of inductive invariants. `LockedExchange` alone is not
inductive: that D0Exit cannot run during an exchange needs `Lifecycle`, which
ties the transport state to the PnP phase and says that BAR4 is mapped while
the state is active (`LockInv`). `Exposure` adds what the SEP may know in each
phase of a registration: in the one moment after a SET_OOL is sent and before
its outcome is recorded, the buffer is known but not marked (`MemInv`).
`Retirement` says that `Invalid` is only entered with an address exposed
(`RetireInv`), from which `NoResurrection` follows as a step property.
`Pinning` says which buffers hold a reference of their own; it holds only if
resume succeeds and a power callback waits for the request it finds
(`Orderly`), because otherwise a second pair is exposed without references -
`TransportUnpinned.cfg` is the counterexample that makes the hypothesis necessary.
`OwnReply` needs to know of every message, in either FIFO or inside the SEP, what
its age means: so many numbers drawn after it (`AgeInv`, `InTime`); the number of
a message that is not a whole cycle old then names it, and a reply that matches
is the context's own or has come round. `FirstInv` is about the first context
of a boot only: at most one registration message is under way, what an
accepted reply says is what the SEP holds, and the buffers of the context are
those it was asked for; with a second context `TransportStaleConfirm.cfg` refutes the same.
Each step lemma has one case per action of `Next`.

`T2BioCaptureProofs` proves, for every set of requests, events, verdicts and
purposes and every number of boundaries, under the assumptions on the constants that
`T2BioCapture` declares:

| Theorem | Statement |
|---|---|
| `OneSessionAlways` | `Spec => []OneSession` |
| `CompletedOnceAlways` | `Spec => []CompletedOnce` |
| `NoStaleMatchEver` | `Spec => NoStaleMatch` (action property) |
| `UnloadedIsQuietAlways` | `Spec => []UnloadedIsQuiet` |
| `ReplaysAreFewAlways` | `Spec => []ReplaysAreFew` |
| `EndsOnlyWhenAskedAlways` | `Spec => []EndsOnlyWhenAsked` |
| `TypeCorrect` | `Spec => []TypeOK` |

The steps of a session are alike, so `SessionPasses` abstracts them first: a
worker stays in its session or goes to release its request. `SlotInv` adds to
`OneSession` the worker that took the slot while it waited for its predecessor.
`TrackInv` ties the callback to the owner field of its `CancelTrack`: 1 from the
claim to the completion, 3 after it; `CompletedOnce` says nothing of that, and
is not inductive without it. `FreshInv` is the argument for
`g_captureRequestCommitMu`: it excludes workers that commit a Match, callbacks
that complete one and threads that invalidate captures (`MutexInv`), and a touch
that a boundary has overtaken is betrayed by `handled < generation` until the
check under the mutex (`AgeInv`). `WorkerMoves` has one case per worker action.
`DrainInv` says that admission is closed from the first step of the unload on,
so that a worker that was joined has no successor. `PairInv` compares two
cardinalities, the captures that took the replay and those answered with a Match;
a replay that is armed counts as one still to be taken. `CauseInv` is about the
cancel event, which a suspend sets as well: while nobody has asked for an end, a
session that it may reach has copied a generation that the suspend has
outdated, so the worker tries again instead of giving up. The type
invariant comes last, because the bounds on `generation` and on what a worker
copied from it rest on the boundaries that have begun (`NumInv`).

`T2NcmProofs` proves, for every number of runs, reads, processors, writes,
frames and resets, under `NcmNumbers`, `NcmValues` and `NcmCpus`:

| Theorem | Statement |
|---|---|
| `EngineExclusiveAlways` | `Spec => []EngineExclusive` |
| `PipesOutliveUseAlways` | `Spec => []PipesOutliveUse` |
| `RefsExactAlways` | `Spec => []RefsExact` |
| `OrphansStayAwayAlways` | `Spec => []OrphansStayAway` |
| `PausedIsSilentAlways` | `Spec => []PausedIsSilent` |
| `FailuresAreRealAlways` | `Spec => []FailuresAreReal` |
| `OrphansBoundedAlways` | `Spec => []OrphansBounded` |
| `TypeCorrect` | `Spec => []TypeOK` |

Nothing in the engine keeps its two callers apart. `FlushInv` is what does:
while a reset is queued or runs, the adapter runs and NDIS calls nothing, or it
pauses and stands at the flush of the work item. `DeviceInv` builds on it: where
the NDIS thread may take the pipes or the device away, the reader is stopped and
nobody is starting it, because an owned run has a started reader or a thread of
its own between allocation and start, and that thread could only be the other.

`RefsExact` equates the two counters of a run with cardinalities, so its
invariant (`CountInv`) names the sets: the processors in a completion of the run,
those that resend, those that announce, the thread that submits (`CpusOf`,
`Resending`, `Announcing`, `Submitting`); each step adds one member to one of
them, or moves it. `OwnInv` says that a run is live because the context owns
it or because it was orphaned, and that a thread in the engine works on the
owned one. On these rest `AwayInv` (a completion between the check of ownership
and its last use of the context belongs to the owned run, which cannot be
withdrawn before the drain has seen it leave), `QuietInv` (once a pause has
drained there is no owned run, no frame and nobody starting the reader until the
gate opens), and `BalanceInv`: of the owned run, the reads at the stack, those a
completion has in hand and those counted as failed are no more than what was
submitted, so no failure of a run torn down before is charged to it. (That they
are no fewer is `LossIsNoticed`, which is false.)

`OrphansBounded` says that `g_T2NcmRxOrphanedRuns` is the number of orphaned runs
not yet freed and never exceeds `T2NCM_RX_MAX_ORPHANED_RUNS`, so that the log line
for a count beyond it (`NcmRx.c` 1148) is never written. The bound is tested only on the way into
`T2NcmRxStart`; `RoomInv` says why that is enough: nothing is owned then, so one
start can orphan no more than the run it makes.

`T2ConsentProofs` and `T2EngineProofs` prove, for all sets of pipelines, users,
accounts and fingers and any number of samples and records (`UsersAssumption`,
`BoundsAssumption`, `FailsAssumption`):

| Theorem | Statement |
|---|---|
| `GrantsAreExclusive` (T2Consent) | `Spec => []OneGrantEach` |
| `TypeCorrect` | `Spec => []TypeOK` |
| `EngineKeepsConsent` | `Spec => ImplementsConsent`: every step is a step of T2Consent or a stutter |
| `OneGrantPerSample` | `Spec => []Consent!OneGrantEach`, carried over by the refinement |
| `SleepForgets` | `Spec => NothingSurvivesSleep` |
| `EnrollmentsAreFresh` | `Spec => EnrollmentIsFresh` |

In T2Consent the invariant is that tickets held, pledged and spent are disjoint
and numbered up to `issued`. The refinement needs the types only, among them
that an enrollment which is ready has a user and a number (`Linked`). Freshness
is that what a pipeline still holds is newer than its last sleep and what it
pledged newer than its last `CreateEnrollment`.

`T2BootstrapProofs` proves, for any number of starts, attempts and incidents of
any kind (`BoundsAssumption`):

| Theorem | Statement |
|---|---|
| `TypeCorrect` | `Spec => []TypeOK` |
| `ReadyIsEarned` | `Spec => []ReadyMeansUnlocked` |

The invariant says at each place of the sequence which exchanges the SEP has
carried out, and that the reason about to be reported is never Ok before the
last; since `sep` only grows in a boot, a status, event or cached answer of an
earlier run stays true.

`T2DiscoveryProofs` proves, for any number of ports, any grace and any number of
events of any kind (`BoundsAssumption`):

| Theorem | Statement |
|---|---|
| `TypeCorrect` | `Spec => []TypeOK` |
| `PhaseEndsAlways` | `Spec => []PhaseEndsCommitted` |
| `StickyEarnedAlways` | `Spec => []StickyEarned` |
| `CommitHasCauseAlways` | `Spec => CommitHasCause` (action property) |

The argument abstracts the seven steps that talk to the driver to one form
(`HostMoves`): they write a view computed by `Push`, `Seeded` and
`CommitAutoTunnel` and account for the request. `CommittedHeld` adds to the mode
what makes it inductive: what was pushed last is what the driver has
(`Coherent`), and outside a phase that owes nothing the committed mode was pushed
last, after the flag was seeded - without the latter a late seeding could commit the tunnel
under a native driver. `EarnedHeld` extends `StickyEarned` to the driver's flag,
because a restarted process inherits that, and says that a seeded copy is no
older than the flag. `CommitHasCause` is about the course of one attempt
(`WhyInv`): a verdict that IPv6 is unusable was formed in this attempt, a
blocked path has an unusable IPv6 or a refused request behind it, an attempt
overtaken by a suspend is cancelled, and a step towards the tunnel is taken
only for one of these reasons or because the tunnel was committed before.

`T2VerifyProofs` proves, for any identities, any set-up and short verify or long
and any number of sessions and incidents, under the assumptions on the constants that
`T2Verify` declares:

| Theorem | Statement |
|---|---|
| `MatchIsEnrolledAlways` | `Spec => []MatchIsEnrolled` |
| `TypeOKAlways` | `Spec => []TypeOK` |
| `InOrderAlways` | `Spec => []InOrder` |
| `EachTouchOnceAlways` | `Spec => []EachTouchOnce` |
| `OnlyLiveTouchMatchesAlways` | `Spec => []OnlyLiveTouchMatches`, if `ArmIsKept = FALSE` |
| `BarrierIsOwnAlways` | `Spec => []BarrierIsOwn`, if `ArmIsKept = FALSE` |

`ArmIsKept = FALSE` is the constant of `verify`; `VerifyArmKept.cfg` refutes the
statement without it, and records that as an assumption about the T2.

`Compared` says that the lists read before StartMatch agree from the comparison
on, because no command that follows reads one of them again (`FirstCommand` and
`NextCommand`: whatever is skipped, no command of the set-up is followed by
StartMatch without the comparison). `Concluded` says that a Match exists only
between the match loop and the verdict, for an identity of the first list. What
joins them to the lists read last is the attestation (`AttestedKeeps`).

The order of events (`OrderInv`) is kept by layers: what is in `pendingEvents_`,
then on the wire, then kept by the T2 for the next connection, each layer sorted
and older than the next (`Layers`), and all of it younger than what the match
loop has handled (`Younger`). `OnceInv` adds that a touch has at most one result
anywhere, and none once it is concluded. For the touch to be this session's, the
barrier has to be this session's: StartMatch is asked for once in a session
(`AskInv`), so every status 90 still to be seen is the one it caused (`ArmInv`).
That an image of this session exists follows from the status the loop has seen
for it (`TouchInv`, `ShotInv`). The time in the evidence is compared with the result
itself: whatever comes after a status 95, before or behind its own result, is of no
older image than the one it names (`TimeInv`), because the T2 works on images in
order (`Sorted`, `TimesInv`). `LiveInv` joins these.

Only model-checked: liveness (`EverythingEnds`, `PendingScans`, `CancelCompletes`,
`StopsEnd`, `CallbacksAndResetsEnd`, `StartsAndStopsEnd`, `OutcomeReported`,
`LockRequestsServed`, `Reconnects`), because fairness and ENABLED are out of the
prover's reach; and that the properties of the findings are violated, which a
counterexample shows. Every invariant and action property of a passing run, and
the refinement of T2Consent, is a theorem.

## 5. Not modelled

Byte layouts, digests, logging, statistics and user interfaces. The content of
a biometric identity or of an AKS payload: no property depends on it. The
hardware's own behaviour beyond what the drivers rely on. The NTB parser
(`NcmProtocol.c`, part of `NcmRx.c`): a pure function over bytes whose hazards
are widths and offsets near the size of a block, which no instance small enough
to enumerate reaches; what it hands on is counted in T2Ncm. The packet
translation of the tunnel (`Tunnel.c`), for the same reason. The vault GUI, the
installers and the tests, which are sequential.

## 6. Plan

Done: the seven components above, with a refinement for the engine adapter and
proofs for each. Next, in this order:

1. An abstract session (an attempt that ends in one verdict, whose Match has a
   touch of its own) that T2Verify implements by INSTANCE; T2BioCapture's `Verify`
   step is that abstraction.
2. OID requests and the packet filter of T2Ncm; the remaining sensor IOCTLs of
   T2BioCapture.

A new component gets one safety run, with liveness where something must
eventually happen; runs of one component are merged where their bounds allow.
