------------------------------- MODULE T2Ncm -------------------------------
(***************************************************************************)
(* The NDIS miniport T2NCM/driver: its lifecycle (initialize, restart,     *)
(* pause, power, halt), the hand-written bulk-IN read engine with its runs *)
(* and their orphans, the accounting of bulk-OUT writes, and the recovery  *)
(* work item that a hang check asks for.                                   *)
(*                                                                         *)
(* Two threads call the read engine: the one NDIS makes its callbacks on   *)
(* ("ndis") and the recovery work item ("work").  Read completions run     *)
(* beside them on any CPU and outlive the device context when the USB      *)
(* stack does not give a read back.  A step is what one of them does       *)
(* between two accesses to state another one writes.                       *)
(***************************************************************************)
EXTENDS Naturals, FiniteSets

CONSTANTS
  Runs,           \* T2NCM_RX_RUN allocations (a bound on those alive at once)
  NoRun,          \* a NULL RxRun
  Cpus,           \* bound on the read completions that execute at once
  Reads,          \* 4: T2NCM_RX_PENDING_READS
  MaxOrphans,     \* 4: T2NCM_RX_MAX_ORPHANED_RUNS
  FailThreshold,  \* 3: T2NCM_TX_FAIL_THRESHOLD
  MaxResets,      \* 2: T2NCM_TX_MAX_RESETS
  MaxTx,          \* bound on outstanding bulk-OUT writes
  MaxNbls         \* net buffer lists of the receive pool

ASSUME NcmNumbers ==
  /\ Reads \in Nat \ {0} /\ MaxOrphans \in Nat \ {0}
  /\ FailThreshold \in Nat \ {0} /\ MaxResets \in Nat \ {0}
  /\ MaxTx \in Nat /\ MaxNbls \in Nat
ASSUME NcmValues == NoRun \notin Runs
ASSUME NcmCpus == IsFiniteSet(Cpus)

VARIABLES
  \* T2NCM_DEVICE_CONTEXT
  ctx, lc, power, gate, pipes, rxStarted, rxRun, slots, rxNbls, outTx,
  txFail, txResets, moved, resetPending,
  \* the nonpaged pool: runs, and g_T2NcmRxOrphanedRuns
  run, orphans,
  \* threads, work item queue, completions, the sender
  th, op, queued, cpu, snd,
  \* NDIS's view of the adapter; whether it saw a hang, and awaits a reset;
  \* whether the last pause drained; the recoveries since the last successful
  \* write or restart
  adapter, hang, resetting, drained, vainResets

ctxVars  == <<ctx, lc, power, gate, pipes, rxStarted, rxRun, slots, rxNbls, outTx,
              txFail, txResets, moved, resetPending>>
runVars  == <<run, orphans>>
ndisVars == <<adapter, hang, resetting, drained, vainResets>>
vars     == <<ctxVars, runVars, th, op, queued, cpu, snd, ndisVars>>

-----------------------------------------------------------------------------
(* Values. *)

Lifecycle == {"Created", "Prepared", "UsbReady", "NcmReady", "NdisRegistered",
              "Running", "Stopping", "Released"}
Threads   == {"ndis", "work"}

\* Where a thread is in the read engine, and in the callback that called it.
\* At "cancel" and "cancelOut" it waits in WdfIoTargetStop.
EnginePcs == {"stop", "tear", "cancel", "poll", "settle", "start", "alloc", "submit",
              "send"}
ThreadPcs == EnginePcs \cup {"idle", "stopped", "started", "startFailed", "resume",
                             "flush", "drain", "recover", "cancelOut", "finish"}
IdleThread == [pc |-> "idle", goal |-> "stop", run |-> NoRun, n |-> 0]

\* Where a read completion is.  It holds a reference of its run throughout.
\* In Touching it uses the device context, in Announced it counts in
\* InCompletion.
Touching  == {"handle", "indicate", "alive", "failed"}
Announced == Touching \cup {"check", "resend", "send", "done"}
CpuPcs    == Announced \cup {"idle", "called", "leave"}
IdleCpu   == [at |-> "idle", run |-> NoRun, ok |-> FALSE]

\* out: the reads of the run the USB stack holds.
FreeRun == [live |-> FALSE, running |-> FALSE, orphaned |-> FALSE,
            refs |-> 0, inCompletion |-> 0, out |-> 0]

\* A device context that T2NcmDeviceCreate has just zeroed, or that is gone.
Init ==
  /\ ctx = FALSE /\ lc = "Created" /\ power = "D0"
  /\ gate = FALSE /\ pipes = FALSE /\ rxStarted = FALSE /\ rxRun = NoRun
  /\ slots = 0 /\ rxNbls = 0 /\ outTx = 0
  /\ txFail = 0 /\ txResets = 0 /\ moved = FALSE /\ resetPending = FALSE
  /\ run = [r \in Runs |-> FreeRun] /\ orphans = 0
  /\ th = [t \in Threads |-> IdleThread] /\ op = "none" /\ queued = FALSE
  /\ cpu = [c \in Cpus |-> IdleCpu] /\ snd = "idle"
  /\ adapter = "halted" /\ hang = FALSE /\ resetting = FALSE
  /\ drained = TRUE /\ vainResets = 0

-----------------------------------------------------------------------------
(* Runs.                                                                   *)

AddRef(r)  == [run EXCEPT ![r].refs = @ + 1]
DropRef(r) == [run EXCEPT ![r].refs = @ - 1]

\* T2NcmRxRunRelease: whoever drops the last reference frees the run, and
\* only then is an orphan no longer counted.
Release(r) ==
  IF run[r].refs = 1
  THEN /\ run' = [run EXCEPT ![r] = FreeRun]
       /\ orphans' = IF run[r].orphaned THEN orphans - 1 ELSE orphans
  ELSE run' = DropRef(r) /\ UNCHANGED orphans

-----------------------------------------------------------------------------
(* The read engine, as thread t executes T2NcmRxStop and T2NcmRxStart.     *)

At(t, pc)     == th[t].pc = pc
Moved(t, pc)  == [th EXCEPT ![t].pc = pc]
StepTo(t, pc) == th' = Moved(t, pc)

rest == <<op, queued, cpu, snd, ndisVars>>

StopEnters(t) ==
  /\ At(t, "stop")
  /\ th' = [th EXCEPT ![t].pc = IF rxStarted THEN "tear" ELSE "stopped",
                      ![t].goal = "stop"]
  /\ UNCHANGED <<ctxVars, runVars, rest>>

\* T2NcmRxTeardownReads has returned: to T2NcmRxStop, which clears RxStarted,
\* to T2NcmRxStart on its way in, or to the failure path of T2NcmRxStart.
TornDown(t) ==
  LET goal == th[t].goal
  IN /\ th' = [th EXCEPT ![t].pc = CASE goal = "stop"  -> "stopped"
                                     [] goal = "start" -> "alloc"
                                     [] OTHER          -> "startFailed",
                         ![t].run = NoRun]
     /\ rxRun' = NoRun
     /\ rxStarted' = (rxStarted /\ goal # "stop")
  /\ UNCHANGED <<ctx, lc, power, gate, pipes, slots, rxNbls, outTx, txFail,
                 txResets, moved, resetPending>>

NothingToTear(t) ==
  /\ At(t, "tear") /\ rxRun = NoRun
  /\ TornDown(t)
  /\ UNCHANGED <<runVars, rest>>

\* The gate of the run is closed before its target is stopped.
TearBegins(t) ==
  /\ At(t, "tear") /\ rxRun # NoRun
  /\ run' = [run EXCEPT ![rxRun].running = FALSE]
  /\ th' = [th EXCEPT ![t].pc = "cancel", ![t].run = rxRun]
  /\ UNCHANGED <<ctxVars, orphans, rest>>

\* WdfIoTargetStop asks for the reads back and returns.  That it does before
\* they are back, which the rest of the routine provides for, is possible here
\* but never relied on (EngineRuns).
TearStops(t) ==
  /\ At(t, "cancel")
  /\ StepTo(t, "poll")
  /\ UNCHANGED <<ctxVars, runVars, rest>>

\* Only the owner's reference is left.
TearDrains(t) ==
  /\ At(t, "poll") /\ run[th[t].run].refs = 1
  /\ Release(th[t].run)
  /\ TornDown(t)
  /\ UNCHANGED rest

\* Mutant: an orphaning stop never gives up.
TearGivesUpNever(t) == t \notin Threads /\ UNCHANGED vars

\* The stop has waited T2NCM_RX_STOP_DRAIN_TIMEOUT_MS: the run is orphaned.
TearGivesUp(t) ==
  /\ At(t, "poll") /\ run[th[t].run].refs # 1
  /\ orphans' = orphans + 1
  /\ run' = [run EXCEPT ![th[t].run].orphaned = TRUE]
  /\ StepTo(t, "settle")
  /\ UNCHANGED <<ctxVars, rest>>

\* Mutant: the owner does not wait for completions that missed the orphaning.
OrphanDetachesAtOnce(t) ==
  /\ At(t, "settle")
  /\ Release(th[t].run)
  /\ TornDown(t)
  /\ UNCHANGED rest

\* ... and detached once no completion is still past its own check.
OrphanDetaches(t) ==
  /\ At(t, "settle") /\ run[th[t].run].inCompletion = 0
  /\ Release(th[t].run)
  /\ TornDown(t)
  /\ UNCHANGED rest

StartRefused == ~pipes \/ orphans >= MaxOrphans

StartEnters(t) ==
  /\ At(t, "start")
  /\ th' = [th EXCEPT ![t].pc = IF rxStarted THEN "started"
                                ELSE IF StartRefused THEN "startFailed" ELSE "tear",
                      ![t].goal = "start"]
  /\ UNCHANGED <<ctxVars, runVars, rest>>

\* Mutant: RxFailedSlots is not cleared for the new run.
AllocatesKeepsSlots(t) ==
  /\ At(t, "alloc")
  /\ \E r \in Runs :
       /\ ~run[r].live
       /\ run' = [run EXCEPT ![r] = [FreeRun EXCEPT !.live = TRUE, !.running = TRUE,
                                                    !.refs = 1]]
       /\ rxRun' = r
       /\ th' = [th EXCEPT ![t].pc = "submit", ![t].run = r, ![t].n = 0]
  /\ UNCHANGED <<ctx, lc, power, gate, pipes, rxStarted, slots, rxNbls, outTx, txFail,
                 txResets, moved, resetPending, orphans, rest>>

\* The run, its requests and its started target; then its gate opens.
Allocates(t) ==
  /\ At(t, "alloc")
  /\ \E r \in Runs :
       /\ ~run[r].live
       /\ run' = [run EXCEPT ![r] = [FreeRun EXCEPT !.live = TRUE, !.running = TRUE,
                                                    !.refs = 1]]
       /\ rxRun' = r
       /\ th' = [th EXCEPT ![t].pc = "submit", ![t].run = r, ![t].n = 0]
  /\ slots' = 0
  /\ UNCHANGED <<ctx, lc, power, gate, pipes, rxStarted, rxNbls, outTx, txFail,
                 txResets, moved, resetPending, orphans, rest>>

\* Memory, the target or a request: what was made is freed with no read sent.
AllocationFails(t) ==
  /\ At(t, "alloc")
  /\ StepTo(t, "startFailed")
  /\ UNCHANGED <<ctxVars, runVars, rest>>

\* T2NcmRxSubmitRead takes the reference before it sends.
Submits(t) ==
  /\ At(t, "submit") /\ th[t].n < Reads
  /\ run' = AddRef(th[t].run)
  /\ StepTo(t, "send")
  /\ UNCHANGED <<ctxVars, orphans, rest>>

Sent(r) == [run EXCEPT ![r].out = @ + 1]

SubmitSends(t) ==
  /\ At(t, "send")
  /\ run' = Sent(th[t].run)
  /\ th' = [th EXCEPT ![t].pc = "submit", ![t].n = @ + 1]
  /\ UNCHANGED <<ctxVars, orphans, rest>>

\* Mutant: the reference of a read that was not sent stays.
SubmitFailsKeepsRef(t) ==
  /\ At(t, "send")
  /\ th' = [th EXCEPT ![t].pc = "tear", ![t].goal = "fail"]
  /\ UNCHANGED <<ctxVars, runVars, rest>>

SubmitFails(t) ==
  /\ At(t, "send")
  /\ run' = DropRef(th[t].run)
  /\ th' = [th EXCEPT ![t].pc = "tear", ![t].goal = "fail"]
  /\ UNCHANGED <<ctxVars, orphans, rest>>

StartEnds(t) ==
  /\ At(t, "submit") /\ th[t].n = Reads
  /\ rxStarted' = TRUE
  /\ th' = [th EXCEPT ![t].pc = "started", ![t].run = NoRun]
  /\ UNCHANGED <<ctx, lc, power, gate, pipes, rxRun, slots, rxNbls, outTx, txFail,
                 txResets, moved, resetPending, runVars, rest>>

EngineStep(t) ==
  \/ StopEnters(t) \/ NothingToTear(t) \/ TearBegins(t) \/ TearStops(t) \/ TearDrains(t)
  \/ TearGivesUp(t) \/ OrphanDetaches(t)
  \/ StartEnters(t) \/ Allocates(t) \/ AllocationFails(t)
  \/ Submits(t) \/ SubmitSends(t) \/ SubmitFails(t) \/ StartEnds(t)

\* What the engine does without fail: a target stop is bound to return only
\* when the USB stack has given its reads back.
EngineRuns(t) == EngineStep(t) /\ (At(t, "cancel") => run[th[t].run].out = 0)

-----------------------------------------------------------------------------
(* T2NcmEvtRxReadComplete on CPU c.                                        *)

CpuAt(c, at)   == cpu[c].at = at
CpuTo(c, at)   == cpu' = [cpu EXCEPT ![c].at = at]
MyRun(c)       == run[cpu[c].run]
cpuRest        == <<th, op, queued, snd, ndisVars>>

\* The USB stack gives a read back: completed, failed or cancelled.
ReadReturns(c) ==
  /\ CpuAt(c, "idle")
  /\ \E r \in Runs, ok \in BOOLEAN :
       /\ run[r].out > 0
       /\ run' = [run EXCEPT ![r].out = @ - 1]
       /\ cpu' = [cpu EXCEPT ![c] = [at |-> "called", run |-> r, ok |-> ok]]
  /\ UNCHANGED <<ctxVars, orphans, cpuRest>>

Announces(c) ==
  /\ CpuAt(c, "called")
  /\ run' = [run EXCEPT ![cpu[c].run].inCompletion = @ + 1]
  /\ CpuTo(c, "check")
  /\ UNCHANGED <<ctxVars, orphans, cpuRest>>

ChecksOrphaned(c) ==
  /\ CpuAt(c, "check")
  /\ CpuTo(c, IF MyRun(c).orphaned THEN "done"
              ELSE IF cpu[c].ok THEN "handle" ELSE "failed")
  /\ UNCHANGED <<ctxVars, runVars, cpuRest>>

\* T2NcmRxHandleRead: frames are dropped unless the data path runs; a
\* zero-length or an invalid block has none.
HandlesRead(c) ==
  /\ CpuAt(c, "handle")
  /\ \/ gate /\ CpuTo(c, "indicate")
     \/ CpuTo(c, "alive")
  /\ UNCHANGED <<ctxVars, runVars, cpuRest>>

\* The frames go up, as many as the pool has net buffer lists for.
Indicates(c) ==
  /\ CpuAt(c, "indicate")
  /\ rxNbls' = IF rxNbls < MaxNbls THEN rxNbls + 1 ELSE rxNbls
  /\ CpuTo(c, "alive")
  /\ UNCHANGED <<ctx, lc, power, gate, pipes, rxStarted, rxRun, slots, outTx, txFail,
                 txResets, moved, resetPending, runVars, cpuRest>>

\* A received block says that the device lives: resets are forgiven unless
\* writes have failed since.  Then the read is sent again if the run goes on.
FindsAlive(c) ==
  /\ CpuAt(c, "alive")
  /\ txResets' = IF txFail = 0 THEN 0 ELSE txResets
  /\ CpuTo(c, IF MyRun(c).running /\ ~MyRun(c).orphaned THEN "resend" ELSE "done")
  /\ UNCHANGED <<ctx, lc, power, gate, pipes, rxStarted, rxRun, slots, rxNbls, outTx,
                 txFail, moved, resetPending, runVars, cpuRest>>

Resends(c) ==
  /\ CpuAt(c, "resend")
  /\ run' = AddRef(cpu[c].run)
  /\ CpuTo(c, "send")
  /\ UNCHANGED <<ctxVars, orphans, cpuRest>>

ResendSends(c) ==
  /\ CpuAt(c, "send")
  /\ run' = Sent(cpu[c].run)
  /\ CpuTo(c, "done")
  /\ UNCHANGED <<ctxVars, orphans, cpuRest>>

\* The target is stopped, or refuses; nothing but a log entry tells.
ResendFails(c) ==
  /\ CpuAt(c, "send")
  /\ run' = DropRef(cpu[c].run)
  /\ CpuTo(c, "done")
  /\ UNCHANGED <<ctxVars, orphans, cpuRest>>

\* A failed read of a run that goes on is retired and counted.
FindsFailure(c) ==
  /\ CpuAt(c, "failed")
  /\ slots' = IF MyRun(c).running THEN slots + 1 ELSE slots
  /\ CpuTo(c, "done")
  /\ UNCHANGED <<ctx, lc, power, gate, pipes, rxStarted, rxRun, rxNbls, outTx, txFail,
                 txResets, moved, resetPending, runVars, cpuRest>>

Withdraws(c) ==
  /\ CpuAt(c, "done")
  /\ run' = [run EXCEPT ![cpu[c].run].inCompletion = @ - 1]
  /\ CpuTo(c, "leave")
  /\ UNCHANGED <<ctxVars, orphans, cpuRest>>

Leaves(c) ==
  /\ CpuAt(c, "leave")
  /\ Release(cpu[c].run)
  /\ cpu' = [cpu EXCEPT ![c] = IdleCpu]
  /\ UNCHANGED <<ctxVars, cpuRest>>

CompletionStep(c) ==
  \/ Announces(c) \/ ChecksOrphaned(c) \/ HandlesRead(c) \/ Indicates(c)
  \/ FindsAlive(c) \/ Resends(c) \/ ResendSends(c) \/ ResendFails(c)
  \/ FindsFailure(c) \/ Withdraws(c) \/ Leaves(c)

-----------------------------------------------------------------------------
(* The callbacks NDIS makes on its thread, one at a time.                  *)

Idle(t)     == At(t, "idle")
Call(o, pc) == op' = o /\ StepTo("ndis", pc)
Return      == op' = "none" /\ th' = [th EXCEPT !["ndis"] = IdleThread]
elsewhere   == <<runVars, cpu, snd>>

\* T2NcmTrySetState and T2NcmTrySetStateFromEither.
TryState(from, to) == lc' = IF lc \in from THEN to ELSE lc

\* MiniportInitializeEx, from T2NcmDeviceCreate to NdisRegistered; a failure
\* deletes the device again.
InitializeEx ==
  /\ Idle("ndis") /\ adapter = "halted"
  /\ ctx' = TRUE /\ lc' = "NdisRegistered" /\ power' = "D0" /\ pipes' = TRUE
  /\ gate' = FALSE /\ rxStarted' = FALSE /\ rxRun' = NoRun
  /\ slots' = 0 /\ rxNbls' = 0 /\ outTx' = 0
  /\ txFail' = 0 /\ txResets' = 0 /\ moved' = FALSE /\ resetPending' = FALSE
  /\ adapter' = "paused" /\ drained' = TRUE
  /\ UNCHANGED <<elsewhere, th, op, queued, hang, resetting, vainResets>>

\* MiniportRestart in D0 (elsewhere it fails and changes nothing); with no
\* pipes it arms the hardware first, and that stops the reader.
RestartBegins ==
  /\ Idle("ndis") /\ adapter = "paused" /\ power = "D0"
  /\ Call("restart", IF pipes THEN "resume" ELSE "stop")
  /\ UNCHANGED <<ctxVars, elsewhere, queued, ndisVars>>

\* T2NcmPowerArmHardware behind its T2NcmRxStop: alternate setting 1 and the
\* pipes that come with it, or no pipes.
Arms(ok) ==
  /\ pipes' = ok
  /\ UNCHANGED <<ctx, power, gate, rxStarted, rxRun, slots, rxNbls, outTx, txFail,
                 txResets, moved, resetPending>>

RestartArms ==
  /\ At("ndis", "stopped") /\ op = "restart"
  /\ \/ Arms(TRUE) /\ StepTo("ndis", "resume") /\ UNCHANGED op
     \/ Arms(FALSE) /\ Return
  /\ UNCHANGED <<lc, elsewhere, queued, ndisVars>>

\* T2NcmTxResume fails.
RestartFails ==
  /\ At("ndis", "resume")
  /\ Return
  /\ UNCHANGED <<ctxVars, elsewhere, queued, ndisVars>>

\* The bookkeeping starts afresh and the gate opens before the reader starts.
RestartOpens ==
  /\ At("ndis", "resume")
  /\ txFail' = 0 /\ txResets' = 0 /\ moved' = FALSE /\ gate' = TRUE
  /\ vainResets' = 0 /\ drained' = FALSE
  /\ StepTo("ndis", "start")
  /\ UNCHANGED <<ctx, lc, power, pipes, rxStarted, rxRun, slots, rxNbls, outTx,
                 resetPending, elsewhere, op, queued, adapter, hang, resetting>>

\* Mutant: the gate stays open when the reader did not start.
RestartEndsOpen ==
  /\ op = "restart"
  /\ \/ /\ At("ndis", "started")
        /\ TryState({"NdisRegistered", "NcmReady"}, "Running")
        /\ adapter' = "running"
     \/ At("ndis", "startFailed") /\ UNCHANGED <<lc, adapter>>
  /\ Return
  /\ UNCHANGED <<ctx, power, gate, pipes, rxStarted, rxRun, slots, rxNbls, outTx, txFail,
                 txResets, moved, resetPending, elsewhere, queued, hang, resetting,
                 drained, vainResets>>

RestartEnds ==
  /\ op = "restart"
  /\ \/ /\ At("ndis", "started")
        /\ TryState({"NdisRegistered", "NcmReady"}, "Running")
        /\ adapter' = "running"
        /\ UNCHANGED gate
     \/ /\ At("ndis", "startFailed")
        /\ gate' = FALSE
        /\ UNCHANGED <<lc, adapter>>
  /\ Return
  /\ UNCHANGED <<ctx, power, pipes, rxStarted, rxRun, slots, rxNbls, outTx, txFail,
                 txResets, moved, resetPending, elsewhere, queued, hang, resetting,
                 drained, vainResets>>

\* MiniportPause of a running adapter and MiniportHaltEx of a paused one begin
\* alike: the gate closes, the recovery work item is flushed.
Quiesce(o) ==
  /\ Idle("ndis")
  /\ gate' = FALSE /\ hang' = FALSE
  /\ Call(o, "flush")
  /\ UNCHANGED <<ctx, power, pipes, rxStarted, rxRun, slots, rxNbls, outTx, txFail,
                 txResets, moved, resetPending, elsewhere, queued, resetting,
                 drained, vainResets>>

PauseBegins == adapter = "running" /\ adapter' = "pausing" /\ UNCHANGED lc /\ Quiesce("pause")
HaltBegins  == adapter = "paused" /\ adapter' = "halting" /\ lc' = "Stopping" /\ Quiesce("halt")

\* Mutant: the work item is not flushed.
FlushedNot ==
  /\ At("ndis", "flush")
  /\ TryState({"Running"}, "Stopping")
  /\ StepTo("ndis", "stop")
  /\ UNCHANGED <<ctx, power, gate, pipes, rxStarted, rxRun, slots, rxNbls, outTx, txFail,
                 txResets, moved, resetPending, elsewhere, op, queued, ndisVars>>

\* Mutant: only what is still queued is waited for.
FlushedQueue ==
  /\ At("ndis", "flush") /\ ~queued
  /\ TryState({"Running"}, "Stopping")
  /\ StepTo("ndis", "stop")
  /\ UNCHANGED <<ctx, power, gate, pipes, rxStarted, rxRun, slots, rxNbls, outTx, txFail,
                 txResets, moved, resetPending, elsewhere, op, queued, ndisVars>>

Flushed ==
  /\ At("ndis", "flush")
  /\ ~queued /\ Idle("work")
  /\ TryState({"Running"}, "Stopping")
  /\ StepTo("ndis", "stop")
  /\ UNCHANGED <<ctx, power, gate, pipes, rxStarted, rxRun, slots, rxNbls, outTx, txFail,
                 txResets, moved, resetPending, elsewhere, op, queued, ndisVars>>

\* The writes the USB stack holds: one may be counted and not yet sent.
HeldWrites == outTx - (IF snd = "send" THEN 1 ELSE 0)

\* WdfIoTargetStop of the bulk-OUT pipe waits until they are back; with no pipe
\* there is nothing to stop.
OutStopReturns == pipes => HeldWrites = 0

\* T2NcmTxCancelOutstanding, and T2NcmWaitForDrain up to its 5 seconds.
Drains ==
  /\ At("ndis", "stopped") /\ op \in {"pause", "halt"} /\ OutStopReturns
  /\ drained' = (rxNbls = 0 /\ outTx = 0)
  /\ StepTo("ndis", "drain")
  /\ UNCHANGED <<ctxVars, elsewhere, op, queued, adapter, hang, resetting, vainResets>>

PauseEnds ==
  /\ At("ndis", "drain") /\ op = "pause"
  /\ TryState({"Stopping"}, "NdisRegistered")
  /\ adapter' = "paused"
  /\ Return
  /\ UNCHANGED <<ctx, power, gate, pipes, rxStarted, rxRun, slots, rxNbls, outTx, txFail,
                 txResets, moved, resetPending, elsewhere, queued, hang, resetting,
                 drained, vainResets>>

\* The interface is deactivated, the hardware released, the device deleted.
\* NDIS does not halt under a send call.
HaltEnds ==
  /\ At("ndis", "drain") /\ op = "halt" /\ snd = "idle"
  /\ ctx' = FALSE /\ pipes' = FALSE /\ lc' = "Released"
  /\ rxNbls' = 0 /\ outTx' = 0 /\ slots' = 0
  /\ adapter' = "halted"
  /\ Return
  /\ UNCHANGED <<power, gate, rxStarted, rxRun, txFail, txResets, moved, resetPending,
                 elsewhere, queued, hang, resetting, drained, vainResets>>

\* OID_PNP_SET_POWER, which NDIS sends to a paused adapter.
SetPower(state) ==
  /\ Idle("ndis") /\ adapter = "paused" /\ power # state
  /\ power' = state
  /\ Call(IF state = "D0" THEN "on" ELSE "off", "stop")
  /\ UNCHANGED <<ctx, lc, gate, pipes, rxStarted, rxRun, slots, rxNbls, outTx, txFail,
                 txResets, moved, resetPending, elsewhere, queued, ndisVars>>

\* T2NcmPowerQuiesceHardware behind its T2NcmRxStop.
PowersOff ==
  /\ At("ndis", "stopped") /\ op = "off"
  /\ Arms(FALSE)
  /\ lc' = IF lc = "Released" THEN lc ELSE "Prepared"
  /\ Return
  /\ UNCHANGED <<elsewhere, queued, ndisVars>>

\* The D0 request succeeds whether or not the hardware could be armed.
PowersOn ==
  /\ At("ndis", "stopped") /\ op = "on"
  /\ \/ Arms(TRUE) /\ TryState({"Prepared", "UsbReady"}, "NcmReady")
     \/ Arms(FALSE) /\ TryState({"Prepared"}, "UsbReady")
  /\ Return
  /\ UNCHANGED <<elsewhere, queued, ndisVars>>

\* MiniportDevicePnPEventNotify of a surprise removal, MiniportShutdownEx.
Removed ==
  /\ ctx /\ gate
  /\ gate' = FALSE
  /\ UNCHANGED <<ctx, lc, power, pipes, rxStarted, rxRun, slots, rxNbls, outTx, txFail,
                 txResets, moved, resetPending, elsewhere, th, op, queued, ndisVars>>

CallbackStep ==
  \/ RestartArms \/ RestartFails \/ RestartOpens \/ RestartEnds
  \/ Flushed \/ Drains \/ PauseEnds \/ HaltEnds \/ PowersOff \/ PowersOn

NdisCalls ==
  \/ InitializeEx \/ RestartBegins \/ PauseBegins \/ HaltBegins
  \/ SetPower("D0") \/ SetPower("Dx")

-----------------------------------------------------------------------------
(* Hang detection and recovery.                                            *)

\* MiniportCheckForHangEx, every four seconds while the adapter runs.
CheckForHang ==
  /\ adapter = "running" /\ ~resetting
  /\ hang' = (gate /\ (\/ slots # 0
                       \/ outTx # 0 /\ ~moved
                       \/ txFail >= FailThreshold))
  /\ moved' = FALSE
  /\ UNCHANGED <<ctx, lc, power, gate, pipes, rxStarted, rxRun, slots, rxNbls, outTx,
                 txFail, txResets, resetPending, elsewhere, th, op, queued, adapter,
                 resetting, drained, vainResets>>

\* MiniportResetEx leaves everything to the work item.
ResetEx ==
  /\ hang /\ adapter = "running"
  /\ hang' = FALSE /\ resetting' = TRUE
  /\ resetPending' = TRUE /\ queued' = TRUE
  /\ UNCHANGED <<ctx, lc, power, gate, pipes, rxStarted, rxRun, slots, rxNbls, outTx,
                 txFail, txResets, moved, elsewhere, th, op, adapter, drained, vainResets>>

\* T2NcmEvtRecoveryWorkItem.
WorkStarts ==
  /\ queued /\ Idle("work")
  /\ queued' = FALSE
  /\ resetPending' = FALSE
  /\ StepTo("work", IF resetPending THEN "recover" ELSE "idle")
  /\ UNCHANGED <<ctx, lc, power, gate, pipes, rxStarted, rxRun, slots, rxNbls, outTx,
                 txFail, txResets, moved, elsewhere, op, ndisVars>>

\* NdisMResetComplete.
ResetCompletes ==
  /\ resetting' = FALSE
  /\ th' = [th EXCEPT !["work"] = IdleThread]
  /\ UNCHANGED <<ctx, lc, power, gate, pipes, rxStarted, rxRun, slots, rxNbls, outTx,
                 moved, resetPending, elsewhere, op, queued, adapter, hang, drained>>

\* Paused, or one reset too many: then NDIS is asked to remove the miniport.
RecoveryDeclined ==
  /\ At("work", "recover")
  /\ \/ ~gate /\ UNCHANGED <<txResets, vainResets>>
     \/ gate /\ txResets >= MaxResets /\ txResets' = 0 /\ vainResets' = 0
  /\ UNCHANGED txFail
  /\ ResetCompletes

\* T2NcmTxRecoverPipe stops the bulk-OUT pipe ...
RecoveryBegins ==
  /\ At("work", "recover") /\ gate /\ txResets < MaxResets
  /\ txResets' = txResets + 1
  /\ vainResets' = IF vainResets > MaxResets THEN vainResets ELSE vainResets + 1
  /\ StepTo("work", "cancelOut")
  /\ UNCHANGED <<ctx, lc, power, gate, pipes, rxStarted, rxRun, slots, rxNbls, outTx,
                 txFail, moved, resetPending, elsewhere, op, queued, adapter, hang,
                 resetting, drained>>

\* ... and resets it when its writes are back; then the reader is stopped.
RecoveryCancels ==
  /\ At("work", "cancelOut") /\ OutStopReturns
  /\ StepTo("work", "stop")
  /\ UNCHANGED <<ctxVars, elsewhere, op, queued, ndisVars>>

\* The bulk-IN pipe is reset; the reader starts again unless a pause came.
RecoveryRestarts ==
  /\ At("work", "stopped")
  /\ StepTo("work", IF gate THEN "start" ELSE "finish")
  /\ UNCHANGED <<ctxVars, elsewhere, op, queued, ndisVars>>

RecoveryEnds ==
  /\ th["work"].pc \in {"started", "startFailed", "finish"}
  /\ txFail' = 0
  /\ UNCHANGED <<txResets, vainResets>>
  /\ ResetCompletes

WorkStep ==
  \/ WorkStarts \/ RecoveryDeclined \/ RecoveryBegins \/ RecoveryCancels
  \/ RecoveryRestarts \/ RecoveryEnds

-----------------------------------------------------------------------------
(* Bulk-OUT writes and received frames that NDIS holds.                    *)

txRest == <<runVars, th, op, queued, cpu, adapter, hang, resetting, drained>>

\* MiniportSendNetBufferLists looks at the gate, the power and the pipe; a
\* send it refuses changes nothing.
SendBegins ==
  /\ snd = "idle" /\ adapter = "running"
  /\ gate /\ power = "D0" /\ pipes
  /\ snd' = "submit"
  /\ UNCHANGED <<ctxVars, txRest, vainResets>>

\* T2NcmTxSubmitNetBuffer counts the write before it sends it.
SendCounts ==
  /\ snd = "submit"
  /\ \/ pipes /\ outTx < MaxTx /\ outTx' = outTx + 1 /\ snd' = "send"
     \/ snd' = "idle" /\ UNCHANGED outTx
  /\ UNCHANGED <<ctx, lc, power, gate, pipes, rxStarted, rxRun, slots, rxNbls, txFail,
                 txResets, moved, resetPending, txRest, vainResets>>

SendEnds ==
  /\ snd = "send"
  /\ snd' = "idle"
  /\ outTx' \in {outTx, outTx - 1}
  /\ UNCHANGED <<ctx, lc, power, gate, pipes, rxStarted, rxRun, slots, rxNbls, txFail,
                 txResets, moved, resetPending, txRest, vainResets>>

\* T2NcmEvtTxWriteComplete.
WriteCompletes(ok) ==
  /\ HeldWrites > 0
  /\ outTx' = outTx - 1 /\ moved' = TRUE
  /\ IF ok
     THEN txFail' = 0 /\ txResets' = 0 /\ vainResets' = 0
     ELSE /\ txFail' = IF gate /\ txFail < FailThreshold THEN txFail + 1 ELSE txFail
          /\ UNCHANGED <<txResets, vainResets>>
  /\ UNCHANGED <<ctx, lc, power, gate, pipes, rxStarted, rxRun, slots, rxNbls,
                 resetPending, txRest, snd>>

\* MiniportReturnNetBufferLists.
NblsReturn ==
  /\ rxNbls > 0
  /\ rxNbls' = rxNbls - 1
  /\ UNCHANGED <<ctx, lc, power, gate, pipes, rxStarted, rxRun, slots, outTx, txFail,
                 txResets, moved, resetPending, txRest, snd, vainResets>>

TxStep == SendBegins \/ SendCounts \/ SendEnds \/ NblsReturn
          \/ \E ok \in BOOLEAN : WriteCompletes(ok)

-----------------------------------------------------------------------------
Next ==
  \/ NdisCalls \/ CallbackStep \/ Removed
  \/ CheckForHang \/ ResetEx \/ WorkStep
  \/ \E t \in Threads : EngineStep(t)
  \/ \E c \in Cpus : ReadReturns(c) \/ CompletionStep(c)
  \/ TxStep

Spec == Init /\ [][Next]_vars

\* The threads and the completion routines are scheduled.  Nothing is assumed
\* of the USB stack, which may keep any read or write for ever, of the NDIS
\* above that returns net buffer lists, or of the calls NDIS makes.  The stop of
\* a target waits for what was sent before it: a write sent during the stop does
\* not hold it up, which is what its strong fairness says.
FairSpec ==
  /\ Spec
  /\ WF_vars(CallbackStep) /\ WF_vars(WorkStep) /\ WF_vars(SendCounts \/ SendEnds)
  /\ SF_vars(RecoveryCancels)
  /\ \A t \in Threads : WF_vars(EngineRuns(t))
  /\ \A c \in Cpus : WF_vars(CompletionStep(c))

-----------------------------------------------------------------------------
(* Properties. *)

\* The type of every variable.
TypeOK ==
  /\ ctx \in BOOLEAN /\ lc \in Lifecycle /\ power \in {"D0", "Dx"}
  /\ gate \in BOOLEAN /\ pipes \in BOOLEAN /\ rxStarted \in BOOLEAN
  /\ rxRun \in Runs \cup {NoRun} /\ slots \in 0 .. Reads
  /\ rxNbls \in 0 .. MaxNbls /\ outTx \in 0 .. MaxTx
  /\ txFail \in 0 .. FailThreshold /\ txResets \in 0 .. MaxResets
  /\ moved \in BOOLEAN /\ resetPending \in BOOLEAN
  /\ run \in [Runs -> [live : BOOLEAN, running : BOOLEAN, orphaned : BOOLEAN,
                       refs : Nat, inCompletion : Nat, out : Nat]]
  /\ orphans \in Nat
  /\ th \in [Threads -> [pc : ThreadPcs, goal : {"stop", "start", "fail"},
                         run : Runs \cup {NoRun}, n : 0 .. Reads]]
  /\ op \in {"none", "restart", "pause", "halt", "on", "off"} /\ queued \in BOOLEAN
  /\ cpu \in [Cpus -> [at : CpuPcs, run : Runs \cup {NoRun}, ok : BOOLEAN]]
  /\ snd \in {"idle", "submit", "send"}
  /\ adapter \in {"halted", "paused", "running", "pausing", "halting"}
  /\ hang \in BOOLEAN /\ resetting \in BOOLEAN /\ drained \in BOOLEAN
  /\ vainResets \in 0 .. MaxResets + 1

\* The references of run r that someone holds: its owner, the USB stack one for
\* each read, each completion its own, and one for each read about to be sent.
Holders(r) ==
  (IF rxRun = r THEN 1 ELSE 0) + run[r].out
  + Cardinality({c \in Cpus : cpu[c].run = r})
  + Cardinality({c \in Cpus : cpu[c].run = r /\ cpu[c].at = "send"})
  + Cardinality({t \in Threads : th[t].run = r /\ th[t].pc = "send"})

\* Refs counts exactly the holders of a run, and InCompletion the completions
\* between their first and their last access to it; so a run is freed when, and
\* only when, nobody uses it any more (NcmRx.c 820-838, the ownership rules).
RefsExact ==
  \A r \in Runs :
    /\ run[r].refs = Holders(r)
    /\ run[r].inCompletion = Cardinality({c \in Cpus : cpu[c].run = r
                                                       /\ cpu[c].at \in Announced})
    /\ run[r].live <=> run[r].refs > 0

\* A completion that uses the device context finds it, and belongs to the run
\* the context owns; a completion of an orphaned run never does (NcmRx.c 836:
\* "A completion of an orphaned run never touches the device context").
OrphansStayAway ==
  \A c \in Cpus : cpu[c].at \in Touching => ctx /\ rxRun = cpu[c].run

\* Between the pauses and restarts NDIS makes, the adapter is silent: no
\* completion is about to hand a frame up, and none that went up is still out
\* unless the drain gave up on it (NdisMiniport.c 925-951).
PausedIsSilent ==
  adapter = "paused" /\ Idle("ndis") =>
    /\ ~gate /\ ~rxStarted
    /\ \A c \in Cpus : cpu[c].at # "indicate"
    /\ drained => rxNbls = 0

\* The two callers of the read engine never meet in it: it has no lock, and
\* relies on the flush of the work item (NdisMiniport.c 931-940).
EngineExclusive == ~(th["ndis"].pc \in EnginePcs /\ th["work"].pc \in EnginePcs)

\* Neither the pipes nor the context are taken away while the gate is open or a
\* run is owned (Power.c 277-290: the reader stops before the interface goes).
PipesOutliveUse ==
  /\ gate => ctx /\ power = "D0" /\ pipes
  /\ rxRun # NoRun => ctx /\ pipes

InEngine == \E t \in Threads : th[t].pc \in EnginePcs

\* The reads of the owned run that are with the USB stack, or with a completion
\* that has not given up on sending them again.
Circulating ==
  run[rxRun].out
  + Cardinality({c \in Cpus : cpu[c].run = rxRun /\ cpu[c].at \notin {"done", "leave"}})

\* RxFailedSlots counts reads the present reader has lost, each once: no read of
\* a reader torn down before, and none that was sent again, makes CheckForHang
\* ask for a reset (NcmRx.c 1097-1101, NdisMiniport.c 1680-1690).
FailuresAreReal ==
  rxStarted /\ ~InEngine => Circulating + slots <= Reads

\* A reader that has lost reads says so: each missing read is in RxFailedSlots,
\* which makes CheckForHang ask for a reset (driver.h 465-466).
LossIsNoticed ==
  rxStarted /\ ~InEngine => Circulating + slots >= Reads

\* A reset that follows MaxResets others without a successful write is refused
\* and the device restarted (NdisMiniport.c 1767-1769).
StuckTxRestartsDevice == vainResets <= MaxResets

\* A pause whose drain has succeeded leaves no write behind: NDIS must see the
\* outstanding work drained before MiniportPause returns (driver.h 350-355).
PauseDrainsWrites == adapter = "paused" /\ Idle("ndis") /\ drained => outTx = 0

\* Thread t waits in a target stop for reads, or writes, the USB stack holds.
InReadStop(t)  == At(t, "cancel") /\ run[th[t].run].out > 0
InWriteStop(t) ==
  /\ ~OutStopReturns
  /\ At(t, "cancelOut") \/ (t = "ndis" /\ At(t, "stopped") /\ op \in {"pause", "halt"})

\* Every callback returns and every reset completes, unless the USB stack leaves
\* a target stop waiting for ever for what it cancels: neither a read left
\* behind by a stop that returned, nor a frame NDIS keeps, nor a failing
\* recovery holds one up (the bounded waits of NcmRx.c 1138-1175 and
\* NdisMiniport.c 89-139, and the flush of the work item before a pause).
CallbacksAndResetsEnd ==
  (\A t \in Threads : []<>~(InReadStop(t) \/ InWriteStop(t))) =>
    /\ ~Idle("ndis") ~> Idle("ndis")
    /\ resetting ~> ~resetting

\* Whatever the reads do, a write that never comes back "shows up as a logged
\* timeout instead of a hung MiniportPause" (NdisMiniport.c 94-97).
PauseIsBounded ==
  (\A t \in Threads : []<>~InReadStop(t)) => (op = "pause" ~> op # "pause")
=============================================================================
