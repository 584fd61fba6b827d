---------------------------- MODULE T2NcmProofs ----------------------------
(***************************************************************************)
(* Theorems about T2Ncm, for any number of runs, reads, processors, writes  *)
(* and frames: who may be in the read engine, what is there while the data  *)
(* path is open or a run is owned, who holds a run and when it is freed,    *)
(* that an orphan keeps off the device context and a paused adapter is      *)
(* silent, that every lost read is counted, and how many orphans there are. *)
(***************************************************************************)
EXTENDS T2Ncm, FiniteSetTheorems, TLAPS

\* What the two invariants are about.
watched == <<ctx, power, gate, pipes, rxStarted, rxRun, th, op, queued, adapter>>

\* The types that the invariants need of the threads and of the owned run.
ThreadShape ==
  /\ th \in [Threads -> [pc : ThreadPcs, goal : {"stop", "start", "fail"},
                         run : Runs \cup {NoRun}, n : Nat]]
  /\ rxRun \in Runs \cup {NoRun}

-----------------------------------------------------------------------------
(* Steps that are alike.                                                   *)

\* A step of thread t in the read engine leaves the rest of the device, and the
\* other thread, alone.
InEngineStep(t) ==
  /\ th[t].pc \in EnginePcs
  /\ th'[t].pc \in EnginePcs \cup {"stopped", "started", "startFailed"}
  /\ \A u \in Threads \ {t} : th'[u] = th[u]
  /\ UNCHANGED <<ctx, power, gate, pipes, op, queued, adapter>>

LEMMA EngineStays ==
  ASSUME ThreadShape, NEW t \in Threads, EngineStep(t)
  PROVE  ThreadShape' /\ InEngineStep(t)
<1> USE DEF ThreadShape, InEngineStep, At, StepTo, Moved, ThreadPcs, EnginePcs, Threads,
            ctxVars, rest, ndisVars
<1>1. CASE StopEnters(t)
  BY <1>1 DEF StopEnters
<1>2. CASE NothingToTear(t)
  BY <1>2 DEF NothingToTear, TornDown
<1>3. CASE TearBegins(t)
  BY <1>3 DEF TearBegins
<1>4. CASE TearDrains(t)
  BY <1>4 DEF TearDrains, TornDown
<1>5. CASE TearGivesUp(t)
  BY <1>5 DEF TearGivesUp
<1>6. CASE OrphanDetaches(t)
  BY <1>6 DEF OrphanDetaches, TornDown
<1>7. CASE StartEnters(t)
  BY <1>7 DEF StartEnters
<1>8. CASE Allocates(t)
  BY <1>8 DEF Allocates
<1>9. CASE AllocationFails(t)
  BY <1>9 DEF AllocationFails
<1>10. CASE Submits(t)
  BY <1>10 DEF Submits
<1>11. CASE SubmitSends(t)
  BY <1>11 DEF SubmitSends
<1>12. CASE SubmitFails(t)
  BY <1>12 DEF SubmitFails
<1>13. CASE StartEnds(t)
  BY <1>13 DEF StartEnds
<1>14. CASE TearStops(t)
  BY <1>14 DEF TearStops
<1> QED
  BY <1>1, <1>2, <1>3, <1>4, <1>5, <1>6, <1>7, <1>8, <1>9, <1>10, <1>11, <1>12, <1>13, <1>14
     DEF EngineStep

\* A thread moves on, or returns to who called it.
LEMMA Moving ==
  ASSUME ThreadShape, NEW t \in Threads, NEW pc \in ThreadPcs, StepTo(t, pc),
         rxRun' = rxRun
  PROVE  /\ ThreadShape'
         /\ th'[t].pc = pc /\ th'[t].goal = th[t].goal
         /\ \A u \in Threads \ {t} : th'[u] = th[u]
BY DEF ThreadShape, StepTo, Moved, Threads

LEMMA Returning ==
  ASSUME ThreadShape, NEW t \in Threads, th' = [th EXCEPT ![t] = IdleThread], rxRun' = rxRun
  PROVE  /\ ThreadShape' /\ th'[t].pc = "idle"
         /\ \A u \in Threads \ {t} : th'[u] = th[u]
BY DEF ThreadShape, Threads, IdleThread, ThreadPcs

\* Completions, writes, the hang check: none of them touches what is watched.
LEMMA BesideUnchanged ==
  ASSUME \/ \E c \in Cpus : ReadReturns(c) \/ CompletionStep(c)
         \/ TxStep \/ CheckForHang
  PROVE  UNCHANGED watched
BY DEF ReadReturns, CompletionStep, Announces, ChecksOrphaned, HandlesRead, Indicates,
       FindsAlive, Resends, ResendSends, ResendFails, FindsFailure, Withdraws, Leaves,
       TxStep, SendBegins, SendCounts, SendEnds, NblsReturn, WriteCompletes, CheckForHang,
       watched, ctxVars, cpuRest, ndisVars, txRest

-----------------------------------------------------------------------------
(* Who is in the read engine.                                              *)

\* A reset is asked for, or the work item runs.
WorkPending == queued \/ ~Idle("work")

\* EngineExclusive is not inductive: what keeps the work item out of the engine
\* while NDIS is in it is that NDIS calls nothing on a running adapter, and that
\* a pause gets no further than its flush while the work item is pending.
FlushInv ==
  /\ ThreadShape
  /\ WorkPending => adapter = "running" \/ (adapter = "pausing" /\ At("ndis", "flush"))
  /\ adapter = "running" => Idle("ndis")

LEMMA FlushExclusive == FlushInv => EngineExclusive
BY DEF FlushInv, WorkPending, Idle, At, EngineExclusive, EnginePcs

LEMMA FlushStep == FlushInv /\ [Next]_vars => FlushInv'
<1> SUFFICES ASSUME FlushInv, [Next]_vars PROVE FlushInv'
  OBVIOUS
<1> USE DEF FlushInv, WorkPending, Idle, At, Threads
<1>1. ASSUME NEW t \in Threads, EngineStep(t) PROVE FlushInv'
  <2>1. ThreadShape' /\ InEngineStep(t)
    BY <1>1, EngineStays
  <2> QED
    BY <2>1 DEF InEngineStep, EnginePcs
<1>2. CASE NdisCalls
  <2>1. CASE InitializeEx
    BY <2>1 DEF InitializeEx, ThreadShape
  <2>2. CASE RestartBegins
    <3>1. PICK pc \in ThreadPcs : StepTo("ndis", pc)
      BY <2>2 DEF RestartBegins, Call, ThreadPcs, EnginePcs
    <3>2. UNCHANGED <<queued, adapter, rxRun>> /\ adapter = "paused"
      BY <2>2 DEF RestartBegins, ctxVars, ndisVars
    <3> QED
      BY <3>1, <3>2, Moving
  <2>3. CASE PauseBegins \/ HaltBegins
    <3>1. StepTo("ndis", "flush") /\ UNCHANGED <<queued, rxRun>>
      BY <2>3 DEF PauseBegins, HaltBegins, Quiesce, Call
    <3>2. \/ adapter = "running" /\ adapter' = "pausing"
          \/ adapter = "paused" /\ adapter' = "halting"
      BY <2>3 DEF PauseBegins, HaltBegins
    <3>3. ThreadShape' /\ th'["ndis"].pc = "flush" /\ th'["work"] = th["work"]
      BY <3>1, Moving DEF ThreadPcs
    <3> QED
      BY <3>1, <3>2, <3>3
  <2>4. CASE SetPower("D0") \/ SetPower("Dx")
    <3>1. StepTo("ndis", "stop") /\ UNCHANGED <<queued, adapter, rxRun>> /\ adapter = "paused"
      BY <2>4 DEF SetPower, Call, ndisVars
    <3> QED
      BY <3>1, Moving DEF ThreadPcs, EnginePcs
  <2> QED
    BY <1>2, <2>1, <2>2, <2>3, <2>4 DEF NdisCalls
<1>3. CASE CallbackStep
  <2>1. UNCHANGED <<queued, rxRun>> /\ ~Idle("ndis")
    BY <1>3 DEF CallbackStep, RestartArms, RestartFails, RestartOpens, RestartEnds, Flushed,
       Drains, PauseEnds, HaltEnds, PowersOff, PowersOn, Arms, ctxVars, Return, IdleThread
  <2>2. \/ \E pc \in ThreadPcs : StepTo("ndis", pc)
        \/ th' = [th EXCEPT !["ndis"] = IdleThread]
    BY <1>3 DEF CallbackStep, RestartArms, RestartFails, RestartOpens, RestartEnds, Flushed,
       Drains, PauseEnds, HaltEnds, PowersOff, PowersOn, Return, ThreadPcs, EnginePcs
  <2>3. ThreadShape' /\ th'["work"] = th["work"]
    BY <2>1, <2>2, Moving, Returning
  \* Only a flush that is over lets NDIS get past it; only a restart that has
  \* returned makes the adapter run.
  <2>4. ~WorkPending \/ (UNCHANGED <<th, adapter>> /\ At("ndis", "flush"))
    BY <1>3, <2>1 DEF CallbackStep, RestartArms, RestartFails, RestartOpens, RestartEnds, Flushed,
       Drains, PauseEnds, HaltEnds, PowersOff, PowersOn
  <2>5. adapter' # "running" \/ th' = [th EXCEPT !["ndis"] = IdleThread]
    BY <1>3, <2>1 DEF CallbackStep, RestartArms, RestartFails, RestartOpens, RestartEnds, Flushed,
       Drains, PauseEnds, HaltEnds, PowersOff, PowersOn, Return, ndisVars
  <2> QED
    BY <2>1, <2>3, <2>4, <2>5, Returning
<1>4. CASE WorkStep
  <2>1. UNCHANGED <<adapter, rxRun>>
    BY <1>4 DEF WorkStep, WorkStarts, RecoveryDeclined, RecoveryBegins, RecoveryCancels,
       RecoveryRestarts,
       RecoveryEnds, ResetCompletes, ctxVars, ndisVars
  <2>2. WorkPending
    BY <1>4 DEF WorkStep, WorkStarts, RecoveryDeclined, RecoveryBegins, RecoveryCancels,
       RecoveryRestarts,
       RecoveryEnds
  <2>3. \/ \E pc \in ThreadPcs : StepTo("work", pc)
        \/ th' = [th EXCEPT !["work"] = IdleThread]
    BY <1>4 DEF WorkStep, WorkStarts, RecoveryDeclined, RecoveryBegins, RecoveryCancels,
       RecoveryRestarts,
       RecoveryEnds, ResetCompletes, ThreadPcs, EnginePcs
  <2>4. ThreadShape' /\ th'["ndis"] = th["ndis"]
    BY <2>1, <2>3, Moving, Returning
  <2> QED
    BY <2>1, <2>2, <2>4
<1>5. CASE Removed
  <2>1. UNCHANGED <<th, rxRun, adapter, queued>>
    BY <1>5 DEF Removed, elsewhere, ndisVars
  <2>2. ThreadShape'
    BY <2>1 DEF ThreadShape
  <2> QED
    BY <2>1, <2>2
<1>6. CASE ResetEx
  <2>1. UNCHANGED <<th, rxRun, adapter>> /\ adapter = "running"
    BY <1>6 DEF ResetEx
  <2>2. ThreadShape'
    BY <2>1 DEF ThreadShape
  <2> QED
    BY <2>1, <2>2
<1>7. CASE UNCHANGED watched
  BY <1>7 DEF watched, ThreadShape
<1> QED
  BY <1>1, <1>2, <1>3, <1>4, <1>5, <1>6, <1>7, BesideUnchanged
     DEF Next, vars, ctxVars, ndisVars, watched

LEMMA FlushInit == Init => FlushInv
BY DEF Init, FlushInv, ThreadShape, WorkPending, Idle, At, IdleThread, Threads, ThreadPcs

\* The NDIS thread and the recovery work item are never in the read engine at once,
\* for any number of runs, reads, processors, writes and resets.
THEOREM EngineExclusiveAlways == Spec => []EngineExclusive
BY FlushInit, FlushStep, FlushExclusive, PTL DEF Spec

-----------------------------------------------------------------------------
(* What is there while the data path is open or a run is owned.            *)

Tearing(t) == th[t].pc \in {"tear", "cancel", "poll", "settle"}

\* A thread between the opening of the gate and the end of T2NcmRxStart.
Starting(t) ==
  \/ th[t].pc \in {"start", "alloc", "submit", "send", "started", "startFailed"}
  \/ Tearing(t) /\ th[t].goal # "stop"

\* A thread that has seen the pipes in T2NcmRxStart and goes on to read them.
NeedsPipes(t) ==
  \/ th[t].pc \in {"alloc", "submit", "send"}
  \/ Tearing(t) /\ th[t].goal = "start"

\* A thread that has allocated a run which is not started yet, or never will be.
MayOwn(t) ==
  \/ th[t].pc \in {"submit", "send"}
  \/ Tearing(t) /\ th[t].goal = "fail"

\* Besides PipesOutliveUse: where the NDIS thread may take the pipes or the device
\* away (stopped, drain), the reader is not started and nobody is starting it.
DeviceInv ==
  /\ adapter # "halted" => ctx
  /\ adapter = "halted" => Idle("ndis")
  /\ op = "restart" => power = "D0"
  /\ At("ndis", "resume") => op = "restart" /\ pipes
  /\ gate => ctx /\ power = "D0" /\ pipes /\ (adapter = "running" \/ Starting("ndis"))
  /\ \A t \in Threads : NeedsPipes(t) => pipes
  /\ rxRun # NoRun => /\ ctx /\ pipes
                      /\ rxStarted \/ \E t \in Threads : MayOwn(t)
  /\ th["ndis"].pc \in {"stopped", "drain"} => ~rxStarted

\* In the engine: what a step does to the run, the reader and the thread.
LEMMA EngineDevice ==
  ASSUME FlushInv, DeviceInv, NEW t \in Threads, EngineStep(t)
  PROVE  DeviceInv'
<1>1. ThreadShape /\ InEngineStep(t) /\ EngineExclusive
  BY EngineStays, FlushExclusive DEF FlushInv
<1>2. ctx
  BY <1>1 DEF InEngineStep, FlushInv, WorkPending, DeviceInv, Idle, At, Threads, EnginePcs
\* The other thread is not in the engine, and stays where it is.
<1>3. ASSUME NEW u \in Threads, u # t
      PROVE  th'[u] = th[u] /\ th[u].pc \notin EnginePcs /\ ~NeedsPipes(u) /\ ~MayOwn(u)
  BY <1>1, <1>3 DEF InEngineStep, EngineExclusive, Threads, EnginePcs, NeedsPipes, MayOwn, Tearing
<1>4. /\ Starting(t) => Starting(t)'
      /\ NeedsPipes(t)' => pipes
      /\ rxRun' # NoRun => pipes /\ (rxStarted' \/ MayOwn(t)')
      /\ th'[t].pc = "stopped" => ~rxStarted'
      /\ rxStarted' => rxStarted \/ th'[t].pc = "started"
  <2>1. /\ NeedsPipes(t) => pipes
        /\ rxRun # NoRun => pipes /\ (rxStarted \/ MayOwn(t))
    BY <1>3 DEF DeviceInv
  <2> USE <1>1, <2>1
  <2> USE DEF ThreadShape, Starting, NeedsPipes, MayOwn, Tearing, At, StepTo, Moved, ctxVars
  <2>2. CASE StopEnters(t)
    BY <2>2 DEF StopEnters
  <2>3. CASE NothingToTear(t) \/ TearDrains(t) \/ OrphanDetaches(t)
    <3>1. /\ rxRun' = NoRun /\ Tearing(t)
          /\ th'[t].pc = CASE th[t].goal = "stop"  -> "stopped"
                           [] th[t].goal = "start" -> "alloc"
                           [] OTHER                -> "startFailed"
      BY <2>3 DEF NothingToTear, TearDrains, OrphanDetaches, TornDown
    <3>2. rxStarted' => rxStarted /\ th[t].goal # "stop"
      BY <2>3, Zenon DEF NothingToTear, TearDrains, OrphanDetaches, TornDown
    <3> QED
      BY <3>1, <3>2
  <2>4. CASE TearBegins(t) \/ TearStops(t) \/ TearGivesUp(t)
    BY <2>4 DEF TearBegins, TearStops, TearGivesUp
  <2>5. CASE StartEnters(t)
    BY <2>5 DEF StartEnters, StartRefused
  <2>6. CASE Allocates(t)
    BY <2>6 DEF Allocates
  <2>7. CASE AllocationFails(t)
    BY <2>7 DEF AllocationFails
  <2>8. CASE Submits(t) \/ SubmitSends(t) \/ SubmitFails(t)
    BY <2>8 DEF Submits, SubmitSends, SubmitFails
  <2>9. CASE StartEnds(t)
    BY <2>9 DEF StartEnds
  <2> QED
    BY <2>2, <2>3, <2>4, <2>5, <2>6, <2>7, <2>8, <2>9 DEF EngineStep
<1>5. UNCHANGED <<ctx, power, gate, pipes, op, adapter>> /\ ~Idle(t) /\ ~Idle(t)'
  BY <1>1 DEF InEngineStep, Idle, At, EnginePcs
<1>6. t = "work" => th["ndis"].pc \in {"idle", "flush"}
  BY <1>5 DEF FlushInv, WorkPending, Idle, At
<1>7. /\ adapter' # "halted" => ctx'
      /\ adapter' = "halted" => Idle("ndis")'
      /\ op' = "restart" => power' = "D0"
  BY <1>3, <1>5 DEF DeviceInv, Threads, Idle, At
<1>8. (At("ndis", "resume") => op = "restart" /\ pipes)'
  <2>1. th'[t].pc # "resume"
    BY <1>1 DEF InEngineStep, EnginePcs
  <2> QED
    BY <1>3, <1>5, <2>1 DEF DeviceInv, Threads, At
<1>9. (gate => ctx /\ power = "D0" /\ pipes /\ (adapter = "running" \/ Starting("ndis")))'
  BY <1>3, <1>4, <1>5 DEF DeviceInv, Threads, Starting, Tearing
<1>10. (\A u \in Threads : NeedsPipes(u) => pipes)'
  BY <1>3, <1>4, <1>5 DEF NeedsPipes, Tearing
<1>11. (rxRun # NoRun => /\ ctx /\ pipes
                         /\ rxStarted \/ \E u \in Threads : MayOwn(u))'
  BY <1>2, <1>4, <1>5 DEF MayOwn
<1>12. (th["ndis"].pc \in {"stopped", "drain"} => ~rxStarted)'
  <2>1. CASE t = "ndis"
    BY <1>1, <1>4, <2>1 DEF InEngineStep, EnginePcs
  <2>2. CASE t = "work"
    BY <1>3, <1>6, <2>2 DEF Threads
  <2> QED
    BY <2>1, <2>2 DEF Threads
<1> QED
  BY <1>7, <1>8, <1>9, <1>10, <1>11, <1>12 DEF DeviceInv

\* A callback of NDIS ends, goes on to another step, or returns.
LEMMA CallbackDevice ==
  ASSUME FlushInv, DeviceInv, CallbackStep
  PROVE  DeviceInv'
<1>0. ThreadShape /\ ~Idle("ndis") /\ adapter # "running" /\ adapter # "halted" /\ ctx
  BY DEF FlushInv, DeviceInv, CallbackStep, RestartArms, RestartFails, RestartOpens, RestartEnds,
     Flushed, Drains, PauseEnds, HaltEnds, PowersOff, PowersOn, Idle, At
\* While it is past its flush and not starting, no thread is starting a reader.
<1>1. ASSUME th["ndis"].pc \in {"stopped", "drain"}
      PROVE  /\ ~rxStarted /\ rxRun = NoRun /\ ~gate
             /\ \A t \in Threads : ~NeedsPipes(t) /\ ~MayOwn(t)
  <2>1. Idle("work")
    BY <1>1 DEF FlushInv, WorkPending, Idle, At
  <2>2. \A t \in Threads : ~NeedsPipes(t) /\ ~MayOwn(t)
    BY <1>1, <2>1 DEF NeedsPipes, MayOwn, Tearing, Threads, Idle, At
  <2>3. ~Starting("ndis")
    BY <1>1 DEF Starting, Tearing
  <2> QED
    BY <1>0, <1>1, <2>2, <2>3 DEF DeviceInv
\* The steps that take or bring the pipes, or take the device.
<1>2. CASE RestartArms \/ PowersOff \/ PowersOn \/ HaltEnds
  <2>1. th["ndis"].pc \in {"stopped", "drain"}
    BY <1>2 DEF RestartArms, PowersOff, PowersOn, HaltEnds, At
  <2>2. UNCHANGED <<power, gate, rxStarted, rxRun>>
    BY <1>2 DEF RestartArms, PowersOff, PowersOn, HaltEnds, Arms
  <2>3. \/ /\ StepTo("ndis", "resume")
           /\ op' = "restart" /\ op = "restart" /\ pipes' = TRUE /\ ctx' = ctx /\ adapter' = adapter
        \/ /\ th' = [th EXCEPT !["ndis"] = IdleThread] /\ op' = "none"
           /\ (adapter' = "halted" \/ (ctx' = ctx /\ adapter' = adapter))
    <3>1. CASE RestartArms
      BY <3>1 DEF RestartArms, Arms, Return, ndisVars
    <3>2. CASE PowersOff \/ PowersOn
      BY <3>2 DEF PowersOff, PowersOn, Arms, Return, ndisVars
    <3>3. CASE HaltEnds
      BY <3>3 DEF HaltEnds, Return
    <3> QED
      BY <1>2, <3>1, <3>2, <3>3
  <2>4. /\ th'["work"] = th["work"] /\ th'["ndis"].pc \in {"resume", "idle"}
        /\ th'["ndis"].pc = "idle" \/ (op' = "restart" /\ op = "restart" /\ pipes')
        /\ adapter' = "halted" => th'["ndis"].pc = "idle"
    BY <1>0, <2>2, <2>3, Moving, Returning DEF Threads, ThreadPcs
  <2>5. \A t \in Threads : ~NeedsPipes(t)'
    BY <1>1, <2>1, <2>4 DEF NeedsPipes, Tearing, Threads
  <2> QED
    BY <1>0, <1>1, <2>1, <2>2, <2>3, <2>4, <2>5 DEF DeviceInv, Idle, At
\* The others leave them where they are.
<1>3. CASE RestartFails \/ RestartOpens \/ RestartEnds \/ Flushed \/ Drains \/ PauseEnds
  <2>1. UNCHANGED <<ctx, power, pipes, rxStarted, rxRun>>
    BY <1>3 DEF RestartFails, RestartOpens, RestartEnds, Flushed, Drains, PauseEnds, ctxVars
  <2>2. adapter' # "halted" /\ op' \in {op, "none"}
    BY <1>0, <1>3 DEF RestartFails, RestartOpens, RestartEnds, Flushed, Drains, PauseEnds, Return,
       ndisVars
  <2>3. \/ \E pc \in {"start", "stop", "drain"} :
             StepTo("ndis", pc) /\ (pc = "drain" => At("ndis", "stopped"))
        \/ th' = [th EXCEPT !["ndis"] = IdleThread]
    BY <1>3 DEF RestartFails, RestartOpens, RestartEnds, Flushed, Drains, PauseEnds, Return
  <2>4. /\ th'["work"] = th["work"] /\ th'["ndis"].pc \in {"start", "stop", "drain", "idle"}
        /\ th'["ndis"].pc = "drain" => th["ndis"].pc = "stopped"
    BY <1>0, <2>1, <2>3, Moving, Returning DEF Threads, ThreadPcs, EnginePcs, At
  <2>5. th["ndis"].pc \in {"resume", "started", "startFailed", "flush", "stopped", "drain"}
    BY <1>3 DEF RestartFails, RestartOpens, RestartEnds, Flushed, Drains, PauseEnds, At
  <2>6. \A t \in Threads : /\ NeedsPipes(t)' => NeedsPipes(t)
                           /\ MayOwn(t) => MayOwn(t)'
    BY <2>4, <2>5 DEF NeedsPipes, MayOwn, Tearing, Threads
  <2>7. gate' => /\ ctx /\ power = "D0" /\ pipes
                 /\ adapter' = "running" \/ th'["ndis"].pc = "start"
    <3>1. CASE RestartOpens
      <4>1. At("ndis", "resume") /\ StepTo("ndis", "start")
        BY <3>1 DEF RestartOpens
      <4>2. th'["ndis"].pc = "start"
        BY <1>0, <2>1, <4>1, Moving DEF Threads, ThreadPcs, EnginePcs
      <4> QED
        BY <1>0, <4>1, <4>2 DEF DeviceInv
    <3>2. CASE RestartEnds
      BY <3>2 DEF RestartEnds, At, DeviceInv
    <3>3. CASE RestartFails \/ Flushed \/ Drains \/ PauseEnds
      <4>1. gate' = gate /\ th["ndis"].pc \in {"resume", "flush", "stopped", "drain"}
        BY <3>3 DEF RestartFails, Flushed, Drains, PauseEnds, ctxVars, At
      <4>2. ~Starting("ndis")
        BY <4>1 DEF Starting, Tearing
      <4> QED
        BY <1>0, <4>1, <4>2 DEF DeviceInv
    <3> QED
      BY <1>3, <3>1, <3>2, <3>3
  <2>8. th'["ndis"].pc = "start" => Starting("ndis")'
    BY DEF Starting
  <2>9. (th["ndis"].pc \in {"stopped", "drain"} => ~rxStarted)'
    BY <1>1, <2>1, <2>4
  <2>10. (rxRun # NoRun => ctx /\ pipes /\ (rxStarted \/ \E t \in Threads : MayOwn(t)))'
    BY <2>1, <2>6 DEF DeviceInv
  <2>11. (\A t \in Threads : NeedsPipes(t) => pipes)'
    BY <2>1, <2>6 DEF DeviceInv
  <2>12. (op = "restart" => power = "D0")' /\ (At("ndis", "resume") => op = "restart" /\ pipes)'
    BY <2>1, <2>2, <2>4 DEF DeviceInv, At
  <2> QED
    BY <1>0, <2>1, <2>2, <2>7, <2>8, <2>9, <2>10, <2>11, <2>12 DEF DeviceInv
<1> QED
  BY <1>2, <1>3 DEF CallbackStep

LEMMA DeviceStep == FlushInv /\ DeviceInv /\ [Next]_vars => DeviceInv'
<1> SUFFICES ASSUME FlushInv, DeviceInv, [Next]_vars PROVE DeviceInv'
  OBVIOUS
<1>0. ThreadShape
  BY DEF FlushInv
<1>1. ASSUME NEW t \in Threads, EngineStep(t) PROVE DeviceInv'
  BY <1>1, EngineDevice
<1>2. CASE CallbackStep
  BY <1>2, CallbackDevice
\* A callback that begins finds the NDIS thread idle, so a gate that is open is
\* that of a running adapter.
<1>3. CASE InitializeEx
  BY <1>3 DEF InitializeEx, FlushInv, WorkPending, DeviceInv, Idle, At, NeedsPipes, MayOwn,
     Starting, Tearing, Threads
<1>4. CASE RestartBegins \/ PauseBegins \/ HaltBegins \/ SetPower("D0") \/ SetPower("Dx")
  <2>1. /\ Idle("ndis") /\ adapter # "halted" /\ adapter' # "halted"
        /\ UNCHANGED <<ctx, pipes, rxStarted, rxRun>>
    BY <1>4 DEF RestartBegins, PauseBegins, HaltBegins, SetPower, Quiesce, ctxVars, ndisVars
  <2>2. \E pc \in {"resume", "stop", "flush"} :
          StepTo("ndis", pc) /\ (pc = "resume" => op' = "restart" /\ pipes)
    BY <1>4 DEF RestartBegins, PauseBegins, HaltBegins, SetPower, Quiesce, Call
  <2>3. op' = "restart" => power' = "D0"
    BY <1>4 DEF RestartBegins, PauseBegins, HaltBegins, SetPower, Quiesce, Call, ctxVars
  <2>4. ~gate'
    <3>1. ~Starting("ndis")
      BY <2>1 DEF Starting, Tearing, Idle, At
    <3> QED
      BY <1>4, <3>1 DEF RestartBegins, PauseBegins, HaltBegins, SetPower, Quiesce, DeviceInv,
         ctxVars
  <2>5. /\ th'["work"] = th["work"] /\ th'["ndis"].pc \in {"resume", "stop", "flush"}
        /\ th'["ndis"].pc = "resume" => op' = "restart" /\ pipes'
    BY <1>0, <2>1, <2>2, Moving DEF Threads, ThreadPcs, EnginePcs
  <2>6. \A t \in Threads : /\ NeedsPipes(t)' => NeedsPipes(t)
                           /\ MayOwn(t) => MayOwn(t)'
    BY <2>1, <2>5 DEF NeedsPipes, MayOwn, Tearing, Threads, Idle, At
  <2> QED
    BY <2>1, <2>3, <2>4, <2>5, <2>6 DEF DeviceInv, At
\* The work item touches nothing but its own place.
<1>5. CASE WorkStep
  <2>1. UNCHANGED <<ctx, power, gate, pipes, rxStarted, rxRun, op, adapter>>
    BY <1>5 DEF WorkStep, WorkStarts, RecoveryDeclined, RecoveryBegins, RecoveryCancels,
       RecoveryRestarts,
       RecoveryEnds, ResetCompletes, ctxVars, ndisVars
  <2>2. \/ \E pc \in {"recover", "cancelOut", "idle", "stop", "start", "finish"} :
             StepTo("work", pc)
        \/ th' = [th EXCEPT !["work"] = IdleThread]
    BY <1>5 DEF WorkStep, WorkStarts, RecoveryDeclined, RecoveryBegins, RecoveryCancels,
       RecoveryRestarts,
       RecoveryEnds, ResetCompletes
  <2>3. th["work"].pc \in {"idle", "recover", "cancelOut", "stopped", "started", "startFailed",
     "finish"}
    BY <1>5 DEF WorkStep, WorkStarts, RecoveryDeclined, RecoveryBegins, RecoveryCancels,
       RecoveryRestarts,
       RecoveryEnds, At, Idle
  <2>4. /\ th'["ndis"] = th["ndis"]
        /\ th'["work"].pc \in {"recover", "cancelOut", "idle", "stop", "start", "finish"}
    BY <1>0, <2>1, <2>2, Moving, Returning DEF Threads, ThreadPcs, EnginePcs
  <2>5. \A t \in Threads : /\ NeedsPipes(t)' => NeedsPipes(t)
                           /\ MayOwn(t) => MayOwn(t)'
    BY <2>3, <2>4 DEF NeedsPipes, MayOwn, Tearing, Threads
  <2>6. Starting("ndis") => Starting("ndis")'
    BY <2>4 DEF Starting, Tearing
  <2> QED
    BY <2>1, <2>4, <2>5, <2>6 DEF DeviceInv, Idle, At
<1>6. CASE Removed \/ ResetEx
  <2>1. /\ UNCHANGED <<ctx, power, pipes, rxStarted, rxRun, th, op, adapter>>
        /\ gate' => gate
    BY <1>6 DEF Removed, ResetEx, elsewhere, ndisVars
  <2> QED
    BY <2>1 DEF DeviceInv, Idle, At, NeedsPipes, MayOwn, Starting, Tearing
<1>7. CASE UNCHANGED watched
  BY <1>7 DEF watched, DeviceInv, Idle, At, NeedsPipes, MayOwn, Starting, Tearing
<1> QED
  BY <1>1, <1>2, <1>3, <1>4, <1>5, <1>6, <1>7, BesideUnchanged
     DEF Next, NdisCalls, vars, ctxVars, ndisVars, watched

\* The pipes, the context and the power are there while the data path is open, and
\* the pipes and the context while a run is owned, whatever NDIS and the recovery do.
THEOREM PipesOutliveUseAlways == Spec => []PipesOutliveUse
<1>1. Init => DeviceInv
  BY DEF Init, DeviceInv, Idle, At, IdleThread, NeedsPipes, Tearing, Threads
<1>2. DeviceInv => PipesOutliveUse
  BY DEF DeviceInv, PipesOutliveUse
<1> QED
  BY <1>1, <1>2, FlushInit, FlushStep, DeviceStep, PTL DEF Spec

-----------------------------------------------------------------------------
(* Who owns a run, and how long.                                           *)

\* A thread that has come to own, or is about to own, a run that is not started.
Opening(t) ==
  \/ th[t].pc \in {"alloc", "submit", "send"}
  \/ Tearing(t) /\ th[t].goal # "stop"
\* The thread in the engine works on the owned run; a run is live because it is owned
\* or because it was orphaned; its gate is closed only while it is torn down.
OwnInv ==
  /\ \A t \in Threads :
       /\ th[t].pc \in {"cancel", "poll", "settle", "submit", "send"} =>
            rxRun \in Runs /\ th[t].run = rxRun
       /\ th[t].pc = "alloc" => rxRun = NoRun
       /\ th[t].pc = "settle" => run[rxRun].orphaned
       /\ th[t].pc \in {"cancel", "poll", "settle"} => ~run[rxRun].running
       /\ Opening(t) => ~rxStarted
  /\ rxStarted => rxRun # NoRun
  /\ \A r \in Runs : /\ run[r].live /\ ~run[r].orphaned => r = rxRun
                     /\ run[r].orphaned => ~run[r].running
  /\ rxRun # NoRun /\ ~run[rxRun].running =>
       \E t \in Threads : th[t].pc \in {"cancel", "poll", "settle"}
  /\ adapter = "halted" => ~ctx

-----------------------------------------------------------------------------
(* The books: how many hold a run.                                         *)

\* The types the books need; a completion that runs has a run.
CountShape ==
  /\ run \in [Runs -> [live : BOOLEAN, running : BOOLEAN, orphaned : BOOLEAN,
                       refs : Nat, inCompletion : Nat, out : Nat]]
  /\ cpu \in [Cpus -> [at : CpuPcs, run : Runs \cup {NoRun}, ok : BOOLEAN]]
  /\ \A c \in Cpus : cpu[c].at = "idle" <=> cpu[c].run = NoRun

\* Two subsets of a finite set that differ in x at most.
LEMMA Counts ==
  ASSUME NEW S, IsFiniteSet(S), NEW A \in SUBSET S, NEW B \in SUBSET S, NEW x \in S,
         A \ {x} = B \ {x}
  PROVE  /\ Cardinality(A) \in Nat /\ Cardinality(B) \in Nat
         /\ x \in A => Cardinality(A) >= 1
         /\ Cardinality(B) = Cardinality(A) + (IF x \in B THEN 1 ELSE 0)
                                            - (IF x \in A THEN 1 ELSE 0)
<1>1. IsFiniteSet(A) /\ IsFiniteSet(B)
  BY FS_Subset
<1>2. Cardinality(A) \in Nat /\ Cardinality(B) \in Nat /\ Cardinality(A \ {x}) \in Nat
  BY <1>1, FS_CardinalityType, FS_RemoveElement
<1>3. /\ Cardinality(A \ {x}) = IF x \in A THEN Cardinality(A) - 1 ELSE Cardinality(A)
      /\ Cardinality(B \ {x}) = IF x \in B THEN Cardinality(B) - 1 ELSE Cardinality(B)
  BY <1>1, FS_RemoveElement
<1> QED
  BY <1>2, <1>3

\* Who holds run r besides its owner and the USB stack: completions, those about to
\* send its read again, those that count in InCompletion, a thread that submits.
CpusOf(r)     == {c \in Cpus : cpu[c].run = r}
Resending(r)  == {c \in Cpus : cpu[c].run = r /\ cpu[c].at = "send"}
Announcing(r) == {c \in Cpus : cpu[c].run = r /\ cpu[c].at \in Announced}
Submitting(r) == {t \in Threads : th[t].run = r /\ th[t].pc = "send"}

\* One completion changes: what that does to the counts of any run.
LEMMA CpuCounts ==
  ASSUME NEW c \in Cpus, \A d \in Cpus \ {c} : cpu'[d] = cpu[d], NEW r
  PROVE  /\ Cardinality(CpusOf(r)) \in Nat /\ Cardinality(Resending(r)) \in Nat
         /\ Cardinality(Announcing(r)) \in Nat
         /\ c \in CpusOf(r) => Cardinality(CpusOf(r)) >= 1
         /\ c \in Resending(r) => Cardinality(Resending(r)) >= 1
         /\ c \in Announcing(r) => Cardinality(Announcing(r)) >= 1
         /\ Cardinality(CpusOf(r)') = Cardinality(CpusOf(r))
              + (IF cpu'[c].run = r THEN 1 ELSE 0) - (IF cpu[c].run = r THEN 1 ELSE 0)
         /\ Cardinality(Resending(r)') = Cardinality(Resending(r))
              + (IF cpu'[c].run = r /\ cpu'[c].at = "send" THEN 1 ELSE 0)
              - (IF cpu[c].run = r /\ cpu[c].at = "send" THEN 1 ELSE 0)
         /\ Cardinality(Announcing(r)') = Cardinality(Announcing(r))
              + (IF cpu'[c].run = r /\ cpu'[c].at \in Announced THEN 1 ELSE 0)
              - (IF cpu[c].run = r /\ cpu[c].at \in Announced THEN 1 ELSE 0)
<1>1. /\ CpusOf(r) \in SUBSET Cpus /\ CpusOf(r)' \in SUBSET Cpus
      /\ CpusOf(r) \ {c} = CpusOf(r)' \ {c}
      /\ c \in CpusOf(r) <=> cpu[c].run = r
      /\ c \in CpusOf(r)' <=> cpu'[c].run = r
  BY DEF CpusOf
<1>2. /\ Resending(r) \in SUBSET Cpus /\ Resending(r)' \in SUBSET Cpus
      /\ Resending(r) \ {c} = Resending(r)' \ {c}
      /\ c \in Resending(r) <=> cpu[c].run = r /\ cpu[c].at = "send"
      /\ c \in Resending(r)' <=> cpu'[c].run = r /\ cpu'[c].at = "send"
  BY DEF Resending
<1>3. /\ Announcing(r) \in SUBSET Cpus /\ Announcing(r)' \in SUBSET Cpus
      /\ Announcing(r) \ {c} = Announcing(r)' \ {c}
      /\ c \in Announcing(r) <=> cpu[c].run = r /\ cpu[c].at \in Announced
      /\ c \in Announcing(r)' <=> cpu'[c].run = r /\ cpu'[c].at \in Announced
  BY DEF Announcing
<1>4. IsFiniteSet(Cpus)
  BY NcmCpus
<1>5. /\ Cardinality(CpusOf(r)) \in Nat
      /\ c \in CpusOf(r) => Cardinality(CpusOf(r)) >= 1
      /\ Cardinality(CpusOf(r)') = Cardinality(CpusOf(r))
              + (IF c \in CpusOf(r)' THEN 1 ELSE 0) - (IF c \in CpusOf(r) THEN 1 ELSE 0)
  BY <1>1, <1>4, Counts
<1>6. /\ Cardinality(Resending(r)) \in Nat
      /\ c \in Resending(r) => Cardinality(Resending(r)) >= 1
      /\ Cardinality(Resending(r)') = Cardinality(Resending(r))
              + (IF c \in Resending(r)' THEN 1 ELSE 0) - (IF c \in Resending(r) THEN 1 ELSE 0)
  BY <1>2, <1>4, Counts
<1>7. /\ Cardinality(Announcing(r)) \in Nat
      /\ c \in Announcing(r) => Cardinality(Announcing(r)) >= 1
      /\ Cardinality(Announcing(r)') = Cardinality(Announcing(r))
              + (IF c \in Announcing(r)' THEN 1 ELSE 0) - (IF c \in Announcing(r) THEN 1 ELSE 0)
  BY <1>3, <1>4, Counts
<1> QED
  BY <1>1, <1>2, <1>3, <1>5, <1>6, <1>7

LEMMA ThreadsAreTwo == IsFiniteSet(Threads)
<1>1. IsFiniteSet({} \cup {"ndis"})
  BY FS_EmptySet, FS_AddElement
<1>2. IsFiniteSet(({} \cup {"ndis"}) \cup {"work"})
  BY <1>1, FS_AddElement
<1>3. Threads = ({} \cup {"ndis"}) \cup {"work"}
  BY DEF Threads
<1> QED
  BY <1>2, <1>3

\* One thread changes: what that does to the submissions of any run.
LEMMA ThreadCounts ==
  ASSUME NEW t \in Threads, \A u \in Threads \ {t} : th'[u] = th[u], NEW r
  PROVE  /\ Cardinality(Submitting(r)) \in Nat
         /\ t \in Submitting(r) => Cardinality(Submitting(r)) >= 1
         /\ Cardinality(Submitting(r)') = Cardinality(Submitting(r))
              + (IF th'[t].run = r /\ th'[t].pc = "send" THEN 1 ELSE 0)
              - (IF th[t].run = r /\ th[t].pc = "send" THEN 1 ELSE 0)
<1>2. /\ Submitting(r) \in SUBSET Threads /\ Submitting(r)' \in SUBSET Threads
      /\ Submitting(r) \ {t} = Submitting(r)' \ {t}
      /\ t \in Submitting(r) <=> th[t].run = r /\ th[t].pc = "send"
      /\ t \in Submitting(r)' <=> th'[t].run = r /\ th'[t].pc = "send"
  BY DEF Submitting
<1>3. /\ Cardinality(Submitting(r)) \in Nat
      /\ t \in Submitting(r) => Cardinality(Submitting(r)) >= 1
      /\ Cardinality(Submitting(r)') = Cardinality(Submitting(r))
              + (IF t \in Submitting(r)' THEN 1 ELSE 0) - (IF t \in Submitting(r) THEN 1 ELSE 0)
  BY <1>2, ThreadsAreTwo, Counts
<1> QED
  BY <1>2, <1>3

\* A completion that uses a run, or sends for it, is one of its holders.
LEMMA WithinCpus ==
  ASSUME NEW r
  PROVE  /\ Cardinality(Announcing(r)) <= Cardinality(CpusOf(r))
         /\ Cardinality(Announcing(r)') <= Cardinality(CpusOf(r)')
<1>1. /\ CpusOf(r) \in SUBSET Cpus /\ Announcing(r) \in SUBSET CpusOf(r)
      /\ CpusOf(r)' \in SUBSET Cpus /\ Announcing(r)' \in SUBSET CpusOf(r)'
  BY DEF CpusOf, Announcing
<1>2. IsFiniteSet(CpusOf(r)) /\ IsFiniteSet(CpusOf(r)')
  BY <1>1, NcmCpus, FS_Subset
<1> QED
  BY <1>1, <1>2, FS_Subset

\* The conjunct of RefsExact for run r, in terms of the counts above.
RefsOk(r) ==
  /\ run[r].refs = Holders(r)
  /\ run[r].inCompletion = Cardinality(Announcing(r))
  /\ run[r].live <=> run[r].refs > 0

LEMMA RefsAreOk ==
  ASSUME NEW r
  PROVE  /\ Holders(r) = (IF rxRun = r THEN 1 ELSE 0) + run[r].out + Cardinality(CpusOf(r))
                         + Cardinality(Resending(r)) + Cardinality(Submitting(r))
         /\ Holders(r)' = (IF rxRun' = r THEN 1 ELSE 0) + run'[r].out + Cardinality(CpusOf(r)')
                          + Cardinality(Resending(r)') + Cardinality(Submitting(r)')
         /\ RefsExact <=> \A q \in Runs : RefsOk(q)
BY DEF Holders, RefsExact, RefsOk, CpusOf, Resending, Announcing, Submitting

CountInv == CountShape /\ \A r \in Runs : RefsOk(r)

\* A completion moves on with the run it has.
LEMMA CpuGoes ==
  ASSUME CountShape, NEW c \in Cpus, NEW at \in CpuPcs, CpuTo(c, at)
  PROVE  /\ cpu'[c].run = cpu[c].run /\ cpu'[c].at = at
         /\ \A d \in Cpus \ {c} : cpu'[d] = cpu[d]
         /\ cpu' \in [Cpus -> [at : CpuPcs, run : Runs \cup {NoRun}, ok : BOOLEAN]]
BY DEF CountShape, CpuTo

\* What the steps do to the run they are about.
RunKept(q) ==
  /\ \A r \in Runs \ {q} : run'[r] = run[r]
  /\ run' \in [Runs -> [live : BOOLEAN, running : BOOLEAN, orphaned : BOOLEAN,
                        refs : Nat, inCompletion : Nat, out : Nat]]

\* What each change of a run does to its fields.
LEMMA RunChanges ==
  ASSUME CountShape, NEW q \in Runs
  PROVE  /\ run' = AddRef(q) =>
              /\ RunKept(q) /\ run'[q].refs = run[q].refs + 1
              /\ run'[q].live = run[q].live /\ run'[q].inCompletion = run[q].inCompletion
              /\ run'[q].out = run[q].out /\ run'[q].running = run[q].running
              /\ run'[q].orphaned = run[q].orphaned
         /\ run' = DropRef(q) /\ run[q].refs > 0 =>
              /\ RunKept(q) /\ run'[q].refs = run[q].refs - 1
              /\ run'[q].live = run[q].live /\ run'[q].inCompletion = run[q].inCompletion
              /\ run'[q].out = run[q].out /\ run'[q].running = run[q].running
              /\ run'[q].orphaned = run[q].orphaned
         /\ run' = Sent(q) =>
              /\ RunKept(q) /\ run'[q].out = run[q].out + 1
              /\ run'[q].live = run[q].live /\ run'[q].inCompletion = run[q].inCompletion
              /\ run'[q].refs = run[q].refs /\ run'[q].running = run[q].running
              /\ run'[q].orphaned = run[q].orphaned
         /\ run' = [run EXCEPT ![q] = FreeRun] =>
              RunKept(q) /\ run'[q] = FreeRun
<1> USE DEF CountShape, RunKept
<1>1. ASSUME run' = AddRef(q) 
      PROVE  /\ RunKept(q) /\ run'[q].refs = run[q].refs + 1
              /\ run'[q].live = run[q].live /\ run'[q].inCompletion = run[q].inCompletion
              /\ run'[q].out = run[q].out /\ run'[q].running = run[q].running
              /\ run'[q].orphaned = run[q].orphaned
  BY <1>1 DEF AddRef
<1>2. ASSUME run' = DropRef(q), run[q].refs > 0
      PROVE   /\ RunKept(q) /\ run'[q].refs = run[q].refs - 1
              /\ run'[q].live = run[q].live /\ run'[q].inCompletion = run[q].inCompletion
              /\ run'[q].out = run[q].out /\ run'[q].running = run[q].running
              /\ run'[q].orphaned = run[q].orphaned
  BY <1>2 DEF DropRef
<1>3. ASSUME run' = Sent(q)
      PROVE   /\ RunKept(q) /\ run'[q].out = run[q].out + 1
              /\ run'[q].live = run[q].live /\ run'[q].inCompletion = run[q].inCompletion
              /\ run'[q].refs = run[q].refs /\ run'[q].running = run[q].running
              /\ run'[q].orphaned = run[q].orphaned
  BY <1>3 DEF Sent
<1>4. ASSUME run' = [run EXCEPT ![q] = FreeRun] PROVE RunKept(q) /\ run'[q] = FreeRun
  BY <1>4 DEF FreeRun
<1> QED
  BY <1>1, <1>2, <1>3, <1>4

\* A step of a completion keeps count of the run it belongs to.
LEMMA CompletionCounts ==
  ASSUME CountInv, NEW c \in Cpus, CompletionStep(c)
  PROVE  CountInv'
<1>1. PICK q \in Runs : q = cpu[c].run
  BY DEF CountInv, CountShape, CompletionStep, Announces, ChecksOrphaned, HandlesRead, Indicates,
     FindsAlive, Resends, ResendSends, ResendFails, FindsFailure, Withdraws, Leaves, CpuAt
<1>2. UNCHANGED <<rxRun, th>>
  BY DEF CompletionStep, Announces, ChecksOrphaned, HandlesRead, Indicates,
     FindsAlive, Resends, ResendSends, ResendFails, FindsFailure, Withdraws, Leaves,
     ctxVars, cpuRest
<1>3. \A d \in Cpus \ {c} : cpu'[d] = cpu[d]
  BY DEF CompletionStep, Announces, ChecksOrphaned, HandlesRead, Indicates,
     FindsAlive, Resends, ResendSends, ResendFails, FindsFailure, Withdraws, Leaves, CpuTo,
     CountInv, CountShape
\* What the books say of q, before and after.
<1>4. /\ run[q].refs = Holders(q) /\ run[q].inCompletion = Cardinality(Announcing(q))
      /\ run[q].live <=> run[q].refs > 0
      /\ run[q].refs \in Nat /\ run[q].inCompletion \in Nat /\ run[q].out \in Nat
  BY <1>1 DEF CountInv, CountShape, RefsOk
<1>5. \A r \in Runs : Cardinality(Submitting(r)') = Cardinality(Submitting(r))
  BY <1>2 DEF Submitting
<1>6. /\ Cardinality(Submitting(q)) \in Nat /\ Cardinality(CpusOf(q)) >= 1
      /\ Cardinality(CpusOf(q)) \in Nat /\ Cardinality(Resending(q)) \in Nat
      /\ Cardinality(Announcing(q)) \in Nat
      /\ cpu[c].at = "send" => Cardinality(Resending(q)) >= 1
      /\ cpu[c].at \in Announced => Cardinality(Announcing(q)) >= 1
  <2>1. /\ c \in CpusOf(q)
        /\ cpu[c].at = "send" => c \in Resending(q)
        /\ cpu[c].at \in Announced => c \in Announcing(q)
    BY <1>1 DEF CpusOf, Resending, Announcing
  <2>2. Cardinality(Submitting(q)) \in Nat
    BY <1>2, ThreadCounts DEF Threads
  <2> QED
    BY <1>3, <2>1, <2>2, CpuCounts
<1>7. /\ Holders(q) = (IF rxRun = q THEN 1 ELSE 0) + run[q].out + Cardinality(CpusOf(q))
                         + Cardinality(Resending(q)) + Cardinality(Submitting(q))
      /\ Holders(q)' = (IF rxRun = q THEN 1 ELSE 0) + run'[q].out + Cardinality(CpusOf(q)')
                         + Cardinality(Resending(q)') + Cardinality(Submitting(q))
  BY <1>1, <1>2, <1>5, RefsAreOk
\* Other runs are not concerned.
<1>8. ASSUME RunKept(q), cpu'[c].run \in {q, NoRun}, NEW r \in Runs \ {q}
      PROVE  RefsOk(r)'
  <2>1. cpu'[c].run # r /\ cpu[c].run # r
    BY <1>1, <1>8, NcmValues
  <2>2. /\ Cardinality(CpusOf(r)') = Cardinality(CpusOf(r))
        /\ Cardinality(Resending(r)') = Cardinality(Resending(r))
        /\ Cardinality(Announcing(r)') = Cardinality(Announcing(r))
    BY <1>3, <2>1, CpuCounts
  <2>3. run'[r] = run[r]
    BY <1>8 DEF RunKept
  <2>4. Holders(r)' = Holders(r)
    BY <1>2, <1>5, <2>2, <2>3, RefsAreOk
  <2> QED
    BY <2>2, <2>3, <2>4 DEF CountInv, RefsOk
<1>9. ASSUME RunKept(q), RefsOk(q)', NEW at \in CpuPcs \ {"idle"}, CpuTo(c, at)
      PROVE  CountInv'
  <2>1. cpu'[c].run = q /\ CountShape'
    BY <1>1, <1>9, CpuGoes, NcmValues DEF CountInv, CountShape, RunKept
  <2>2. \A r \in Runs \ {q} : RefsOk(r)'
    BY <1>8, <1>9, <2>1
  <2> QED
    BY <1>9, <2>1, <2>2 DEF CountInv
<1>10. ASSUME NEW at \in CpuPcs, CpuTo(c, at)
       PROVE  /\ cpu'[c].run = q /\ cpu'[c].at = at
              /\ Cardinality(CpusOf(q)') = Cardinality(CpusOf(q))
              /\ Cardinality(Resending(q)') = Cardinality(Resending(q))
                   + (IF at = "send" THEN 1 ELSE 0) - (IF cpu[c].at = "send" THEN 1 ELSE 0)
              /\ Cardinality(Announcing(q)') = Cardinality(Announcing(q))
                   + (IF at \in Announced THEN 1 ELSE 0)
                   - (IF cpu[c].at \in Announced THEN 1 ELSE 0)
  <2>1. cpu'[c].run = q /\ cpu[c].run = q /\ cpu'[c].at = at
    BY <1>1, <1>10, CpuGoes DEF CountInv
  <2> QED
    BY <1>3, <1>6, <2>1, CpuCounts
<1>11. CASE Announces(c)
  <2>1. /\ run' = [run EXCEPT ![q].inCompletion = @ + 1] /\ CpuTo(c, "check")
        /\ cpu[c].at = "called"
    BY <1>1, <1>11 DEF Announces, CpuAt
  <2>2. /\ RunKept(q) /\ run'[q].inCompletion = run[q].inCompletion + 1
        /\ run'[q].live = run[q].live /\ run'[q].refs = run[q].refs /\ run'[q].out = run[q].out
    BY <1>1, <2>1 DEF CountInv, CountShape, RunKept
  <2>3. RefsOk(q)'
    BY <1>4, <1>6, <1>7, <1>10, <2>1, <2>2 DEF RefsOk, CpuPcs, Announced, Touching
  <2> QED
    BY <1>9, <2>1, <2>2, <2>3 DEF CpuPcs, Announced, Touching
<1>12. CASE ChecksOrphaned(c) \/ HandlesRead(c) \/ Indicates(c) \/ FindsAlive(c) \/ FindsFailure(c)
  <2>1. /\ run' = run /\ cpu[c].at \in Announced \ {"send"}
        /\ \E at \in Announced \ {"send"} : CpuTo(c, at)
    BY <1>12 DEF ChecksOrphaned, HandlesRead, Indicates, FindsAlive, FindsFailure, CpuAt,
       runVars, Announced, Touching
  <2>2. PICK at \in Announced \ {"send"} : CpuTo(c, at)
    BY <2>1
  <2>3. at \in CpuPcs \ {"idle"}
    BY DEF CpuPcs, Announced, Touching
  <2>4. RefsOk(q)'
    BY <1>4, <1>6, <1>7, <1>10, <2>1, <2>2, <2>3 DEF RefsOk
  <2>5. RunKept(q)
    BY <2>1 DEF RunKept, CountInv, CountShape
  <2> QED
    BY <1>9, <2>2, <2>3, <2>4, <2>5
<1>13. CASE Resends(c)
  <2>1. run' = AddRef(q) /\ CpuTo(c, "send") /\ cpu[c].at = "resend"
    BY <1>1, <1>13 DEF Resends, CpuAt
  <2>2. /\ RunKept(q) /\ run'[q].inCompletion = run[q].inCompletion
        /\ run'[q].live = run[q].live /\ run'[q].refs = run[q].refs + 1
        /\ run'[q].out = run[q].out
    BY <1>1, <2>1, RunChanges DEF CountInv
  <2>3. RefsOk(q)'
    BY <1>4, <1>6, <1>7, <1>10, <2>1, <2>2 DEF RefsOk, CpuPcs, Announced, Touching
  <2> QED
    BY <1>9, <2>1, <2>2, <2>3 DEF CpuPcs, Announced, Touching
<1>14. CASE ResendSends(c)
  <2>1. run' = Sent(q) /\ CpuTo(c, "done") /\ cpu[c].at = "send"
    BY <1>1, <1>14 DEF ResendSends, CpuAt
  <2>2. /\ RunKept(q) /\ run'[q].inCompletion = run[q].inCompletion
        /\ run'[q].live = run[q].live /\ run'[q].refs = run[q].refs
        /\ run'[q].out = run[q].out + 1
    BY <1>1, <2>1, RunChanges DEF CountInv
  <2>3. RefsOk(q)'
    BY <1>4, <1>6, <1>7, <1>10, <2>1, <2>2 DEF RefsOk, CpuPcs, Announced, Touching
  <2> QED
    BY <1>9, <2>1, <2>2, <2>3 DEF CpuPcs, Announced, Touching
<1>15. CASE ResendFails(c)
  <2>1. run' = DropRef(q) /\ CpuTo(c, "done") /\ cpu[c].at = "send"
    BY <1>1, <1>15 DEF ResendFails, CpuAt
  <2>2. run[q].refs > 0
    BY <1>4, <1>6, <1>7
  <2>3. /\ RunKept(q) /\ run'[q].inCompletion = run[q].inCompletion
        /\ run'[q].live = run[q].live /\ run'[q].refs = run[q].refs - 1
        /\ run'[q].out = run[q].out
    BY <1>1, <2>1, <2>2, RunChanges DEF CountInv
  <2>4. RefsOk(q)'
    BY <1>4, <1>6, <1>7, <1>10, <2>1, <2>2, <2>3 DEF RefsOk, CpuPcs, Announced, Touching
  <2> QED
    BY <1>9, <2>1, <2>3, <2>4 DEF CpuPcs, Announced, Touching
<1>16. CASE Withdraws(c)
  <2>1. /\ run' = [run EXCEPT ![q].inCompletion = @ - 1] /\ CpuTo(c, "leave")
        /\ cpu[c].at = "done"
    BY <1>1, <1>16 DEF Withdraws, CpuAt
  <2>2. run[q].inCompletion >= 1
    BY <1>4, <1>6, <2>1 DEF Announced
  <2>3. /\ RunKept(q) /\ run'[q].inCompletion = run[q].inCompletion - 1
        /\ run'[q].live = run[q].live /\ run'[q].refs = run[q].refs /\ run'[q].out = run[q].out
    BY <1>1, <1>4, <2>1, <2>2 DEF CountInv, CountShape, RunKept
  <2>4. RefsOk(q)'
    BY <1>4, <1>6, <1>7, <1>10, <2>1, <2>3 DEF RefsOk, CpuPcs, Announced, Touching
  <2> QED
    BY <1>9, <2>1, <2>3, <2>4 DEF CpuPcs, Announced, Touching
\* The last one out frees the run.
<1>17. CASE Leaves(c)
  <2>1. /\ cpu' = [cpu EXCEPT ![c] = IdleCpu] /\ cpu[c].at = "leave"
        /\ IF run[q].refs = 1 THEN run' = [run EXCEPT ![q] = FreeRun] ELSE run' = DropRef(q)
    BY <1>1, <1>17 DEF Leaves, Release, CpuAt
  <2>2. /\ cpu'[c] = IdleCpu
        /\ cpu' \in [Cpus -> [at : CpuPcs, run : Runs \cup {NoRun}, ok : BOOLEAN]]
        /\ \A d \in Cpus : cpu'[d].at = "idle" <=> cpu'[d].run = NoRun
    BY <1>1, <2>1, NcmValues DEF IdleCpu, CountInv, CountShape, CpuPcs
  <2>3. cpu[c].run = q /\ cpu'[c].run # q /\ cpu'[c].at = "idle"
    BY <1>1, <2>2, NcmValues DEF IdleCpu
  <2>4. /\ Cardinality(CpusOf(q)') = Cardinality(CpusOf(q)) - 1
        /\ Cardinality(Resending(q)') = Cardinality(Resending(q))
        /\ Cardinality(Announcing(q)') = Cardinality(Announcing(q))
    BY <1>3, <1>6, <2>1, <2>3, CpuCounts DEF Announced, Touching
  <2>5. Cardinality(Announcing(q)') <= Cardinality(CpusOf(q)')
    BY WithinCpus
  <2>6. ASSUME run[q].refs = 1 PROVE RunKept(q) /\ RefsOk(q)'
    <3>1. RunKept(q) /\ run'[q] = FreeRun
      BY <1>1, <2>1, <2>6, RunChanges DEF CountInv
    <3>2. /\ run'[q].refs = 0 /\ run'[q].inCompletion = 0 /\ run'[q].out = 0
          /\ run'[q].live = FALSE
      BY <3>1 DEF FreeRun
    <3>3. Holders(q)' = 0 /\ Cardinality(Announcing(q)') = 0
      BY <1>4, <1>6, <1>7, <2>4, <2>5, <2>6, <3>2
    <3>4. RefsOk(q)'
      BY <3>2, <3>3 DEF RefsOk
    <3> QED
      BY <3>1, <3>4
  <2>7. ASSUME run[q].refs # 1 PROVE RunKept(q) /\ RefsOk(q)'
    <3>1. run[q].refs >= 2
      BY <1>4, <1>6, <1>7, <2>7
    <3>2. /\ RunKept(q) /\ run'[q].inCompletion = run[q].inCompletion
          /\ run'[q].live = run[q].live /\ run'[q].refs = run[q].refs - 1
          /\ run'[q].out = run[q].out
      BY <1>1, <1>4, <2>1, <2>7, <3>1, RunChanges DEF CountInv
    <3>3. RefsOk(q)'
      BY <1>4, <1>6, <1>7, <2>4, <3>1, <3>2 DEF RefsOk
    <3> QED
      BY <3>2, <3>3
  <2>8. RunKept(q) /\ RefsOk(q)'
    BY <2>6, <2>7
  <2>9. \A r \in Runs \ {q} : RefsOk(r)'
    BY <1>8, <2>2, <2>8 DEF IdleCpu
  <2> QED
    BY <2>2, <2>8, <2>9 DEF CountInv, CountShape, RunKept
<1> QED
  BY <1>11, <1>12, <1>13, <1>14, <1>15, <1>16, <1>17 DEF CompletionStep

\* What the books say of a run.
LEMMA Books ==
  ASSUME CountInv, NEW q \in Runs
  PROVE  /\ run[q].refs = (IF rxRun = q THEN 1 ELSE 0) + run[q].out + Cardinality(CpusOf(q))
                          + Cardinality(Resending(q)) + Cardinality(Submitting(q))
         /\ run[q].inCompletion = Cardinality(Announcing(q))
         /\ run[q].live <=> run[q].refs > 0
         /\ run[q].refs \in Nat /\ run[q].inCompletion \in Nat /\ run[q].out \in Nat
         /\ Cardinality(CpusOf(q)) \in Nat /\ Cardinality(Resending(q)) \in Nat
         /\ Cardinality(Announcing(q)) \in Nat /\ Cardinality(Submitting(q)) \in Nat
         /\ Cardinality(Announcing(q)) <= Cardinality(CpusOf(q))
<1>1. /\ Submitting(q) \in SUBSET Threads /\ CpusOf(q) \in SUBSET Cpus
      /\ Resending(q) \in SUBSET Cpus /\ Announcing(q) \in SUBSET Cpus
  BY DEF Submitting, CpusOf, Resending, Announcing
<1>2. /\ Cardinality(Submitting(q)) \in Nat /\ Cardinality(CpusOf(q)) \in Nat
      /\ Cardinality(Resending(q)) \in Nat /\ Cardinality(Announcing(q)) \in Nat
  BY <1>1, ThreadsAreTwo, NcmCpus, FS_Subset, FS_CardinalityType
<1> QED
  BY <1>2, RefsAreOk, WithinCpus DEF CountInv, CountShape, RefsOk

\* A step of a thread on run q, as the books see it.
LEMMA ThreadBooks ==
  ASSUME CountInv, NEW t \in Threads, \A u \in Threads \ {t} : th'[u] = th[u], UNCHANGED cpu,
         NEW q \in Runs, RunKept(q),
         \A r \in Runs \ {q} : rxRun' = r <=> rxRun = r,
         th[t].pc = "send" => th[t].run = q,
         th'[t].pc = "send" => th'[t].run = q,
         run'[q].refs = (IF rxRun' = q THEN 1 ELSE 0) + run'[q].out + Cardinality(CpusOf(q))
                        + Cardinality(Resending(q)) + Cardinality(Submitting(q))
                        + (IF th'[t].pc = "send" THEN 1 ELSE 0)
                        - (IF th[t].pc = "send" THEN 1 ELSE 0),
         run'[q].inCompletion = Cardinality(Announcing(q)),
         run'[q].live <=> run'[q].refs > 0
  PROVE  CountInv'
<1>1. CountShape'
  BY DEF CountInv, CountShape, RunKept
<1>2. \A r \in Runs : /\ CpusOf(r)' = CpusOf(r) /\ Resending(r)' = Resending(r)
                      /\ Announcing(r)' = Announcing(r)
  BY DEF CpusOf, Resending, Announcing
<1>3. ASSUME NEW r \in Runs
      PROVE  /\ Cardinality(Submitting(r)) \in Nat
             /\ Cardinality(Submitting(r)') = Cardinality(Submitting(r))
                  + (IF r = q /\ th'[t].pc = "send" THEN 1 ELSE 0)
                  - (IF r = q /\ th[t].pc = "send" THEN 1 ELSE 0)
  BY ThreadCounts
<1>4. RefsOk(q)'
  <2>1. /\ Holders(q)' = (IF rxRun' = q THEN 1 ELSE 0) + run'[q].out + Cardinality(CpusOf(q)')
                         + Cardinality(Resending(q)') + Cardinality(Submitting(q)')
        /\ run'[q].out \in Nat
    BY RefsAreOk DEF RunKept
  <2>2. /\ Cardinality(Submitting(q)) \in Nat /\ Cardinality(CpusOf(q)) \in Nat
        /\ Cardinality(Resending(q)) \in Nat
    BY Books
  <2>3. Holders(q)' = run'[q].refs
    BY <1>2, <1>3, <2>1, <2>2
  <2> QED
    BY <1>2, <2>3 DEF RefsOk
<1>5. ASSUME NEW r \in Runs \ {q} PROVE RefsOk(r)'
  <2>1. run'[r] = run[r] /\ Cardinality(Submitting(r)') = Cardinality(Submitting(r))
    BY <1>3 DEF RunKept
  <2>2. Holders(r)' = Holders(r)
    BY <1>2, <2>1, RefsAreOk
  <2> QED
    BY <1>2, <2>1, <2>2 DEF RefsOk, CountInv
<1> QED
  BY <1>1, <1>4, <1>5 DEF CountInv

\* Steps that leave runs, completions and submissions alone.
LEMMA NothingCounted ==
  ASSUME CountInv, UNCHANGED <<run, cpu>>, \A r \in Runs : rxRun' = r <=> rxRun = r,
         \A t \in Threads : \/ th'[t] = th[t]
                            \/ th'[t].pc # "send" /\ th[t].pc # "send"
  PROVE  CountInv'
<1>1. CountShape'
  BY DEF CountInv, CountShape
<1>2. ASSUME NEW r \in Runs
      PROVE  RefsOk(r)'
  <2>1. /\ CpusOf(r)' = CpusOf(r) /\ Resending(r)' = Resending(r)
        /\ Announcing(r)' = Announcing(r) /\ Submitting(r)' = Submitting(r)
    BY DEF CpusOf, Resending, Announcing, Submitting
  <2>2. Holders(r)' = Holders(r)
    BY <2>1, RefsAreOk
  <2> QED
    BY <2>1, <2>2 DEF RefsOk, CountInv
<1> QED
  BY <1>1, <1>2 DEF CountInv

\* The USB stack passes its reference on to the completion.
LEMMA ReturnCounts ==
  ASSUME CountInv, NEW c \in Cpus, ReadReturns(c)
  PROVE  CountInv'
<1>1. PICK q \in Runs, ok \in BOOLEAN :
        /\ run[q].out > 0
        /\ run' = [run EXCEPT ![q].out = @ - 1]
        /\ cpu' = [cpu EXCEPT ![c] = [at |-> "called", run |-> q, ok |-> ok]]
  BY DEF ReadReturns
<1>2. cpu[c].at = "idle" /\ cpu[c].run = NoRun /\ UNCHANGED <<rxRun, th>>
  BY DEF ReadReturns, CpuAt, ctxVars, cpuRest, CountInv, CountShape
<1>3. /\ \A d \in Cpus \ {c} : cpu'[d] = cpu[d]
      /\ cpu'[c].run = q /\ cpu'[c].at = "called"
      /\ cpu' \in [Cpus -> [at : CpuPcs, run : Runs \cup {NoRun}, ok : BOOLEAN]]
  BY <1>1 DEF CountInv, CountShape, CpuPcs
<1>4. /\ RunKept(q) /\ run'[q].out = run[q].out - 1
      /\ run'[q].inCompletion = run[q].inCompletion
      /\ run'[q].live = run[q].live /\ run'[q].refs = run[q].refs
  BY <1>1 DEF CountInv, CountShape, RunKept
<1>5. CountShape'
  BY <1>2, <1>3, <1>4, NcmValues DEF CountInv, CountShape, RunKept
<1>6. \A r \in Runs : Submitting(r)' = Submitting(r)
  BY <1>2 DEF Submitting
<1>7. ASSUME NEW r \in Runs
      PROVE  /\ Cardinality(CpusOf(r)') = Cardinality(CpusOf(r)) + (IF r = q THEN 1 ELSE 0)
             /\ Cardinality(Resending(r)') = Cardinality(Resending(r))
             /\ Cardinality(Announcing(r)') = Cardinality(Announcing(r))
  <2>1. cpu[c].run # r
    BY <1>2, NcmValues
  <2> QED
    BY <1>3, <2>1, CpuCounts DEF Announced, Touching
<1>8. RefsOk(q)'
  <2>1. Holders(q)' = Holders(q)
    BY <1>2, <1>4, <1>6, <1>7, Books, RefsAreOk
  <2> QED
    BY <1>4, <1>7, <2>1 DEF CountInv, RefsOk
<1>9. ASSUME NEW r \in Runs \ {q} PROVE RefsOk(r)'
  <2>1. run'[r] = run[r]
    BY <1>4 DEF RunKept
  <2>2. Holders(r)' = Holders(r)
    BY <1>2, <1>6, <1>7, <2>1, Books, RefsAreOk
  <2> QED
    BY <1>7, <2>1, <2>2 DEF CountInv, RefsOk
<1> QED
  BY <1>5, <1>8, <1>9 DEF CountInv

\* A flag of a run changes.
LEMMA FlagChanges ==
  ASSUME CountShape, NEW q \in Runs,
         \/ run' = [run EXCEPT ![q].running = FALSE]
         \/ run' = [run EXCEPT ![q].orphaned = TRUE]
  PROVE  /\ RunKept(q) /\ run'[q].refs = run[q].refs /\ run'[q].out = run[q].out
         /\ run'[q].inCompletion = run[q].inCompletion /\ run'[q].live = run[q].live
<1>1. CASE run' = [run EXCEPT ![q].running = FALSE]
  BY <1>1 DEF CountShape, RunKept
<1>2. CASE run' = [run EXCEPT ![q].orphaned = TRUE]
  BY <1>2 DEF CountShape, RunKept
<1> QED
  BY <1>1, <1>2

\* A step of a thread in the engine keeps count of the run it works on.
LEMMA EngineCounts ==
  ASSUME ThreadShape, OwnInv, CountInv, NEW t \in Threads, EngineStep(t)
  PROVE  CountInv'
<1>1. \A u \in Threads \ {t} : th'[u] = th[u]
  BY EngineStays DEF InEngineStep
<1>2. UNCHANGED cpu
  BY DEF EngineStep, StopEnters, NothingToTear, TearBegins, TearStops, TearDrains, TearGivesUp,
     OrphanDetaches,
     StartEnters, Allocates, AllocationFails, Submits, SubmitSends, SubmitFails, StartEnds, rest
<1>3. CountShape
  BY DEF CountInv
<1>4. CASE StopEnters(t) \/ NothingToTear(t) \/ StartEnters(t) \/ AllocationFails(t) \/ StartEnds(t)
  <2>1. UNCHANGED run /\ rxRun' = rxRun /\ th[t].pc # "send" /\ th'[t].pc # "send"
    <3> USE DEF ThreadShape, At, StepTo, Moved, ctxVars, runVars
    <3>1. CASE StopEnters(t)
      BY <3>1 DEF StopEnters
    <3>2. CASE NothingToTear(t)
      BY <3>2 DEF NothingToTear, TornDown
    <3>3. CASE StartEnters(t)
      BY <3>3 DEF StartEnters
    <3>4. CASE AllocationFails(t)
      BY <3>4 DEF AllocationFails
    <3>5. CASE StartEnds(t)
      BY <3>5 DEF StartEnds
    <3> QED
      BY <1>4, <3>1, <3>2, <3>3, <3>4, <3>5
  <2> QED
    BY <1>1, <1>2, <2>1, NothingCounted
<1>9. CASE TearStops(t)
  <2>1. UNCHANGED <<run, rxRun>> /\ th[t].pc # "send" /\ th'[t].pc # "send"
    BY <1>9 DEF TearStops, At, StepTo, Moved, ThreadShape, ctxVars, runVars
  <2> QED
    BY <1>1, <1>2, <2>1, NothingCounted
<1>5. CASE TearBegins(t) \/ TearGivesUp(t)
  <2>1. PICK q \in Runs : /\ q = rxRun /\ rxRun' = rxRun
                          /\ \/ run' = [run EXCEPT ![q].running = FALSE]
                             \/ run' = [run EXCEPT ![q].orphaned = TRUE]
    BY <1>5 DEF TearBegins, TearGivesUp, OwnInv, At, ctxVars, ThreadShape
  <2>2. th[t].pc # "send" /\ th'[t].pc # "send"
    BY <1>5 DEF TearBegins, TearGivesUp, At, StepTo, Moved, ThreadShape
  <2>3. /\ RunKept(q) /\ run'[q].refs = run[q].refs /\ run'[q].out = run[q].out
        /\ run'[q].inCompletion = run[q].inCompletion /\ run'[q].live = run[q].live
    BY <1>3, <2>1, FlagChanges
  <2>4. run'[q].refs = (IF rxRun' = q THEN 1 ELSE 0) + run'[q].out + Cardinality(CpusOf(q))
                        + Cardinality(Resending(q)) + Cardinality(Submitting(q))
    BY <2>1, <2>3, Books
  <2>5. run'[q].inCompletion = Cardinality(Announcing(q)) /\ (run'[q].live <=> run'[q].refs > 0)
    BY <2>3, Books
  <2>6. run'[q].refs = (IF rxRun' = q THEN 1 ELSE 0) + run'[q].out + Cardinality(CpusOf(q))
                        + Cardinality(Resending(q)) + Cardinality(Submitting(q))
                        + (IF th'[t].pc = "send" THEN 1 ELSE 0)
                        - (IF th[t].pc = "send" THEN 1 ELSE 0)
    <3>1. /\ run'[q].out \in Nat /\ Cardinality(CpusOf(q)) \in Nat
          /\ Cardinality(Resending(q)) \in Nat /\ Cardinality(Submitting(q)) \in Nat
      BY <2>1, <2>3, Books DEF RunKept
    <3> QED
      BY <2>2, <2>4, <3>1
  <2> QED
    BY <1>1, <1>2, <2>1, <2>2, <2>3, <2>5, <2>6, ThreadBooks
<1>6. CASE TearDrains(t) \/ OrphanDetaches(t)
  <2>1. PICK q \in Runs : /\ q = rxRun /\ rxRun' = NoRun
                          /\ IF run[q].refs = 1 THEN run' = [run EXCEPT ![q] = FreeRun]
                             ELSE run' = DropRef(q)
    BY <1>6 DEF TearDrains, OrphanDetaches, OwnInv, At, TornDown, Release
  <2>2. th[t].pc # "send" /\ th'[t].pc # "send"
    BY <1>6 DEF TearDrains, OrphanDetaches, TornDown, At, ThreadShape
  <2>3. /\ RunKept(q) /\ run'[q].inCompletion = Cardinality(Announcing(q))
        /\ run'[q].live <=> run'[q].refs > 0
        /\ run'[q].refs = run'[q].out + Cardinality(CpusOf(q))
                        + Cardinality(Resending(q)) + Cardinality(Submitting(q))
    <3>1. CASE run[q].refs = 1
      <4>1. RunKept(q) /\ run'[q] = FreeRun
        BY <1>3, <2>1, <3>1, RunChanges
      <4>2. /\ run'[q].refs = 0 /\ run'[q].inCompletion = 0 /\ run'[q].out = 0
            /\ run'[q].live = FALSE
        BY <4>1 DEF FreeRun
      <4>3. /\ Cardinality(CpusOf(q)) = 0 /\ Cardinality(Resending(q)) = 0
            /\ Cardinality(Submitting(q)) = 0 /\ Cardinality(Announcing(q)) = 0
        BY <2>1, <3>1, Books
      <4> QED
        BY <4>1, <4>2, <4>3
    <3>2. CASE run[q].refs # 1
      <4>1. run[q].refs > 1
        BY <2>1, <3>2, Books
      <4>2. /\ RunKept(q) /\ run'[q].inCompletion = run[q].inCompletion
            /\ run'[q].live = run[q].live /\ run'[q].refs = run[q].refs - 1
            /\ run'[q].out = run[q].out
        <5>1. run' = DropRef(q) /\ run[q].refs > 0
          BY <2>1, <3>2, <4>1, Books
        <5> QED
          BY <1>3, <5>1, RunChanges
      <4> QED
        BY <2>1, <4>1, <4>2, Books
    <3> QED
      BY <3>1, <3>2
  <2>4. \A r \in Runs \ {q} : rxRun' = r <=> rxRun = r
    BY <2>1, NcmValues
  <2>5. run'[q].refs = (IF rxRun' = q THEN 1 ELSE 0) + run'[q].out + Cardinality(CpusOf(q))
                        + Cardinality(Resending(q)) + Cardinality(Submitting(q))
                        + (IF th'[t].pc = "send" THEN 1 ELSE 0)
                        - (IF th[t].pc = "send" THEN 1 ELSE 0)
    BY <2>1, <2>2, <2>3, Books, NcmValues DEF RunKept
  <2> QED
    BY <1>1, <1>2, <2>2, <2>3, <2>4, <2>5, ThreadBooks
\* A free run has no holders.
<1>7. CASE Allocates(t)
  <2>0. PICK q \in Runs :
          /\ ~run[q].live /\ rxRun' = q
          /\ run' = [run EXCEPT ![q] = [FreeRun EXCEPT !.live = TRUE, !.running = TRUE,
                                                       !.refs = 1]]
          /\ th' = [th EXCEPT ![t].pc = "submit", ![t].run = q, ![t].n = 0]
    BY <1>7 DEF Allocates
  <2>1. th[t].pc = "alloc" /\ rxRun = NoRun /\ th'[t].pc = "submit"
    BY <1>7, <2>0 DEF Allocates, OwnInv, At, ThreadShape
  <2>2. /\ RunKept(q) /\ run'[q].refs = 1 /\ run'[q].inCompletion = 0 /\ run'[q].out = 0
        /\ run'[q].live = TRUE
    BY <1>3, <2>0 DEF FreeRun, CountShape, RunKept
  <2>3. run[q].refs = 0
    <3>1. (run[q].live <=> run[q].refs > 0) /\ run[q].refs \in Nat
      BY Books
    <3> QED
      BY <2>0, <3>1
  <2>4. /\ Cardinality(CpusOf(q)) = 0 /\ Cardinality(Resending(q)) = 0
        /\ Cardinality(Submitting(q)) = 0 /\ Cardinality(Announcing(q)) = 0
    <3>1. run[q].refs = (IF rxRun = q THEN 1 ELSE 0) + run[q].out + Cardinality(CpusOf(q))
                          + Cardinality(Resending(q)) + Cardinality(Submitting(q))
      BY Books
    <3>2. /\ run[q].out \in Nat /\ Cardinality(CpusOf(q)) \in Nat
          /\ Cardinality(Resending(q)) \in Nat /\ Cardinality(Submitting(q)) \in Nat
          /\ Cardinality(Announcing(q)) \in Nat
          /\ Cardinality(Announcing(q)) <= Cardinality(CpusOf(q))
      BY Books
    <3>3. rxRun # q
      BY <2>1, NcmValues
    <3>4. 0 = run[q].out + Cardinality(CpusOf(q))
              + Cardinality(Resending(q)) + Cardinality(Submitting(q))
      BY <2>3, <3>1, <3>2, <3>3
    <3> QED
      BY <3>2, <3>4
  <2>5. \A r \in Runs \ {q} : rxRun' = r <=> rxRun = r
    BY <2>0, <2>1, NcmValues
  <2>6. run'[q].refs = (IF rxRun' = q THEN 1 ELSE 0) + run'[q].out + Cardinality(CpusOf(q))
                        + Cardinality(Resending(q)) + Cardinality(Submitting(q))
                        + (IF th'[t].pc = "send" THEN 1 ELSE 0)
                        - (IF th[t].pc = "send" THEN 1 ELSE 0)
    BY <2>0, <2>1, <2>2, <2>4
  <2> QED
    BY <1>1, <1>2, <2>1, <2>2, <2>4, <2>5, <2>6, ThreadBooks
<1>8. CASE Submits(t) \/ SubmitSends(t) \/ SubmitFails(t)
  <2>1. PICK q \in Runs : q = rxRun /\ rxRun' = rxRun /\ th[t].run = q
    BY <1>8 DEF Submits, SubmitSends, SubmitFails, OwnInv, At, ctxVars
  <2>2. th'[t].run = q
    BY <1>8, <2>1 DEF Submits, SubmitSends, SubmitFails, StepTo, Moved, ThreadShape
  <2>3. /\ RunKept(q) /\ run'[q].inCompletion = run[q].inCompletion
        /\ run'[q].live = run[q].live
        /\ run'[q].refs - run'[q].out = run[q].refs - run[q].out
             + (IF th'[t].pc = "send" THEN 1 ELSE 0) - (IF th[t].pc = "send" THEN 1 ELSE 0)
        /\ run'[q].refs > 0
    <3>1. CASE Submits(t)
      <4>1. run' = AddRef(q) /\ th[t].pc = "submit" /\ th'[t].pc = "send"
        BY <2>1, <3>1 DEF Submits, At, StepTo, Moved, ThreadShape
      <4> QED
        BY <1>3, <4>1, RunChanges, Books
    <3>2. CASE SubmitSends(t)
      <4>1. run' = Sent(q) /\ th[t].pc = "send" /\ th'[t].pc = "submit"
        BY <2>1, <3>2 DEF SubmitSends, At, ThreadShape
      <4> QED
        BY <1>3, <2>1, <4>1, RunChanges, Books
    <3>3. CASE SubmitFails(t)
      <4>1. run' = DropRef(q) /\ th[t].pc = "send" /\ th'[t].pc = "tear"
        BY <2>1, <3>3 DEF SubmitFails, At, ThreadShape
      <4>2. Cardinality(Submitting(q)) >= 1
        BY <1>1, <2>1, <4>1, ThreadCounts DEF Submitting
      <4>3. run[q].refs > 1
        BY <2>1, <4>2, Books
      <4>4. /\ RunKept(q) /\ run'[q].inCompletion = run[q].inCompletion
            /\ run'[q].live = run[q].live /\ run'[q].refs = run[q].refs - 1
            /\ run'[q].out = run[q].out
        <5>1. run[q].refs > 0
          BY <4>3, Books
        <5> QED
          BY <1>3, <4>1, <5>1, RunChanges
      <4> QED
        BY <4>1, <4>3, <4>4, Books
    <3> QED
      BY <1>8, <3>1, <3>2, <3>3
  <2>4. run'[q].refs = (IF rxRun' = q THEN 1 ELSE 0) + run'[q].out + Cardinality(CpusOf(q))
                        + Cardinality(Resending(q)) + Cardinality(Submitting(q))
                        + (IF th'[t].pc = "send" THEN 1 ELSE 0)
                        - (IF th[t].pc = "send" THEN 1 ELSE 0)
    <3>1. /\ run[q].refs \in Nat /\ run[q].out \in Nat /\ run'[q].out \in Nat
          /\ run'[q].refs \in Nat /\ Cardinality(CpusOf(q)) \in Nat
          /\ Cardinality(Resending(q)) \in Nat /\ Cardinality(Submitting(q)) \in Nat
      BY <2>1, <2>3, Books DEF RunKept
    <3>2. run[q].refs = (IF rxRun = q THEN 1 ELSE 0) + run[q].out + Cardinality(CpusOf(q))
                        + Cardinality(Resending(q)) + Cardinality(Submitting(q))
      BY Books
    <3> QED
      BY <2>1, <2>3, <3>1, <3>2
  <2>5. run'[q].inCompletion = Cardinality(Announcing(q)) /\ (run'[q].live <=> run'[q].refs > 0)
    BY <2>1, <2>3, Books
  <2> QED
    BY <1>1, <1>2, <2>1, <2>2, <2>3, <2>4, <2>5, ThreadBooks
<1> QED
  BY <1>4, <1>5, <1>6, <1>7, <1>8, <1>9 DEF EngineStep

-----------------------------------------------------------------------------
(* Steps outside the engine, and the completions.                          *)

\* Where a thread has a run, or is to make or to tear down one.
Busy == {"tear", "cancel", "poll", "settle", "alloc", "submit", "send"}

\* A step that leaves runs, completions and the engine alone.
Aside ==
  /\ UNCHANGED <<run, cpu, rxRun, rxStarted>>
  /\ \A t \in Threads : th'[t] = th[t] \/ (th[t].pc \notin Busy /\ th'[t].pc \notin Busy)
  /\ adapter' = "halted" => ~ctx'

\* The callbacks of NDIS outside the engine, the recovery, the hang check, writes.
LEMMA OutsideEngine ==
  ASSUME FlushInv, DeviceInv, OwnInv,
         NdisCalls \/ CallbackStep \/ Removed \/ CheckForHang \/ ResetEx \/ WorkStep \/ TxStep
         \/ UNCHANGED vars
  PROVE  Aside
<1>0. ThreadShape
  BY DEF FlushInv
<1>1. CASE InitializeEx
  <2>1. rxRun = NoRun /\ rxStarted = FALSE
    <3>1. adapter = "halted"
      BY <1>1 DEF InitializeEx
    <3>2. ~ctx
      BY <3>1 DEF OwnInv
    <3>3. rxRun = NoRun
      BY <3>2 DEF DeviceInv
    <3>4. ~rxStarted
      BY <3>3 DEF OwnInv
    <3> QED
      BY <3>3, <3>4
  <2> QED
    BY <1>1, <2>1 DEF InitializeEx, OwnInv, Aside, elsewhere, runVars
<1>2. CASE RestartBegins \/ PauseBegins \/ HaltBegins \/ SetPower("D0") \/ SetPower("Dx")
  <2>1. /\ UNCHANGED <<run, cpu, rxRun, rxStarted, ctx>> /\ th["ndis"].pc = "idle"
        /\ adapter' # "halted"
    BY <1>2 DEF RestartBegins, PauseBegins, HaltBegins, SetPower, Quiesce, ctxVars, ndisVars,
       elsewhere, runVars, Idle, At
  <2>2. \E pc \in {"resume", "stop", "flush"} : StepTo("ndis", pc)
    BY <1>2 DEF RestartBegins, PauseBegins, HaltBegins, SetPower, Quiesce, Call
  <2>3. th'["ndis"].pc \in {"resume", "stop", "flush"} /\ th'["work"] = th["work"]
    BY <1>0, <2>1, <2>2, Moving DEF Threads, ThreadPcs, EnginePcs
  <2> QED
    BY <2>1, <2>3 DEF Aside, Busy, Threads
<1>3. CASE CallbackStep
  <2>1. UNCHANGED <<run, cpu, rxRun, rxStarted>>
    BY <1>3 DEF CallbackStep, RestartArms, RestartFails, RestartOpens, RestartEnds, Flushed,
       Drains, PauseEnds, HaltEnds, PowersOff, PowersOn, Arms, ctxVars, elsewhere, runVars
  <2>2. th["ndis"].pc \in {"stopped", "resume", "started", "startFailed", "flush", "drain"}
    BY <1>3 DEF CallbackStep, RestartArms, RestartFails, RestartOpens, RestartEnds, Flushed,
       Drains, PauseEnds, HaltEnds, PowersOff, PowersOn, At
  <2>3. \/ \E pc \in {"resume", "stop", "start", "drain"} : StepTo("ndis", pc)
        \/ th' = [th EXCEPT !["ndis"] = IdleThread]
    BY <1>3 DEF CallbackStep, RestartArms, RestartFails, RestartOpens, RestartEnds, Flushed,
       Drains, PauseEnds, HaltEnds, PowersOff, PowersOn, Return
  <2>4. th'["ndis"].pc \in {"resume", "stop", "start", "drain", "idle"} /\ th'["work"] = th["work"]
    BY <1>0, <2>1, <2>3, Moving, Returning DEF Threads, ThreadPcs, EnginePcs
  <2>5. adapter' = "halted" => ~ctx'
    <3>1. adapter # "halted"
      BY <2>2 DEF DeviceInv, Idle, At
    <3> QED
      BY <1>3, <3>1 DEF CallbackStep, RestartArms, RestartFails, RestartOpens, RestartEnds, Flushed,
         Drains, PauseEnds, HaltEnds, PowersOff, PowersOn, ndisVars
  <2> QED
    BY <2>1, <2>2, <2>4, <2>5 DEF Aside, Busy, Threads
<1>4. CASE WorkStep
  <2>1. UNCHANGED <<ctx, adapter, run, cpu, rxRun, rxStarted>>
    BY <1>4 DEF WorkStep, WorkStarts, RecoveryDeclined, RecoveryBegins, RecoveryCancels,
       RecoveryRestarts,
       RecoveryEnds, ResetCompletes, ctxVars, ndisVars, elsewhere, runVars
  <2>2. \/ \E pc \in {"recover", "cancelOut", "idle", "stop", "start", "finish"} :
             StepTo("work", pc)
        \/ th' = [th EXCEPT !["work"] = IdleThread]
    BY <1>4 DEF WorkStep, WorkStarts, RecoveryDeclined, RecoveryBegins, RecoveryCancels,
       RecoveryRestarts,
       RecoveryEnds, ResetCompletes
  <2>3. th["work"].pc \in {"idle", "recover", "cancelOut", "stopped", "started", "startFailed",
     "finish"}
    BY <1>4 DEF WorkStep, WorkStarts, RecoveryDeclined, RecoveryBegins, RecoveryCancels,
       RecoveryRestarts,
       RecoveryEnds, At, Idle
  <2>4. /\ th'["ndis"] = th["ndis"]
        /\ th'["work"].pc \in {"recover", "cancelOut", "idle", "stop", "start", "finish"}
    BY <1>0, <2>1, <2>2, Moving, Returning DEF Threads, ThreadPcs, EnginePcs
  <2> QED
    BY <2>1, <2>3, <2>4 DEF Aside, Busy, Threads, OwnInv
<1>5. CASE Removed \/ CheckForHang \/ ResetEx
  BY <1>5 DEF Removed, CheckForHang, ResetEx, Aside, OwnInv, elsewhere, runVars, ndisVars
<1>6. CASE TxStep
  BY <1>6 DEF TxStep, SendBegins, SendCounts, SendEnds, NblsReturn, WriteCompletes, Aside, OwnInv,
     ctxVars, txRest, runVars
<1>7. CASE UNCHANGED vars
  BY <1>7 DEF vars, ctxVars, runVars, ndisVars, Aside, OwnInv
<1> QED
  BY <1>1, <1>2, <1>3, <1>4, <1>5, <1>6, <1>7 DEF NdisCalls

\* What a completion knows of its run.
LEMMA MyRunLives ==
  ASSUME CountInv, NEW c \in Cpus, cpu[c].at # "idle"
  PROVE  /\ cpu[c].run \in Runs
         /\ MyRun(c).live /\ MyRun(c).refs >= 1
         /\ rxRun = cpu[c].run => MyRun(c).refs >= 2
         /\ cpu[c].at \in Announced => MyRun(c).inCompletion >= 1
<1>1. PICK q \in Runs : q = cpu[c].run
  BY DEF CountInv, CountShape
<1>2. /\ CpusOf(q) \in SUBSET Cpus /\ c \in CpusOf(q)
      /\ Announcing(q) \in SUBSET Cpus /\ (cpu[c].at \in Announced => c \in Announcing(q))
  BY <1>1 DEF CpusOf, Announcing
<1>3. /\ Cardinality(CpusOf(q)) >= 1
      /\ cpu[c].at \in Announced => Cardinality(Announcing(q)) >= 1
  BY <1>2, NcmCpus, Counts
<1>4. /\ run[q].refs = (IF rxRun = q THEN 1 ELSE 0) + run[q].out + Cardinality(CpusOf(q))
                          + Cardinality(Resending(q)) + Cardinality(Submitting(q))
      /\ run[q].out \in Nat /\ Cardinality(CpusOf(q)) \in Nat
      /\ Cardinality(Resending(q)) \in Nat /\ Cardinality(Submitting(q)) \in Nat
  BY Books
<1>5. run[q].refs >= 1 /\ (rxRun = q => run[q].refs >= 2)
  BY <1>3, <1>4
<1>6. run[q].inCompletion = Cardinality(Announcing(q))
  BY Books
<1>7. run[q].live
  <2>1. run[q].live <=> run[q].refs > 0
    BY Books
  <2> QED
    BY <1>4, <1>5, <2>1
<1> QED
  BY <1>1, <1>3, <1>5, <1>6, <1>7 DEF MyRun

\* A completion, or the USB stack, leaves the flags of every run alone, or frees a
\* run that nobody owns.
LEMMA CompletionFlags ==
  ASSUME CountInv, NEW c \in Cpus, ReadReturns(c) \/ CompletionStep(c)
  PROVE  /\ UNCHANGED <<th, rxRun, rxStarted, ctx, adapter>>
         /\ \A d \in Cpus \ {c} : cpu'[d] = cpu[d]
         /\ \A r \in Runs : \/ /\ run'[r].live = run[r].live
                               /\ run'[r].running = run[r].running
                               /\ run'[r].orphaned = run[r].orphaned
                            \/ r # rxRun /\ run'[r] = FreeRun
<1>1. UNCHANGED <<th, rxRun, rxStarted, ctx, adapter>>
  BY DEF ReadReturns, CompletionStep, Announces, ChecksOrphaned, HandlesRead, Indicates,
     FindsAlive, Resends, ResendSends, ResendFails, FindsFailure, Withdraws, Leaves,
     ctxVars, cpuRest, ndisVars
<1>2. \A d \in Cpus \ {c} : cpu'[d] = cpu[d]
  BY DEF ReadReturns, CompletionStep, Announces, ChecksOrphaned, HandlesRead, Indicates,
     FindsAlive, Resends, ResendSends, ResendFails, FindsFailure, Withdraws, Leaves, CpuTo,
     CountInv, CountShape
<1>3. CASE ReadReturns(c)
  BY <1>1, <1>2, <1>3 DEF ReadReturns, CountInv, CountShape
<1>4. CASE CompletionStep(c)
  <2>1. cpu[c].at # "idle"
    BY <1>4 DEF CompletionStep, Announces, ChecksOrphaned, HandlesRead, Indicates,
       FindsAlive, Resends, ResendSends, ResendFails, FindsFailure, Withdraws, Leaves, CpuAt
  <2>2. PICK q \in Runs : q = cpu[c].run
    BY <2>1, MyRunLives
  <2>3. CASE Announces(c) \/ Withdraws(c)
    BY <1>1, <1>2, <2>2, <2>3 DEF Announces, Withdraws, CountInv, CountShape
  <2>4. CASE Resends(c) \/ ResendSends(c) \/ ResendFails(c)
    BY <1>1, <1>2, <2>2, <2>4 DEF Resends, ResendSends, ResendFails, AddRef, Sent, DropRef,
       CountInv, CountShape
  <2>5. CASE Leaves(c)
    <3>1. run[q].refs = 1 => q # rxRun
      BY <2>1, <2>2, MyRunLives DEF MyRun
    <3>2. IF run[q].refs = 1 THEN run' = [run EXCEPT ![q] = FreeRun] ELSE run' = DropRef(q)
      BY <2>2, <2>5 DEF Leaves, Release
    <3> QED
      BY <1>1, <1>2, <3>1, <3>2 DEF DropRef, CountInv, CountShape
  <2>6. CASE ChecksOrphaned(c) \/ HandlesRead(c) \/ Indicates(c) \/ FindsAlive(c) \/ FindsFailure(c)
    BY <1>1, <1>2, <2>6 DEF ChecksOrphaned, HandlesRead, Indicates, FindsAlive, FindsFailure,
       runVars
  <2> QED
    BY <1>4, <2>3, <2>4, <2>5, <2>6 DEF CompletionStep
<1> QED
  BY <1>3, <1>4

-----------------------------------------------------------------------------
(* The invariant of ownership is kept.                                     *)

LEMMA AsideCounts == CountInv /\ Aside => CountInv'
BY NothingCounted DEF Aside, Busy

LEMMA AsideOwns == OwnInv /\ Aside => OwnInv'
<1> SUFFICES ASSUME OwnInv, Aside PROVE OwnInv'
  OBVIOUS
<1> USE DEF Aside, Busy
<1>1. ASSUME NEW t \in Threads
      PROVE  /\ th'[t].pc \in {"cancel", "poll", "settle", "submit", "send"} =>
                  rxRun' \in Runs /\ th'[t].run = rxRun'
             /\ th'[t].pc = "alloc" => rxRun' = NoRun
             /\ th'[t].pc = "settle" => run'[rxRun'].orphaned
             /\ th'[t].pc \in {"cancel", "poll", "settle"} => ~run'[rxRun'].running
             /\ Opening(t)' => ~rxStarted'
  BY <1>1 DEF OwnInv, Opening, Tearing
<1>2. rxRun' # NoRun /\ ~run'[rxRun'].running =>
        \E t \in Threads : th'[t].pc \in {"cancel", "poll", "settle"}
  BY DEF OwnInv
<1> QED
  BY <1>1, <1>2 DEF OwnInv

LEMMA CompletionOwns ==
  ASSUME ThreadShape, CountInv, OwnInv, NEW c \in Cpus, ReadReturns(c) \/ CompletionStep(c)
  PROVE  OwnInv'
<1>1. /\ UNCHANGED <<th, rxRun, rxStarted, ctx, adapter>>
      /\ \A r \in Runs : \/ /\ run'[r].live = run[r].live
                            /\ run'[r].running = run[r].running
                            /\ run'[r].orphaned = run[r].orphaned
                         \/ r # rxRun /\ run'[r] = FreeRun
  BY CompletionFlags
<1>2. ASSUME NEW t \in Threads
      PROVE  /\ th'[t].pc \in {"cancel", "poll", "settle", "submit", "send"} =>
                  rxRun' \in Runs /\ th'[t].run = rxRun'
             /\ th'[t].pc = "alloc" => rxRun' = NoRun
             /\ th'[t].pc = "settle" => run'[rxRun'].orphaned
             /\ th'[t].pc \in {"cancel", "poll", "settle"} => ~run'[rxRun'].running
             /\ Opening(t)' => ~rxStarted'
  BY <1>1, <1>2 DEF OwnInv, Opening, Tearing
<1>3. rxRun' # NoRun /\ ~run'[rxRun'].running =>
        \E t \in Threads : th'[t].pc \in {"cancel", "poll", "settle"}
  BY <1>1 DEF OwnInv, ThreadShape
<1>4. \A r \in Runs : /\ run'[r].live /\ ~run'[r].orphaned => r = rxRun'
                      /\ run'[r].orphaned => ~run'[r].running
  BY <1>1 DEF OwnInv, FreeRun
<1> QED
  BY <1>1, <1>2, <1>3, <1>4 DEF OwnInv

\* A thread in the engine is alone there.
LEMMA EngineOwns ==
  ASSUME FlushInv, OwnInv, CountInv, NEW t \in Threads, EngineStep(t)
  PROVE  OwnInv'
<1>0. ThreadShape /\ ThreadShape' /\ CountShape /\ InEngineStep(t)
  BY EngineStays DEF FlushInv, CountInv
<1>1. ASSUME NEW u \in Threads \ {t} PROVE th'[u] = th[u] /\ th[u].pc \notin EnginePcs
  <2>1. EngineExclusive
    BY FlushExclusive
  <2> QED
    BY <1>0, <2>1 DEF InEngineStep, EngineExclusive, Threads
<1>2. (adapter = "halted" => ~ctx)'
  BY <1>0 DEF InEngineStep, OwnInv
\* What is left to show of the thread itself, and of the runs.
<1>3. ASSUME /\ th'[t].pc \in {"cancel", "poll", "settle", "submit", "send"} =>
                  rxRun' \in Runs /\ th'[t].run = rxRun'
             /\ th'[t].pc = "alloc" => rxRun' = NoRun
             /\ th'[t].pc = "settle" => run'[rxRun'].orphaned
             /\ th'[t].pc \in {"cancel", "poll", "settle"} => ~run'[rxRun'].running
             /\ Opening(t)' => ~rxStarted',
             rxStarted' => rxRun' # NoRun,
             \A r \in Runs : /\ run'[r].live /\ ~run'[r].orphaned => r = rxRun'
                             /\ run'[r].orphaned => ~run'[r].running,
             rxRun' # NoRun /\ ~run'[rxRun'].running => th'[t].pc \in {"cancel", "poll", "settle"}
      PROVE  OwnInv'
  BY <1>1, <1>2, <1>3 DEF OwnInv, Opening, Tearing, EnginePcs
\* The run that is owned goes on, unless it is this thread that tears it down.
<1>4. rxRun # NoRun /\ ~run[rxRun].running => th[t].pc \in {"cancel", "poll", "settle"}
  BY <1>1 DEF OwnInv, EnginePcs
<1>5. CASE StopEnters(t) \/ StartEnters(t) \/ AllocationFails(t) \/ StartEnds(t)
  <2>1. UNCHANGED <<run, rxRun>>
    BY <1>5 DEF StopEnters, StartEnters, AllocationFails, StartEnds, ctxVars, runVars
  <2>2. /\ th'[t].pc \notin {"cancel", "poll", "settle", "submit", "send", "alloc"}
        /\ th[t].pc \notin {"cancel", "poll", "settle"}
        /\ Opening(t)' => ~rxStarted'
        /\ rxStarted' => rxRun # NoRun
    <3> USE <1>0 DEF ThreadShape, Opening, Tearing, At, StepTo, Moved, ctxVars
    <3>1. CASE StopEnters(t)
      BY <3>1 DEF StopEnters, OwnInv
    <3>2. CASE StartEnters(t)
      BY <3>2 DEF StartEnters, OwnInv
    <3>3. CASE AllocationFails(t)
      BY <3>3 DEF AllocationFails, OwnInv
    <3>4. CASE StartEnds(t)
      BY <3>4, NcmValues DEF StartEnds, OwnInv
    <3> QED
      BY <1>5, <3>1, <3>2, <3>3, <3>4
  <2>3. \A r \in Runs : /\ run'[r].live /\ ~run'[r].orphaned => r = rxRun'
                        /\ run'[r].orphaned => ~run'[r].running
    BY <2>1 DEF OwnInv
  <2> QED
    BY <1>3, <1>4, <2>1, <2>2, <2>3
\* The reader is torn down: nothing is owned, and what is left alive is an orphan.
<1>6. CASE NothingToTear(t) \/ TearDrains(t) \/ OrphanDetaches(t)
  <2>1. /\ rxRun' = NoRun /\ th'[t].pc \in {"stopped", "alloc", "startFailed"}
        /\ Tearing(t)
    BY <1>0, <1>6 DEF NothingToTear, TearDrains, OrphanDetaches, TornDown, ThreadShape, Tearing, At
  <2>2. ~rxStarted'
    <3>1. rxStarted' => rxStarted /\ th[t].goal # "stop"
      BY <1>6, Zenon DEF NothingToTear, TearDrains, OrphanDetaches, TornDown
    <3>2. th[t].goal # "stop" => ~rxStarted
      BY <2>1 DEF OwnInv, Opening
    <3> QED
      BY <3>1, <3>2
  <2>3. \A r \in Runs : /\ run'[r].live /\ ~run'[r].orphaned => FALSE
                        /\ run'[r].orphaned => ~run'[r].running
    <3>1. CASE NothingToTear(t)
      <4>1. run' = run /\ rxRun = NoRun
        BY <3>1 DEF NothingToTear, runVars
      <4> QED
        BY <4>1, NcmValues DEF OwnInv
    <3>2. CASE TearDrains(t) \/ OrphanDetaches(t)
      <4>1. PICK q \in Runs : /\ q = rxRun
                              /\ IF run[q].refs = 1 THEN run' = [run EXCEPT ![q] = FreeRun]
                                 ELSE run' = DropRef(q) /\ run[q].orphaned
        BY <3>2 DEF TearDrains, OrphanDetaches, OwnInv, At, Release
      <4>2. CASE run[q].refs = 1
        <5>1. RunKept(q) /\ run'[q] = FreeRun
          BY <1>0, <4>1, <4>2, RunChanges
        <5> QED
          BY <4>1, <5>1 DEF OwnInv, RunKept, FreeRun
      <4>3. CASE run[q].refs # 1
        <5>1. /\ \A r \in Runs : run'[r].orphaned = run[r].orphaned /\ run'[r].live = run[r].live
                                 /\ run'[r].running = run[r].running
          BY <1>0, <4>1, <4>3 DEF DropRef, CountShape
        <5> QED
          BY <4>1, <4>3, <5>1 DEF OwnInv
      <4> QED
        BY <4>2, <4>3
    <3> QED
      BY <1>6, <3>1, <3>2
  <2>4. Opening(t)' => ~rxStarted'
    BY <2>2
  <2> QED
    BY <1>3, <2>1, <2>2, <2>3, <2>4
<1>10. CASE TearStops(t)
  <2>1. /\ UNCHANGED <<run, rxRun, rxStarted>> /\ th[t].pc = "cancel"
        /\ th'[t].pc = "poll" /\ th'[t].run = th[t].run /\ th'[t].goal = th[t].goal
    BY <1>0, <1>10 DEF TearStops, At, StepTo, Moved, ThreadShape, ctxVars, runVars
  <2>2. Opening(t)' => Opening(t)
    BY <2>1 DEF Opening, Tearing
  <2> QED
    BY <1>3, <2>1, <2>2 DEF OwnInv
<1>7. CASE TearBegins(t) \/ TearGivesUp(t)
  <2>1. PICK q \in Runs : /\ q = rxRun /\ rxRun' = q /\ th'[t].run = q
                          /\ rxStarted' = rxStarted /\ Tearing(t)
                          /\ th'[t].goal = th[t].goal
                          /\ \/ /\ run' = [run EXCEPT ![q].running = FALSE]
                                /\ th'[t].pc = "cancel"
                             \/ /\ run' = [run EXCEPT ![q].orphaned = TRUE]
                                /\ ~run[q].running /\ th'[t].pc = "settle"
    BY <1>0, <1>7 DEF TearBegins, TearGivesUp, OwnInv, At, ctxVars, ThreadShape, Tearing,
       StepTo, Moved
  <2>2. /\ \A r \in Runs \ {q} : run'[r] = run[r]
        /\ ~run'[q].running /\ (th'[t].pc = "settle" => run'[q].orphaned)
    BY <1>0, <2>1 DEF CountShape
  <2>3. \A r \in Runs : /\ run'[r].live /\ ~run'[r].orphaned => r = rxRun'
                        /\ run'[r].orphaned => ~run'[r].running
    BY <2>1, <2>2 DEF OwnInv
  <2>4. Opening(t)' => ~rxStarted'
    BY <2>1 DEF OwnInv, Opening, Tearing
  <2> QED
    BY <1>3, <2>1, <2>2, <2>3, <2>4, NcmValues DEF OwnInv
<1>8. CASE Allocates(t)
  <2>0. PICK q \in Runs :
          /\ ~run[q].live /\ rxRun' = q
          /\ run' = [run EXCEPT ![q] = [FreeRun EXCEPT !.live = TRUE, !.running = TRUE,
                                                       !.refs = 1]]
          /\ th' = [th EXCEPT ![t].pc = "submit", ![t].run = q, ![t].n = 0]
    BY <1>8 DEF Allocates
  <2>1. th[t].pc = "alloc" /\ rxRun = NoRun /\ rxStarted' = rxStarted
    BY <1>8, <2>0 DEF Allocates, OwnInv, At
  <2>2. ~rxStarted /\ th'[t].pc = "submit" /\ th'[t].run = q
    BY <1>0, <2>0, <2>1 DEF OwnInv, Opening, ThreadShape
  <2>3. /\ \A r \in Runs \ {q} : run'[r] = run[r]
        /\ run'[q].running = TRUE /\ run'[q].orphaned = FALSE
    BY <1>0, <2>0 DEF FreeRun, CountShape
  <2>4. \A r \in Runs : /\ run'[r].live /\ ~run'[r].orphaned => r = rxRun'
                        /\ run'[r].orphaned => ~run'[r].running
    BY <2>0, <2>1, <2>3, NcmValues DEF OwnInv
  <2> QED
    BY <1>3, <2>0, <2>1, <2>2, <2>3, <2>4
<1>9. CASE Submits(t) \/ SubmitSends(t) \/ SubmitFails(t)
  <2>1. PICK q \in Runs : /\ q = rxRun /\ rxRun' = q /\ th'[t].run = q
                          /\ th[t].pc \in {"submit", "send"}
                          /\ th'[t].pc \in {"submit", "send", "tear"}
                          /\ rxStarted' = rxStarted
                          /\ run' = AddRef(q) \/ run' = Sent(q) \/ run' = DropRef(q)
    BY <1>0, <1>9 DEF Submits, SubmitSends, SubmitFails, OwnInv, At, ctxVars, StepTo, Moved,
       ThreadShape
  <2>2. \A r \in Runs : /\ run'[r].orphaned = run[r].orphaned /\ run'[r].live = run[r].live
                        /\ run'[r].running = run[r].running
    BY <1>0, <2>1 DEF CountShape, AddRef, DropRef, Sent
  <2>3. ~rxStarted
    BY <2>1 DEF OwnInv, Opening
  <2>4. run'[q].running
    BY <1>4, <2>1, <2>2, NcmValues
  <2> QED
    BY <1>3, <2>1, <2>2, <2>3, <2>4 DEF OwnInv
<1> QED
  BY <1>5, <1>6, <1>7, <1>8, <1>9, <1>10 DEF EngineStep

\* What one thread in the engine does, a completion does, and the rest.
LEMMA Steps ==
  ASSUME FlushInv, DeviceInv, OwnInv, [Next]_vars
  PROVE  \/ \E t \in Threads : EngineStep(t)
         \/ \E c \in Cpus : ReadReturns(c) \/ CompletionStep(c)
         \/ Aside
BY OutsideEngine DEF Next

LEMMA OwnStep == FlushInv /\ DeviceInv /\ CountInv /\ OwnInv /\ [Next]_vars => OwnInv'
BY Steps, EngineOwns, CompletionOwns, AsideOwns DEF FlushInv

LEMMA CountStep == FlushInv /\ DeviceInv /\ OwnInv /\ CountInv /\ [Next]_vars => CountInv'
BY Steps, EngineCounts, CompletionCounts, ReturnCounts, AsideCounts DEF FlushInv

LEMMA OwnInit == Init => OwnInv
BY NcmValues DEF Init, OwnInv, IdleThread, FreeRun, Opening, Tearing, Threads

LEMMA CountInit == Init => CountInv
<1> SUFFICES ASSUME Init PROVE CountInv
  OBVIOUS
<1>1. CountShape
  <2>1. FreeRun \in [live : BOOLEAN, running : BOOLEAN, orphaned : BOOLEAN,
                     refs : Nat, inCompletion : Nat, out : Nat]
    BY DEF FreeRun
  <2>2. IdleCpu \in [at : CpuPcs, run : Runs \cup {NoRun}, ok : BOOLEAN]
    BY DEF IdleCpu, CpuPcs
  <2> QED
    BY <2>1, <2>2 DEF Init, CountShape, IdleCpu
<1>2. ASSUME NEW r \in Runs PROVE RefsOk(r)
  <2>1. /\ CpusOf(r) = {} /\ Resending(r) = {} /\ Announcing(r) = {} /\ Submitting(r) = {}
        /\ rxRun # r
    BY NcmValues DEF Init, CpusOf, Resending, Announcing, Submitting, IdleCpu, IdleThread
  <2>2. Cardinality({}) = 0
    BY FS_EmptySet
  <2>3. run[r].refs = 0 /\ run[r].inCompletion = 0 /\ run[r].out = 0 /\ run[r].live = FALSE
    BY DEF Init, FreeRun
  <2>4. Holders(r) = 0
    <3>1. Holders(r) = (IF rxRun = r THEN 1 ELSE 0) + run[r].out + Cardinality(CpusOf(r))
                         + Cardinality(Resending(r)) + Cardinality(Submitting(r))
      BY RefsAreOk
    <3>2. /\ Cardinality(CpusOf(r)) = 0 /\ Cardinality(Resending(r)) = 0
          /\ Cardinality(Submitting(r)) = 0
      BY <2>1, <2>2
    <3> QED
      BY <2>1, <2>3, <3>1, <3>2
  <2>5. ~(run[r].refs > 0) /\ ~run[r].live
    BY <2>3
  <2> QED
    <3>1. run[r].refs = Holders(r)
      BY <2>3, <2>4
    <3>2. run[r].inCompletion = Cardinality(Announcing(r))
      BY <2>1, <2>2, <2>3
    <3> QED
      BY <2>5, <3>1, <3>2 DEF RefsOk
<1> QED
  BY <1>1, <1>2 DEF CountInv

\* The inductive invariant: who may be in the engine, what is there while a run is
\* owned, who owns which run, and how many hold it.
IInv == FlushInv /\ DeviceInv /\ OwnInv /\ CountInv

LEMMA IInit == Init => IInv
<1>1. Init => DeviceInv
  BY DEF Init, DeviceInv, Idle, At, IdleThread, NeedsPipes, Tearing, Threads
<1> QED
  BY <1>1, FlushInit, OwnInit, CountInit DEF IInv

LEMMA IStep == IInv /\ [Next]_vars => IInv'
BY FlushStep, DeviceStep, OwnStep, CountStep DEF IInv

\* The references of a run are exactly its holders, InCompletion exactly the
\* completions between their first and last access to it, and a run is alive exactly
\* while somebody holds it: NcmRx.c neither frees a run too early nor leaks one.
THEOREM RefsExactAlways == Spec => []RefsExact
<1>1. IInv => RefsExact
  BY RefsAreOk DEF IInv, CountInv
<1> QED
  BY <1>1, IInit, IStep, PTL DEF Spec

\* A completion that uses the device context belongs to the owned run.
AwayInv == \A c \in Cpus : cpu[c].at \in Touching => rxRun = cpu[c].run

\* The owned run keeps the device context there.
LEMMA AwayMeansOwned ==
  ASSUME IInv, AwayInv
  PROVE  OrphansStayAway
<1>1. ASSUME NEW c \in Cpus, cpu[c].at \in Touching PROVE ctx /\ rxRun = cpu[c].run
  <2>1. cpu[c].run \in Runs /\ rxRun = cpu[c].run
    BY <1>1, MyRunLives DEF IInv, AwayInv, Touching
  <2> QED
    BY <2>1, NcmValues DEF IInv, DeviceInv
<1> QED
  BY <1>1 DEF OrphansStayAway

\* A stop lets go of a run only when no completion is between its check of Orphaned
\* and its last use of the device context.
LEMMA AwayStep ==
  ASSUME IInv, AwayInv, [Next]_vars
  PROVE  AwayInv'
<1> USE DEF IInv
<1>1. CASE Aside
  BY <1>1 DEF Aside, AwayInv
<1>2. ASSUME NEW c \in Cpus, ReadReturns(c) \/ CompletionStep(c) PROVE AwayInv'
  <2>1. rxRun' = rxRun /\ \A d \in Cpus \ {c} : cpu'[d] = cpu[d]
    BY <1>2, CompletionFlags
  <2>2. cpu'[c].at \in Touching => rxRun = cpu'[c].run
    <3>1. CASE ChecksOrphaned(c)
      <4>1. /\ cpu[c].run \in Runs /\ MyRun(c).live
        BY <3>1, MyRunLives DEF ChecksOrphaned, CpuAt
      <4>2. cpu'[c].run = cpu[c].run /\ (cpu'[c].at \in Touching => ~MyRun(c).orphaned)
        BY <3>1 DEF ChecksOrphaned, CpuTo, Touching, CountInv, CountShape
      <4> QED
        BY <4>1, <4>2 DEF OwnInv, MyRun
    <3>2. CASE HandlesRead(c) \/ Indicates(c)
      <4>1. /\ cpu[c].at \in Touching /\ cpu'[c].run = cpu[c].run
        BY <3>2 DEF HandlesRead, Indicates, CpuAt, CpuTo, Touching, CountInv, CountShape
      <4> QED
        BY <4>1 DEF AwayInv
    <3>3. CASE ~(ChecksOrphaned(c) \/ HandlesRead(c) \/ Indicates(c))
      BY <1>2, <3>3 DEF ReadReturns, CompletionStep, Announces, FindsAlive, Resends, ResendSends,
         ResendFails, FindsFailure, Withdraws, Leaves, CpuTo, Touching, CountInv, CountShape,
         IdleCpu
    <3> QED
      BY <3>1, <3>2, <3>3
  <2> QED
    BY <2>1, <2>2 DEF AwayInv
<1>3. ASSUME NEW t \in Threads, EngineStep(t) PROVE AwayInv'
  <2>1. cpu' = cpu
    BY <1>3 DEF EngineStep, StopEnters, NothingToTear, TearBegins, TearStops, TearDrains,
       TearGivesUp,
       OrphanDetaches, StartEnters, Allocates, AllocationFails, Submits, SubmitSends, SubmitFails,
       StartEnds, rest
  <2>2. ASSUME NEW c \in Cpus, cpu[c].at \in Touching
        PROVE  rxRun' = rxRun
    <3>1. PICK q \in Runs : q = cpu[c].run /\ q = rxRun
      BY <2>2, MyRunLives DEF AwayInv, Touching
    <3>2. run[q].refs >= 2 /\ run[q].inCompletion >= 1
      BY <2>2, <3>1, MyRunLives DEF MyRun, Touching, Announced
    <3>3. ~NothingToTear(t) /\ ~Allocates(t)
      BY <3>1, NcmValues DEF NothingToTear, Allocates, OwnInv, At
    <3>4. ~TearDrains(t) /\ ~OrphanDetaches(t)
      BY <3>1, <3>2 DEF TearDrains, OrphanDetaches, OwnInv, At
    <3> QED
      BY <1>3, <3>3, <3>4 DEF EngineStep, StopEnters, TearBegins, TearStops, TearGivesUp,
         StartEnters,
         AllocationFails, Submits, SubmitSends, SubmitFails, StartEnds, ctxVars
  <2> QED
    BY <2>1, <2>2 DEF AwayInv
<1> QED
  BY <1>1, <1>2, <1>3, Steps

\* A completion that uses the device context finds it, and belongs to the run it owns:
\* no completion of an orphaned run ever touches the context.
THEOREM OrphansStayAwayAlways == Spec => []OrphansStayAway
<1>1. Init => AwayInv
  BY DEF Init, AwayInv, IdleCpu, Touching
<1> QED
  BY <1>1, IInit, IStep, AwayStep, AwayMeansOwned, PTL DEF Spec

-----------------------------------------------------------------------------
(* A paused adapter is silent.                                             *)

\* Once a pause has drained, nothing is received until the gate opens again; and
\* between a pause and a restart the reader is not started.
QuietInv ==
  /\ drained => /\ rxRun = NoRun /\ rxNbls = 0 /\ adapter # "running"
                /\ ~(adapter = "pausing" /\ At("ndis", "flush"))
                /\ \A t \in Threads : ~Starting(t)
  /\ adapter = "paused" /\ rxStarted => At("ndis", "started")

LEMMA QuietMeansSilent ==
  ASSUME IInv, AwayInv, QuietInv
  PROVE  PausedIsSilent
<1> SUFFICES ASSUME adapter = "paused", Idle("ndis")
             PROVE  /\ ~gate /\ ~rxStarted
                    /\ \A c \in Cpus : cpu[c].at # "indicate"
                    /\ drained => rxNbls = 0
  BY DEF PausedIsSilent
<1>1. ~gate
  BY DEF IInv, DeviceInv, Starting, Tearing, Idle, At
<1>2. ~rxStarted
  BY DEF QuietInv, Idle, At
<1>3. rxRun = NoRun
  <2>1. Idle("work")
    BY DEF IInv, FlushInv, WorkPending, Idle, At
  <2>2. \A t \in Threads : ~MayOwn(t)
    BY <2>1 DEF MayOwn, Tearing, Threads, Idle, At
  <2> QED
    BY <1>2, <2>2 DEF IInv, DeviceInv
<1>4. \A c \in Cpus : cpu[c].at # "indicate"
  BY <1>3, MyRunLives, NcmValues DEF IInv, AwayInv, Touching
<1> QED
  BY <1>1, <1>2, <1>4 DEF QuietInv

\* Only a thread that was starting the reader goes on doing so, makes a run or
\* leaves it started.
LEMMA EngineStarting ==
  ASSUME ThreadShape, NEW t \in Threads, EngineStep(t)
  PROVE  /\ Starting(t)' => Starting(t)
         /\ rxRun' \in {rxRun, NoRun} \/ Starting(t)
         /\ rxStarted' => rxStarted \/ (th'[t].pc = "started" /\ Starting(t))
         /\ UNCHANGED <<rxNbls, drained, adapter>>
<1> USE DEF ThreadShape, Starting, Tearing, At, StepTo, Moved, ctxVars, rest, ndisVars
<1>1. CASE StopEnters(t)
  BY <1>1 DEF StopEnters
<1>2. CASE NothingToTear(t) \/ TearDrains(t) \/ OrphanDetaches(t)
  <2>1. /\ rxRun' = NoRun /\ Tearing(t)
        /\ th'[t].pc = CASE th[t].goal = "stop"  -> "stopped"
                         [] th[t].goal = "start" -> "alloc"
                         [] OTHER                -> "startFailed"
    BY <1>2 DEF NothingToTear, TearDrains, OrphanDetaches, TornDown
  <2>2. rxStarted' => rxStarted
    BY <1>2, Zenon DEF NothingToTear, TearDrains, OrphanDetaches, TornDown
  <2>3. UNCHANGED <<rxNbls, drained, adapter>>
    BY <1>2 DEF NothingToTear, TearDrains, OrphanDetaches, TornDown
  <2> QED
    BY <2>1, <2>2, <2>3
<1>3. CASE TearBegins(t) \/ TearStops(t) \/ TearGivesUp(t)
  BY <1>3 DEF TearBegins, TearStops, TearGivesUp
<1>4. CASE StartEnters(t)
  BY <1>4 DEF StartEnters
<1>5. CASE Allocates(t)
  BY <1>5 DEF Allocates
<1>6. CASE AllocationFails(t)
  BY <1>6 DEF AllocationFails
<1>7. CASE Submits(t) \/ SubmitSends(t) \/ SubmitFails(t)
  BY <1>7 DEF Submits, SubmitSends, SubmitFails
<1>8. CASE StartEnds(t)
  BY <1>8 DEF StartEnds
<1> QED
  BY <1>1, <1>2, <1>3, <1>4, <1>5, <1>6, <1>7, <1>8 DEF EngineStep

\* A pause that has drained stays quiet until a restart opens the gate.
LEMMA QuietStep ==
  ASSUME IInv, AwayInv, QuietInv, [Next]_vars
  PROVE  QuietInv'
<1>0. ThreadShape /\ FlushInv /\ DeviceInv /\ OwnInv /\ CountInv
  BY DEF IInv, FlushInv
\* A thread in the engine.
<1>1. ASSUME NEW t \in Threads, EngineStep(t) PROVE QuietInv'
  <2>1. /\ InEngineStep(t)
        /\ Starting(t)' => Starting(t)
        /\ rxRun' \in {rxRun, NoRun} \/ Starting(t)
        /\ rxStarted' => rxStarted \/ (th'[t].pc = "started" /\ Starting(t))
        /\ UNCHANGED <<rxNbls, drained, adapter>>
    BY <1>0, <1>1, EngineStays, EngineStarting
  <2>2. \A u \in Threads : Starting(u)' => Starting(u)
    BY <2>1 DEF InEngineStep, Starting, Tearing
  <2>3. adapter = "paused" => t = "ndis"
    BY <1>0, <2>1 DEF FlushInv, WorkPending, Idle, At, InEngineStep, Threads, EnginePcs
  <2>4. At("ndis", "flush")' => At("ndis", "flush")
    BY <2>1 DEF InEngineStep, At, Threads, EnginePcs
  <2>5. (adapter = "paused" /\ rxStarted => At("ndis", "started"))'
    BY <2>1, <2>3 DEF QuietInv, InEngineStep, At, Threads, EnginePcs
  <2> QED
    BY <2>1, <2>2, <2>4, <2>5 DEF QuietInv
<1>2. ASSUME NEW c \in Cpus, ReadReturns(c) \/ CompletionStep(c) PROVE QuietInv'
  <2>1. UNCHANGED <<th, rxRun, rxStarted, adapter, drained>>
    BY <1>2 DEF ReadReturns, CompletionStep, Announces, ChecksOrphaned, HandlesRead, Indicates,
       FindsAlive, Resends, ResendSends, ResendFails, FindsFailure, Withdraws, Leaves,
       ctxVars, cpuRest, ndisVars
  <2>2. rxNbls' = rxNbls \/ rxRun # NoRun
    <3>1. CASE Indicates(c)
      BY <1>0, <3>1, MyRunLives, NcmValues DEF Indicates, CpuAt, AwayInv, Touching
    <3>2. CASE ~Indicates(c)
      BY <1>2, <3>2 DEF ReadReturns, CompletionStep, Announces, ChecksOrphaned, HandlesRead,
         FindsAlive, Resends, ResendSends, ResendFails, FindsFailure, Withdraws, Leaves, ctxVars
    <3> QED
      BY <3>1, <3>2
  <2> QED
    BY <2>1, <2>2 DEF QuietInv, At, Starting, Tearing
\* The recovery works only while the adapter runs, or is not paused yet.
<1>3. CASE WorkStep
  <2>1. WorkPending
    BY <1>3 DEF WorkStep, WorkStarts, RecoveryDeclined, RecoveryBegins, RecoveryCancels,
       RecoveryRestarts,
       RecoveryEnds, WorkPending, Idle, At
  <2>2. UNCHANGED <<adapter, drained>>
    BY <1>3 DEF WorkStep, WorkStarts, RecoveryDeclined, RecoveryBegins, RecoveryCancels,
       RecoveryRestarts,
       RecoveryEnds, ResetCompletes, ndisVars
  <2> QED
    BY <1>0, <2>1, <2>2 DEF FlushInv, QuietInv
<1>4. CASE InitializeEx
  <2>1. \A t \in Threads : th[t].pc = "idle"
    BY <1>0, <1>4 DEF InitializeEx, FlushInv, WorkPending, Idle, At, Threads
  <2> QED
    BY <1>4, <2>1 DEF InitializeEx, QuietInv, Starting, Tearing, At
<1>5. CASE PauseBegins
  BY <1>5 DEF PauseBegins, Quiesce, QuietInv
<1>6. CASE RestartBegins \/ HaltBegins \/ SetPower("D0") \/ SetPower("Dx")
  <2>1. /\ UNCHANGED <<rxRun, rxStarted, rxNbls, drained>>
        /\ adapter = "paused" /\ adapter' \in {"paused", "halting"} /\ Idle("ndis")
    BY <1>6 DEF RestartBegins, HaltBegins, SetPower, Quiesce, ctxVars, ndisVars
  <2>2. \E pc \in {"resume", "stop", "flush"} : StepTo("ndis", pc)
    BY <1>6 DEF RestartBegins, HaltBegins, SetPower, Quiesce, Call
  <2>3. th'["ndis"].pc \in {"resume", "stop", "flush"} /\ th'["work"] = th["work"]
    BY <1>0, <2>1, <2>2, Moving DEF Threads, ThreadPcs, EnginePcs
  <2>4. ~rxStarted
    BY <2>1 DEF QuietInv, Idle, At
  <2>5. \A t \in Threads : Starting(t)' => Starting(t)
    BY <2>3 DEF Starting, Tearing, Threads
  <2> QED
    BY <2>1, <2>4, <2>5 DEF QuietInv
\* Nobody is left in the engine once NDIS has stopped the reader.
<1>7. ASSUME th["ndis"].pc \in {"stopped", "drain"}
      PROVE  ~rxStarted /\ rxRun = NoRun /\ \A t \in Threads : ~Starting(t)
  <2>1. Idle("work") /\ ~rxStarted
    BY <1>0, <1>7 DEF FlushInv, DeviceInv, WorkPending, Idle, At
  <2>2. \A t \in Threads : ~MayOwn(t) /\ ~Starting(t)
    BY <1>7, <2>1 DEF MayOwn, Starting, Tearing, Threads, Idle, At
  <2> QED
    BY <1>0, <2>1, <2>2 DEF DeviceInv
<1>8. CASE RestartArms \/ Drains \/ PauseEnds \/ HaltEnds \/ PowersOff \/ PowersOn
  <2>1. /\ UNCHANGED <<rxRun, rxStarted>> /\ th["ndis"].pc \in {"stopped", "drain"}
        /\ drained' => drained \/ rxNbls' = 0
        /\ rxNbls' = rxNbls \/ rxNbls' = 0
        /\ adapter' = adapter \/ adapter' \in {"paused", "halted"}
    <3>1. CASE Drains
      <4>1. drained' = (rxNbls = 0 /\ outTx = 0)
        BY <3>1 DEF Drains
      <4>2. /\ UNCHANGED <<rxRun, rxStarted, rxNbls, adapter>> /\ th["ndis"].pc = "stopped"
        BY <3>1 DEF Drains, ctxVars, At
      <4> QED
        BY <4>1, <4>2
    <3>2. CASE RestartArms \/ PauseEnds \/ HaltEnds \/ PowersOff \/ PowersOn
      BY <3>2 DEF RestartArms, PauseEnds, HaltEnds, PowersOff, PowersOn, Arms, ndisVars, At
    <3> QED
      BY <1>8, <3>1, <3>2
  <2>2. \/ \E pc \in {"resume", "drain"} : StepTo("ndis", pc)
        \/ th' = [th EXCEPT !["ndis"] = IdleThread]
    BY <1>8 DEF RestartArms, Drains, PauseEnds, HaltEnds, PowersOff, PowersOn, Return
  <2>3. th'["ndis"].pc \in {"resume", "drain", "idle"} /\ th'["work"] = th["work"]
    BY <1>0, <2>1, <2>2, Moving, Returning DEF Threads, ThreadPcs, EnginePcs
  <2>4. \A t \in Threads : Starting(t)' => Starting(t)
    BY <2>3 DEF Starting, Tearing, Threads
  <2>5. adapter # "running"
    BY <1>0, <2>1 DEF FlushInv, Idle, At
  <2> QED
    BY <1>7, <2>1, <2>3, <2>4, <2>5 DEF QuietInv, At
<1>9. CASE RestartFails \/ Flushed
  <2>1. /\ UNCHANGED <<rxRun, rxStarted, rxNbls, drained, adapter>>
        /\ th["ndis"].pc \in {"resume", "flush"}
    BY <1>9 DEF RestartFails, Flushed, ctxVars, ndisVars, At
  <2>2. StepTo("ndis", "stop") \/ th' = [th EXCEPT !["ndis"] = IdleThread]
    BY <1>9 DEF RestartFails, Flushed, Return
  <2>3. th'["ndis"].pc \in {"stop", "idle"} /\ th'["work"] = th["work"]
    BY <1>0, <2>1, <2>2, Moving, Returning DEF Threads, ThreadPcs, EnginePcs
  <2>4. \A t \in Threads : Starting(t)' => Starting(t)
    BY <2>3 DEF Starting, Tearing, Threads
  <2> QED
    BY <2>1, <2>3, <2>4 DEF QuietInv, At
<1>10. CASE RestartOpens
  <2>1. /\ ~drained' /\ UNCHANGED <<rxStarted, adapter>> /\ At("ndis", "resume")
    BY <1>10 DEF RestartOpens
  <2> QED
    BY <2>1 DEF QuietInv, At
<1>11. CASE RestartEnds
  <2>1. /\ Starting("ndis") /\ UNCHANGED <<rxStarted, drained>>
        /\ \/ adapter' = "running"
           \/ adapter' = adapter /\ At("ndis", "startFailed")
    BY <1>11 DEF RestartEnds, Starting, At
  <2> QED
    BY <2>1 DEF QuietInv, At, Threads
<1>12. CASE Removed \/ CheckForHang \/ ResetEx \/ TxStep \/ UNCHANGED vars
  <2>1. UNCHANGED <<th, rxRun, rxStarted, adapter, drained>>
    BY <1>12 DEF Removed, CheckForHang, ResetEx, TxStep, SendBegins, SendCounts, SendEnds,
       NblsReturn, WriteCompletes, vars, ctxVars, ndisVars, txRest, elsewhere
  <2>2. rxNbls' = rxNbls \/ rxNbls # 0
    BY <1>12 DEF Removed, CheckForHang, ResetEx, TxStep, SendBegins, SendCounts, SendEnds,
       NblsReturn, WriteCompletes, vars, ctxVars
  <2> QED
    BY <2>1, <2>2 DEF QuietInv, At, Starting, Tearing
<1> QED
  BY <1>1, <1>2, <1>3, <1>4, <1>5, <1>6, <1>8, <1>9, <1>10, <1>11, <1>12
     DEF Next, NdisCalls, CallbackStep

\* While NDIS has the adapter paused, the gate is closed, the reader stopped, no
\* completion is about to hand a frame up, and a drain that succeeded left none out.
THEOREM PausedIsSilentAlways == Spec => []PausedIsSilent
<1>1. Init => AwayInv
  BY DEF Init, AwayInv, IdleCpu, Touching
<1>2. Init => QuietInv
  BY DEF Init, QuietInv, At, Starting, Tearing, IdleThread, Threads
<1> QED
  BY <1>1, <1>2, IInit, IStep, AwayStep, QuietStep, QuietMeansSilent, PTL DEF Spec

-----------------------------------------------------------------------------
(* Every read is counted at most once.                                     *)

\* The completions of run r that have not given up on sending their read again.
Turning(r) == {c \in Cpus : cpu[c].run = r /\ cpu[c].at \notin {"done", "leave"}}

\* The reads of run r that still circulate, and those that are known to be lost.
Known(r) == run[r].out + Cardinality(Turning(r)) + slots

\* While a run is owned no read is known of twice: there are at most as many as were
\* submitted so far (fewer when the USB stack has refused one).
BalanceInv ==
  /\ slots \in 0 .. Reads
  /\ \A r \in Runs : rxRun = r =>
       /\ Known(r) <= Reads
       /\ \A t \in Threads : th[t].pc \in {"submit", "send"} =>
            /\ th[t].n \in 0 .. Reads /\ Known(r) <= th[t].n
            /\ th[t].pc = "send" => th[t].n < Reads

LEMMA BalanceMeansReal == IInv /\ BalanceInv => FailuresAreReal
<1> SUFFICES ASSUME IInv, BalanceInv, rxStarted, ~InEngine PROVE Circulating + slots <= Reads
  BY DEF FailuresAreReal
<1>1. PICK q \in Runs : q = rxRun
  BY DEF IInv, OwnInv, FlushInv, ThreadShape
<1>2. Known(q) <= Reads
  BY <1>1 DEF BalanceInv
<1>3. Circulating + slots = Known(q)
  BY <1>1 DEF Circulating, Known, Turning
<1> QED
  BY <1>2, <1>3

\* One completion changes: what that does to the reads of a run that circulate.
LEMMA TurningCounts ==
  ASSUME NEW c \in Cpus, \A d \in Cpus \ {c} : cpu'[d] = cpu[d], NEW r
  PROVE  /\ Cardinality(Turning(r)) \in Nat /\ Cardinality(Turning(r)') \in Nat
         /\ c \in Turning(r) => Cardinality(Turning(r)) >= 1
         /\ Cardinality(Turning(r)') = Cardinality(Turning(r))
              + (IF c \in Turning(r)' THEN 1 ELSE 0) - (IF c \in Turning(r) THEN 1 ELSE 0)
         /\ c \in Turning(r) <=> cpu[c].run = r /\ cpu[c].at \notin {"done", "leave"}
         /\ c \in Turning(r)' <=> cpu'[c].run = r /\ cpu'[c].at \notin {"done", "leave"}
<1>1. /\ Turning(r) \in SUBSET Cpus /\ Turning(r)' \in SUBSET Cpus
      /\ Turning(r) \ {c} = Turning(r)' \ {c}
      /\ c \in Turning(r) <=> cpu[c].run = r /\ cpu[c].at \notin {"done", "leave"}
      /\ c \in Turning(r)' <=> cpu'[c].run = r /\ cpu'[c].at \notin {"done", "leave"}
  BY DEF Turning
<1>2. IsFiniteSet(Cpus)
  BY NcmCpus
<1>3. /\ Cardinality(Turning(r)) \in Nat /\ Cardinality(Turning(r)') \in Nat
      /\ c \in Turning(r) => Cardinality(Turning(r)) >= 1
      /\ Cardinality(Turning(r)') = Cardinality(Turning(r))
              + (IF c \in Turning(r)' THEN 1 ELSE 0) - (IF c \in Turning(r) THEN 1 ELSE 0)
  BY <1>1, <1>2, Counts
<1> QED
  BY <1>1, <1>3

\* A completion that stops sending its read again, or the USB stack that refuses it.
LEMMA CompletionBalance ==
  ASSUME IInv, AwayInv, slots \in Nat, NEW c \in Cpus, ReadReturns(c) \/ CompletionStep(c),
         NEW r \in Runs, rxRun = r
  PROVE  /\ Known(r) \in Nat /\ Known(r)' \in Nat /\ slots' \in Nat /\ slots' <= Known(r)'
         /\ Known(r)' <= Known(r)
<1> DEFINE T == Cardinality(Turning(r))
<1> DEFINE T2 == Cardinality(Turning(r)')
<1>0. CountInv /\ CountShape /\ OwnInv
  BY DEF IInv, CountInv
<1>1. \A d \in Cpus \ {c} : cpu'[d] = cpu[d]
  BY <1>0, CompletionFlags
<1>2. /\ T \in Nat /\ T2 \in Nat /\ run[r].out \in Nat
      /\ T2 = T + (IF c \in Turning(r)' THEN 1 ELSE 0) - (IF c \in Turning(r) THEN 1 ELSE 0)
      /\ c \in Turning(r) <=> cpu[c].run = r /\ cpu[c].at \notin {"done", "leave"}
      /\ c \in Turning(r)' <=> cpu'[c].run = r /\ cpu'[c].at \notin {"done", "leave"}
  BY <1>0, <1>1, TurningCounts DEF CountShape
<1>3. Known(r) = run[r].out + T + slots /\ Known(r)' = run'[r].out + T2 + slots'
  BY DEF Known
<1> HIDE DEF T, T2
\* It is enough to see what becomes of the read, and of the count of lost ones.
<1>4. ASSUME run'[r].out \in Nat, slots' \in Nat,
             run'[r].out + T2 + slots' <= run[r].out + T + slots
      PROVE  /\ Known(r) \in Nat /\ Known(r)' \in Nat /\ slots' \in Nat /\ slots' <= Known(r)'
             /\ Known(r)' <= Known(r)
  BY <1>2, <1>3, <1>4
<1>5. CASE ReadReturns(c)
  <2>1. PICK q \in Runs, ok \in BOOLEAN :
          /\ run[q].out > 0
          /\ run' = [run EXCEPT ![q].out = @ - 1]
          /\ cpu' = [cpu EXCEPT ![c] = [at |-> "called", run |-> q, ok |-> ok]]
    BY <1>5 DEF ReadReturns
  <2>2. /\ c \notin Turning(r) /\ (c \in Turning(r)' <=> q = r)
    BY <1>0, <1>2, <1>5, <2>1, NcmValues DEF ReadReturns, CpuAt, CountShape
  <2>3. /\ run'[r].out = run[r].out - (IF q = r THEN 1 ELSE 0) /\ slots' = slots
        /\ run'[r].out \in Nat
    BY <1>0, <1>5, <2>1 DEF ReadReturns, ctxVars, CountShape
  <2>4. run'[r].out + T2 + slots' = run[r].out + T + slots
    BY <1>2, <2>2, <2>3
  <2> QED
    BY <1>2, <1>4, <2>3, <2>4
<1>6. CASE CompletionStep(c)
  <2>1. cpu[c].at # "idle"
    BY <1>6 DEF CompletionStep, Announces, ChecksOrphaned, HandlesRead, Indicates,
       FindsAlive, Resends, ResendSends, ResendFails, FindsFailure, Withdraws, Leaves, CpuAt
  <2>2. PICK q \in Runs : q = cpu[c].run
    BY <1>0, <2>1, MyRunLives
  \* The read keeps circulating, or has long stopped.
  <2>3. CASE Announces(c) \/ HandlesRead(c) \/ Indicates(c) \/ Resends(c) \/ Withdraws(c)
    <3>1. run'[r].out = run[r].out /\ slots' = slots
      <4>1. slots' = slots
        BY <2>3 DEF Announces, HandlesRead, Indicates, Resends, Withdraws, ctxVars
      <4>2. CASE Announces(c) \/ Withdraws(c)
        BY <1>0, <2>2, <4>1, <4>2 DEF Announces, Withdraws, CountShape
      <4>3. CASE HandlesRead(c) \/ Indicates(c)
        BY <4>1, <4>3 DEF HandlesRead, Indicates, runVars
      <4>4. CASE Resends(c)
        BY <1>0, <2>2, <4>1, <4>4 DEF Resends, AddRef, CountShape
      <4> QED
        BY <2>3, <4>2, <4>3, <4>4
    <3>2. c \in Turning(r)' <=> c \in Turning(r)
      BY <1>0, <1>2, <2>3 DEF Announces, HandlesRead, Indicates, Resends, Withdraws, CpuAt, CpuTo,
         CountShape
    <3> QED
      BY <1>2, <1>4, <3>1, <3>2
  \* It may leave the circle.
  <2>4. CASE ChecksOrphaned(c) \/ FindsAlive(c)
    <3>1. run'[r].out = run[r].out /\ slots' = slots
      BY <2>4 DEF ChecksOrphaned, FindsAlive, ctxVars, runVars
    <3>2. c \in Turning(r)' => c \in Turning(r)
      BY <1>0, <1>2, <2>4 DEF ChecksOrphaned, FindsAlive, CpuAt, CpuTo, CountShape
    <3> QED
      BY <1>2, <1>4, <3>1, <3>2
  <2>5. CASE ResendSends(c)
    <3>1. /\ run'[r].out = run[r].out + (IF q = r THEN 1 ELSE 0) /\ slots' = slots
      BY <1>0, <2>2, <2>5 DEF ResendSends, Sent, ctxVars, CountShape
    <3>2. (c \in Turning(r) <=> q = r) /\ c \notin Turning(r)'
      BY <1>0, <1>2, <2>2, <2>5 DEF ResendSends, CpuAt, CpuTo, CountShape
    <3> QED
      BY <1>2, <1>4, <3>1, <3>2
  <2>6. CASE ResendFails(c)
    <3>1. run'[r].out = run[r].out /\ slots' = slots
      BY <1>0, <2>2, <2>6 DEF ResendFails, DropRef, ctxVars, CountShape
    <3>2. (c \in Turning(r) <=> q = r) /\ c \notin Turning(r)'
      BY <1>0, <1>2, <2>2, <2>6 DEF ResendFails, CpuAt, CpuTo, CountShape
    <3> QED
      BY <1>2, <1>4, <3>1, <3>2
  <2>7. CASE FindsFailure(c)
    <3>1. q = r
      BY <2>2, <2>7 DEF AwayInv, FindsFailure, CpuAt, Touching
    <3>2. /\ run'[r].out = run[r].out
          /\ slots' = IF run[r].running THEN slots + 1 ELSE slots
      BY <2>2, <2>7, <3>1 DEF FindsFailure, runVars, MyRun
    <3>3. c \in Turning(r) /\ c \notin Turning(r)'
      BY <1>0, <1>2, <2>2, <2>7, <3>1 DEF FindsFailure, CpuAt, CpuTo, CountShape
    <3> QED
      BY <1>2, <1>4, <3>2, <3>3
  <2>8. CASE Leaves(c)
    <3>1. run'[r].out = run[r].out
      <4>1. run[q].refs = 1 => q # r
        BY <1>0, <2>1, <2>2, MyRunLives DEF MyRun
      <4>2. IF run[q].refs = 1 THEN run' = [run EXCEPT ![q] = FreeRun] ELSE run' = DropRef(q)
        BY <2>2, <2>8 DEF Leaves, Release
      <4> QED
        BY <1>0, <4>1, <4>2 DEF DropRef, CountShape
    <3>2. slots' = slots
      BY <2>8 DEF Leaves, ctxVars
    <3>3. c \notin Turning(r) /\ c \notin Turning(r)'
      BY <1>0, <1>2, <2>8, NcmValues DEF Leaves, CpuAt, IdleCpu, CountShape
    <3> QED
      BY <1>2, <1>4, <3>1, <3>2, <3>3
  <2> QED
    BY <1>6, <2>3, <2>4, <2>5, <2>6, <2>7, <2>8 DEF CompletionStep
<1> QED
  BY <1>5, <1>6

\* What a step outside the engine leaves of the lost reads.
LEMMA AsideSlots ==
  ASSUME IInv, NdisCalls \/ CallbackStep \/ Removed \/ CheckForHang \/ ResetEx \/ WorkStep
               \/ TxStep \/ UNCHANGED vars
  PROVE  slots' = slots \/ (slots' = 0 /\ rxRun = NoRun)
<1>1. CASE InitializeEx
  BY <1>1 DEF InitializeEx, IInv, OwnInv, DeviceInv
<1>2. CASE HaltEnds
  <2>1. At("ndis", "drain") /\ slots' = 0 /\ adapter # "running"
    BY <1>2 DEF HaltEnds, IInv, FlushInv, Idle, At
  <2>2. Idle("work") /\ ~rxStarted
    BY <2>1 DEF IInv, FlushInv, DeviceInv, WorkPending, Idle, At
  <2>3. \A t \in Threads : ~MayOwn(t)
    BY <2>1, <2>2 DEF MayOwn, Tearing, Threads, Idle, At
  <2> QED
    BY <2>1, <2>2, <2>3 DEF IInv, DeviceInv
<1>3. CASE ~InitializeEx /\ ~HaltEnds
  <2>1. CASE NdisCalls
    BY <1>3, <2>1 DEF NdisCalls, RestartBegins, PauseBegins, HaltBegins, SetPower, Quiesce, ctxVars
  <2>2. CASE CallbackStep
    BY <1>3, <2>2 DEF CallbackStep, RestartArms, RestartFails, RestartOpens, RestartEnds, Flushed,
       Drains, PauseEnds, PowersOff, PowersOn, Arms, ctxVars
  <2>3. CASE WorkStep
    BY <2>3 DEF WorkStep, WorkStarts, RecoveryDeclined, RecoveryBegins, RecoveryCancels,
       RecoveryRestarts,
       RecoveryEnds, ResetCompletes, ctxVars
  <2>4. CASE Removed \/ CheckForHang \/ ResetEx \/ TxStep \/ UNCHANGED vars
    BY <2>4 DEF Removed, CheckForHang, ResetEx, TxStep, SendBegins, SendCounts, SendEnds,
       NblsReturn, WriteCompletes, vars, ctxVars
  <2> QED
    BY <2>1, <2>2, <2>3, <2>4
<1> QED
  BY <1>1, <1>2, <1>3

\* Submitting a read makes one more that circulates.
LEMMA EngineBalance ==
  ASSUME IInv, BalanceInv, NEW t \in Threads, EngineStep(t)
  PROVE  BalanceInv'
<1>0. ThreadShape /\ ThreadShape' /\ CountShape /\ InEngineStep(t) /\ OwnInv /\ CountInv
  BY EngineStays DEF IInv, FlushInv, CountInv
<1>1. ASSUME NEW u \in Threads \ {t} PROVE th'[u] = th[u] /\ th[u].pc \notin EnginePcs
  <2>1. EngineExclusive
    BY FlushExclusive DEF IInv
  <2> QED
    BY <1>0, <2>1 DEF InEngineStep, EngineExclusive, Threads
<1>2. UNCHANGED cpu
  BY DEF EngineStep, StopEnters, NothingToTear, TearBegins, TearStops, TearDrains, TearGivesUp,
     OrphanDetaches,
     StartEnters, Allocates, AllocationFails, Submits, SubmitSends, SubmitFails, StartEnds, rest
<1>3. ASSUME NEW r \in Runs
      PROVE  /\ Turning(r)' = Turning(r) /\ Cardinality(Turning(r)) \in Nat
             /\ run[r].out \in Nat
             /\ Known(r)' = run'[r].out + Cardinality(Turning(r)) + slots'
  <2>1. Turning(r)' = Turning(r)
    BY <1>2 DEF Turning
  <2>2. Cardinality(Turning(r)) \in Nat
    <3>1. Turning(r) \in SUBSET Cpus
      BY DEF Turning
    <3> QED
      BY <3>1, NcmCpus, FS_Subset, FS_CardinalityType
  <2> QED
    BY <1>0, <2>1, <2>2 DEF Known, CountShape
<1>4. ASSUME slots' \in 0 .. Reads,
             \A r \in Runs : rxRun' = r =>
               /\ Known(r)' <= Reads
               /\ th'[t].pc \in {"submit", "send"} =>
                    /\ th'[t].n \in 0 .. Reads /\ Known(r)' <= th'[t].n
                    /\ th'[t].pc = "send" => th'[t].n < Reads
      PROVE  BalanceInv'
  BY <1>1, <1>4 DEF BalanceInv, EnginePcs
<1>5. CASE NothingToTear(t) \/ TearDrains(t) \/ OrphanDetaches(t)
  <2>1. rxRun' = NoRun /\ slots' = slots
    BY <1>5 DEF NothingToTear, TearDrains, OrphanDetaches, TornDown
  <2> QED
    BY <1>4, <2>1, NcmValues DEF BalanceInv
<1>6. CASE StopEnters(t) \/ StartEnters(t) \/ AllocationFails(t)
  <2>1. /\ UNCHANGED <<run, rxRun, rxStarted, slots>>
        /\ th'[t].pc \notin {"submit", "send"}
    BY <1>0, <1>6 DEF StopEnters, StartEnters, AllocationFails, ctxVars, runVars, StepTo, Moved,
       ThreadShape
  <2>2. \A r \in Runs : Known(r)' = Known(r)
    BY <1>3, <2>1 DEF Known
  <2> QED
    BY <1>4, <2>1, <2>2 DEF BalanceInv
<1>7. CASE TearBegins(t) \/ TearStops(t) \/ TearGivesUp(t)
  <2>1. PICK q \in Runs : /\ q = rxRun /\ rxRun' = q /\ slots' = slots
                          /\ \/ run' = [run EXCEPT ![q].running = FALSE]
                             \/ run' = run
                             \/ run' = [run EXCEPT ![q].orphaned = TRUE]
                          /\ th'[t].pc \in {"cancel", "poll", "settle"}
    BY <1>0, <1>7 DEF TearBegins, TearStops, TearGivesUp, OwnInv, At, ctxVars, runVars, ThreadShape,
       StepTo, Moved
  <2>2. run'[q].out = run[q].out
    BY <1>0, <2>1 DEF CountShape
  <2>3. Known(q)' = Known(q)
    BY <1>3, <2>1, <2>2 DEF Known
  <2> QED
    BY <1>4, <2>1, <2>2, <2>3 DEF BalanceInv
<1>8. CASE Allocates(t)
  <2>0. PICK q \in Runs :
          /\ ~run[q].live /\ rxRun' = q
          /\ run' = [run EXCEPT ![q] = [FreeRun EXCEPT !.live = TRUE, !.running = TRUE,
                                                       !.refs = 1]]
          /\ th' = [th EXCEPT ![t].pc = "submit", ![t].run = q, ![t].n = 0]
    BY <1>8 DEF Allocates
  <2>1. th[t].pc = "alloc" /\ rxStarted' = rxStarted /\ slots' = 0
    BY <1>8 DEF Allocates, At
  <2>2. ~rxStarted /\ th'[t].pc = "submit" /\ th'[t].n = 0
    BY <1>0, <2>0, <2>1 DEF OwnInv, Opening, ThreadShape
  <2>3. run'[q].out = 0
    BY <1>0, <2>0 DEF FreeRun, CountShape
  <2>4. Turning(q) = {}
    <3>1. ASSUME NEW c \in Cpus, cpu[c].run = q PROVE FALSE
      BY <1>0, <2>0, <3>1, MyRunLives, NcmValues DEF CountShape, MyRun
    <3> QED
      BY <3>1 DEF Turning
  <2>5. Known(q)' = 0
    <3>1. Cardinality(Turning(q)) = 0
      BY <2>4, FS_EmptySet
    <3> QED
      BY <1>3, <2>1, <2>3, <3>1
  <2> QED
    BY <1>4, <2>0, <2>1, <2>2, <2>5, NcmNumbers
<1>9. CASE Submits(t) \/ SubmitSends(t) \/ SubmitFails(t)
  <2>1. PICK q \in Runs : /\ q = rxRun /\ rxRun' = q /\ slots' = slots /\ ~rxStarted'
                          /\ th[t].run = q /\ th[t].pc \in {"submit", "send"}
    BY <1>0, <1>9 DEF Submits, SubmitSends, SubmitFails, OwnInv, Opening, At, ctxVars
  <2>2. /\ th[t].n \in 0 .. Reads /\ Known(q) <= th[t].n /\ Known(q) <= Reads
        /\ th[t].pc = "send" => th[t].n < Reads
        /\ slots \in 0 .. Reads
    BY <2>1 DEF BalanceInv
  <2>3. CASE Submits(t)
    <3>1. run'[q].out = run[q].out
      BY <1>0, <2>1, <2>3 DEF Submits, AddRef, CountShape
    <3>2. th'[t].pc = "send" /\ th'[t].n = th[t].n /\ th[t].n < Reads
      <4>1. th[t].n # Reads
        BY <2>3, NcmNumbers DEF Submits, ThreadShape
      <4> QED
        BY <1>0, <2>2, <2>3, <4>1, NcmNumbers DEF Submits, StepTo, Moved, ThreadShape
    <3>3. Known(q)' = Known(q)
      BY <1>3, <2>1, <3>1 DEF Known
    <3> QED
      BY <1>4, <2>1, <2>2, <3>2, <3>3
  <2>4. CASE SubmitSends(t)
    <3>1. run'[q].out = run[q].out + 1
      BY <1>0, <2>1, <2>4 DEF SubmitSends, Sent, CountShape
    <3>2. th'[t].pc = "submit" /\ th'[t].n = th[t].n + 1 /\ th[t].n < Reads
      BY <1>0, <2>1, <2>2, <2>4 DEF SubmitSends, At, ThreadShape
    <3>3. Known(q)' = Known(q) + 1 /\ Known(q) \in Nat
      <4>1. Known(q) = run[q].out + Cardinality(Turning(q)) + slots
        BY DEF Known
      <4> QED
        BY <1>3, <2>1, <2>2, <3>1, <4>1, NcmNumbers
    <3>4. Known(q)' <= th'[t].n /\ Known(q)' <= Reads /\ th'[t].n \in 0 .. Reads
      BY <2>2, <3>2, <3>3, NcmNumbers
    <3> QED
      BY <1>4, <2>1, <2>2, <3>2, <3>4
  <2>5. CASE SubmitFails(t)
    <3>1. run'[q].out = run[q].out
      BY <1>0, <2>1, <2>5 DEF SubmitFails, DropRef, CountShape
    <3>2. th'[t].pc = "tear"
      BY <1>0, <2>5 DEF SubmitFails, ThreadShape
    <3>3. Known(q)' = Known(q)
      BY <1>3, <2>1, <3>1 DEF Known
    <3> QED
      BY <1>4, <2>1, <2>2, <3>2, <3>3
  <2> QED
    BY <1>9, <2>3, <2>4, <2>5
<1>10. CASE StartEnds(t)
  <2>1. PICK q \in Runs : q = rxRun /\ rxRun' = q /\ slots' = slots /\ run' = run
    BY <1>10 DEF StartEnds, OwnInv, IInv, At, runVars
  <2>2. th[t].pc = "submit" /\ th[t].n = Reads /\ th'[t].pc = "started"
    BY <1>0, <1>10 DEF StartEnds, At, ThreadShape
  <2>3. Known(q)' = Known(q)
    BY <1>3, <2>1 DEF Known
  <2> QED
    BY <1>4, <2>1, <2>2, <2>3 DEF BalanceInv
<1> QED
  BY <1>5, <1>6, <1>7, <1>8, <1>9, <1>10 DEF EngineStep

\* No step counts a read that still circulates.
LEMMA BalanceStep ==
  ASSUME IInv, AwayInv, BalanceInv, [Next]_vars
  PROVE  BalanceInv'
<1>1. ASSUME NEW t \in Threads, EngineStep(t) PROVE BalanceInv'
  BY <1>1, EngineBalance
<1>2. ASSUME NEW c \in Cpus, ReadReturns(c) \/ CompletionStep(c) PROVE BalanceInv'
  <2>1. UNCHANGED <<th, rxRun, rxStarted>>
    BY <1>2, CompletionFlags DEF IInv
  <2>2. ASSUME NEW r \in Runs, rxRun = r
        PROVE  /\ Known(r) \in Nat /\ Known(r)' \in Nat /\ slots' \in Nat /\ slots' <= Known(r)'
               /\ Known(r)' <= Known(r)
    BY <1>2, <2>2, CompletionBalance, NcmNumbers DEF BalanceInv
  <2>3. slots' \in 0 .. Reads
    <3>1. CASE rxRun = NoRun
      <4>1. cpu[c].at \notin Touching
        BY <3>1, MyRunLives, NcmValues DEF IInv, AwayInv, Touching
      <4>2. slots' = slots
        BY <1>2, <4>1 DEF ReadReturns, CompletionStep, Announces, ChecksOrphaned, HandlesRead,
           Indicates, FindsAlive, Resends, ResendSends, ResendFails, FindsFailure, Withdraws,
           Leaves, ctxVars, CpuAt, Touching
      <4> QED
        BY <4>2 DEF BalanceInv
    <3>2. CASE rxRun # NoRun
      <4>1. PICK r \in Runs : rxRun = r
        BY <3>2 DEF IInv, FlushInv, ThreadShape
      <4>2. Known(r) <= Reads
        BY <4>1 DEF BalanceInv
      <4> QED
        BY <2>2, <4>1, <4>2, NcmNumbers
    <3> QED
      BY <3>1, <3>2
  <2>4. ASSUME NEW r \in Runs, rxRun = r
        PROVE  /\ Known(r)' <= Reads
               /\ \A t \in Threads : th[t].pc \in {"submit", "send"} => Known(r)' <= th[t].n
    <3>1. Known(r)' <= Reads
      BY <2>2, <2>4, NcmNumbers DEF BalanceInv
    <3>2. ASSUME NEW t \in Threads, th[t].pc \in {"submit", "send"} PROVE Known(r)' <= th[t].n
      <4>1. PICK n \in Nat : n = th[t].n
        BY DEF IInv, FlushInv, ThreadShape
      <4>2. Known(r) <= n
        BY <2>4, <3>2, <4>1 DEF BalanceInv
      <4> QED
        BY <2>2, <2>4, <4>1, <4>2
    <3> QED
      BY <3>1, <3>2
  <2> QED
    BY <2>1, <2>3, <2>4 DEF BalanceInv
<1>3. CASE NdisCalls \/ CallbackStep \/ Removed \/ CheckForHang \/ ResetEx \/ WorkStep
               \/ TxStep \/ UNCHANGED vars
  <2>1. Aside
    BY <1>3, OutsideEngine DEF IInv
  <2>2. slots' = slots \/ (slots' = 0 /\ rxRun = NoRun)
    BY <1>3, AsideSlots
  <2>3. CASE rxRun = NoRun
    BY <2>1, <2>2, <2>3, NcmValues, NcmNumbers DEF Aside, BalanceInv
  <2>4. CASE rxRun # NoRun
    <3>1. \A r \in Runs : Known(r)' = Known(r)
      BY <2>1, <2>2, <2>4 DEF Aside, Known, Turning
    <3>2. slots' \in 0 .. Reads
      BY <2>2, <2>4 DEF BalanceInv
    <3>3. ASSUME NEW r \in Runs, rxRun' = r PROVE Known(r)' <= Reads
      BY <2>1, <3>1, <3>3 DEF Aside, BalanceInv
    <3>4. ASSUME NEW r \in Runs, rxRun' = r, NEW t \in Threads, th'[t].pc \in {"submit", "send"}
          PROVE  /\ th'[t].n \in 0 .. Reads /\ Known(r)' <= th'[t].n
                 /\ th'[t].pc = "send" => th'[t].n < Reads
      BY <2>1, <3>1, <3>4 DEF Aside, Busy, BalanceInv
    <3> QED
      BY <3>2, <3>3, <3>4 DEF BalanceInv
  <2> QED
    BY <2>3, <2>4
<1> QED
  BY <1>1, <1>2, <1>3 DEF Next

\* RxFailedSlots counts reads the present reader has lost, and no others: neither one
\* of a reader torn down before, nor one that still circulates.
THEOREM FailuresAreRealAlways == Spec => []FailuresAreReal
<1>1. Init => AwayInv
  BY DEF Init, AwayInv, IdleCpu, Touching
<1>2. Init => BalanceInv
  BY NcmValues, NcmNumbers DEF Init, BalanceInv
<1> QED
  BY <1>1, <1>2, BalanceMeansReal, IInit, IStep, AwayStep, BalanceStep, PTL DEF Spec

-----------------------------------------------------------------------------
(* Types, the orphans that are counted and the writes in flight.           *)

Orphaned == {r \in Runs : run[r].orphaned}

\* g_T2NcmRxOrphanedRuns counts the runs that were orphaned and are not freed yet; the
\* owned run is among them only while a thread waits to detach it.
OrphanInv ==
  /\ IsFiniteSet(Orphaned) /\ orphans = Cardinality(Orphaned)
  /\ \A r \in Runs : run[r].orphaned => run[r].live
  /\ rxRun \in Orphaned => \E t \in Threads : th[t].pc = "settle"

\* A step that orphans or frees one run, or none, and counts it.
LEMMA OrphansCounted ==
  ASSUME IsFiniteSet(Orphaned), orphans = Cardinality(Orphaned), NEW q \in Runs,
         \A r \in Runs \ {q} : run'[r].orphaned = run[r].orphaned,
         orphans' = orphans + (IF q \in Orphaned' THEN 1 ELSE 0)
                            - (IF q \in Orphaned THEN 1 ELSE 0)
  PROVE  IsFiniteSet(Orphaned') /\ orphans' = Cardinality(Orphaned')
<1> DEFINE S == Orphaned \cup {q}
<1>1. /\ Orphaned \in SUBSET S /\ Orphaned' \in SUBSET S /\ q \in S
      /\ Orphaned \ {q} = Orphaned' \ {q}
  BY DEF Orphaned
<1>2. IsFiniteSet(S)
  BY FS_AddElement
<1> HIDE DEF S
<1>3. Cardinality(Orphaned') = Cardinality(Orphaned) + (IF q \in Orphaned' THEN 1 ELSE 0)
                                                     - (IF q \in Orphaned THEN 1 ELSE 0)
  BY <1>1, <1>2, Counts
<1> QED
  BY <1>1, <1>2, <1>3, FS_Subset

LEMMA ReleaseCounted ==
  ASSUME CountShape, OrphanInv, NEW q \in Runs, Release(q)
  PROVE  /\ IsFiniteSet(Orphaned') /\ orphans' = Cardinality(Orphaned')
         /\ \A r \in Runs : \/ /\ run'[r].live = run[r].live
                               /\ run'[r].orphaned = run[r].orphaned
                            \/ ~run'[r].orphaned
<1>0. IsFiniteSet(Orphaned) /\ orphans = Cardinality(Orphaned) /\ orphans \in Nat
  BY FS_CardinalityType DEF OrphanInv
<1>1. CASE run[q].refs = 1
  <2>1. /\ run' = [run EXCEPT ![q] = FreeRun]
        /\ orphans' = IF run[q].orphaned THEN orphans - 1 ELSE orphans
    BY <1>1 DEF Release
  <2>2. /\ \A r \in Runs \ {q} : run'[r] = run[r]
        /\ ~run'[q].orphaned
    BY <2>1 DEF CountShape, FreeRun
  <2>3. q \notin Orphaned' /\ (q \in Orphaned <=> run[q].orphaned)
    BY <2>2 DEF Orphaned
  <2>4. orphans' = orphans + (IF q \in Orphaned' THEN 1 ELSE 0)
                           - (IF q \in Orphaned THEN 1 ELSE 0)
    BY <1>0, <2>1, <2>3
  <2> QED
    BY <1>0, <2>2, <2>4, OrphansCounted
<1>2. CASE run[q].refs # 1
  <2>1. run' = DropRef(q) /\ orphans' = orphans
    BY <1>2 DEF Release
  <2>2. \A r \in Runs : run'[r].live = run[r].live /\ run'[r].orphaned = run[r].orphaned
    BY <2>1 DEF CountShape, DropRef
  <2>3. Orphaned' = Orphaned
    BY <2>2 DEF Orphaned
  <2> QED
    BY <1>0, <2>1, <2>2, <2>3
<1> QED
  BY <1>1, <1>2

\* What the flags of the runs do not change, the count of the orphans need not.
LEMMA OrphansKept ==
  ASSUME OrphanInv, orphans' = orphans,
         \A r \in Runs : run'[r].live = run[r].live /\ run'[r].orphaned = run[r].orphaned,
         rxRun' = rxRun \/ rxRun' = NoRun,
         \A t \in Threads : th[t].pc = "settle" => th'[t].pc = "settle" \/ rxRun' = NoRun
  PROVE  OrphanInv'
<1>1. Orphaned' = Orphaned /\ NoRun \notin Orphaned
  BY NcmValues DEF Orphaned
<1> QED
  BY <1>1 DEF OrphanInv

LEMMA CompletionOrphans ==
  ASSUME IInv, OrphanInv, NEW c \in Cpus, ReadReturns(c) \/ CompletionStep(c)
  PROVE  OrphanInv'
<1>0. CountShape /\ CountInv
  BY DEF IInv, CountInv
<1>1. UNCHANGED <<th, rxRun>>
  BY <1>0, CompletionFlags
<1>2. CASE Leaves(c)
  <2>1. PICK q \in Runs : q = cpu[c].run /\ Release(q)
    BY <1>0, <1>2, MyRunLives DEF Leaves, CpuAt
  <2>2. /\ IsFiniteSet(Orphaned') /\ orphans' = Cardinality(Orphaned')
        /\ \A r \in Runs : \/ /\ run'[r].live = run[r].live
                              /\ run'[r].orphaned = run[r].orphaned
                           \/ ~run'[r].orphaned
    BY <1>0, <2>1, ReleaseCounted
  <2>3. \A r \in Runs : run'[r].orphaned => run[r].orphaned /\ run'[r].live
    BY <2>2 DEF OrphanInv
  <2>4. rxRun' \in Orphaned' => rxRun \in Orphaned
    BY <1>1, <2>3 DEF Orphaned
  <2> QED
    BY <1>1, <2>2, <2>3, <2>4 DEF OrphanInv
<1>3. CASE ~Leaves(c)
  <2>1. orphans' = orphans
    BY <1>3 DEF ReadReturns, CompletionStep, Announces, ChecksOrphaned, HandlesRead, Indicates,
       FindsAlive, Resends, ResendSends, ResendFails, FindsFailure, Withdraws, runVars
  <2>2. cpu[c].at # "idle" => cpu[c].run \in Runs
    BY <1>0, MyRunLives
  <2>3. ASSUME NEW r \in Runs
        PROVE  run'[r].live = run[r].live /\ run'[r].orphaned = run[r].orphaned
    BY <1>0, <1>3, <2>2 DEF ReadReturns, CompletionStep, Announces, ChecksOrphaned, HandlesRead,
       Indicates, FindsAlive, Resends, ResendSends, ResendFails, FindsFailure, Withdraws, runVars,
       CountShape, AddRef, DropRef, Sent, CpuAt
  <2> QED
    BY <1>1, <2>1, <2>3, OrphansKept
<1> QED
  BY <1>2, <1>3

LEMMA EngineOrphans ==
  ASSUME IInv, OrphanInv, NEW t \in Threads, EngineStep(t)
  PROVE  OrphanInv'
<1>0. /\ CountShape /\ CountInv /\ OwnInv /\ ThreadShape
      /\ \A r \in Runs : RefsOk(r)
  BY DEF IInv, CountInv, FlushInv
<1>1. ThreadShape' /\ InEngineStep(t)
  BY <1>0, EngineStays
<1>2. \A u \in Threads \ {t} : th'[u] = th[u] /\ th[u].pc # "settle"
  <2>1. EngineExclusive
    BY FlushExclusive DEF IInv
  <2> QED
    BY <1>1, <2>1 DEF EngineExclusive, InEngineStep, EnginePcs, Threads
<1>3. th[t].pc # "settle" => rxRun \notin Orphaned
  BY <1>2 DEF OrphanInv
<1>4. CASE TearDrains(t) \/ OrphanDetaches(t)
  <2>1. rxRun' = NoRun
    BY <1>4 DEF TearDrains, OrphanDetaches, TornDown
  <2>2. PICK q \in Runs : q = th[t].run /\ Release(q)
    BY <1>0, <1>4 DEF TearDrains, OrphanDetaches, At, OwnInv
  <2>3. /\ IsFiniteSet(Orphaned') /\ orphans' = Cardinality(Orphaned')
        /\ \A r \in Runs : \/ /\ run'[r].live = run[r].live
                              /\ run'[r].orphaned = run[r].orphaned
                           \/ ~run'[r].orphaned
    BY <1>0, <2>2, ReleaseCounted
  <2>4. \A r \in Runs : run'[r].orphaned => run'[r].live
    BY <2>3 DEF OrphanInv
  <2>5. rxRun' \notin Orphaned'
    BY <2>1, NcmValues DEF Orphaned
  <2> QED
    BY <2>3, <2>4, <2>5 DEF OrphanInv
<1>5. CASE TearGivesUp(t)
  <2>1. /\ th[t].pc = "poll" /\ th'[t].pc = "settle"
        /\ orphans' = orphans + 1 /\ rxRun' = rxRun
        /\ run' = [run EXCEPT ![th[t].run].orphaned = TRUE]
    BY <1>0, <1>5 DEF TearGivesUp, At, StepTo, Moved, ThreadShape, ctxVars
  <2>2. PICK q \in Runs : q = rxRun /\ q = th[t].run
    BY <1>0, <2>1 DEF OwnInv
  <2>3. q \notin Orphaned
    BY <1>3, <2>1, <2>2
  <2>4. /\ \A r \in Runs \ {q} : run'[r] = run[r]
        /\ run'[q].orphaned /\ run'[q].live = run[q].live
    BY <1>0, <2>1, <2>2 DEF CountShape
  <2>5. q \in Orphaned'
    BY <2>4 DEF Orphaned
  <2>6. IsFiniteSet(Orphaned) /\ orphans = Cardinality(Orphaned) /\ orphans \in Nat
    BY FS_CardinalityType DEF OrphanInv
  <2>7. IsFiniteSet(Orphaned') /\ orphans' = Cardinality(Orphaned')
    <3>1. orphans' = orphans + (IF q \in Orphaned' THEN 1 ELSE 0)
                             - (IF q \in Orphaned THEN 1 ELSE 0)
      BY <2>1, <2>3, <2>5, <2>6
    <3>2. \A r \in Runs \ {q} : run'[r].orphaned = run[r].orphaned
      BY <2>4
    <3> QED
      BY <2>6, <3>1, <3>2, OrphansCounted
  <2>8. run[q].live
    BY <1>0, <2>2, Books
  <2> QED
    BY <2>1, <2>4, <2>7, <2>8 DEF OrphanInv
<1>6. CASE Allocates(t)
  <2>1. PICK r \in Runs :
          /\ ~run[r].live /\ rxRun' = r
          /\ run' = [run EXCEPT ![r] = [FreeRun EXCEPT !.live = TRUE, !.running = TRUE,
                                                       !.refs = 1]]
    BY <1>6 DEF Allocates
  <2>2. ~run[r].orphaned
    BY <2>1 DEF OrphanInv
  <2>3. \A q \in Runs \ {r} : run'[q] = run[q]
    BY <2>1 DEF CountShape
  <2>4. ~run'[r].orphaned
    BY <1>0, <2>1 DEF CountShape, FreeRun
  <2>5. Orphaned' = Orphaned /\ rxRun' \notin Orphaned
    BY <2>1, <2>2, <2>3, <2>4 DEF Orphaned
  <2>6. orphans' = orphans
    BY <1>6 DEF Allocates
  <2>7. \A q \in Runs : run'[q].orphaned => run'[q].live
    BY <2>3, <2>4 DEF OrphanInv
  <2> QED
    BY <2>5, <2>6, <2>7 DEF OrphanInv
<1>7. CASE ~(TearDrains(t) \/ OrphanDetaches(t) \/ TearGivesUp(t) \/ Allocates(t))
  <2>1. orphans' = orphans /\ (rxRun' = rxRun \/ rxRun' = NoRun) /\ th[t].pc # "settle"
    BY <1>7 DEF EngineStep, StopEnters, NothingToTear, TearBegins, TearStops, StartEnters,
       AllocationFails,
       Submits, SubmitSends, SubmitFails, StartEnds, At, TornDown, ctxVars, runVars
  <2>2. /\ th[t].pc \in {"submit", "send"} => th[t].run \in Runs
        /\ rxRun # NoRun => rxRun \in Runs
    BY <1>0 DEF OwnInv, ThreadShape
  <2>3. ASSUME NEW r \in Runs
        PROVE  run'[r].live = run[r].live /\ run'[r].orphaned = run[r].orphaned
    <3>1. CASE TearBegins(t)
      BY <1>0, <2>2, <3>1 DEF TearBegins, CountShape
    <3>2. CASE Submits(t) \/ SubmitSends(t) \/ SubmitFails(t)
      BY <1>0, <2>2, <3>2 DEF Submits, SubmitSends, SubmitFails, At, AddRef, DropRef, Sent,
         CountShape
    <3>3. CASE ~(TearBegins(t) \/ Submits(t) \/ SubmitSends(t) \/ SubmitFails(t))
      <4>1. run' = run
        BY <1>7, <3>3 DEF EngineStep, StopEnters, NothingToTear, TearStops, StartEnters,
           AllocationFails, StartEnds, runVars
      <4> QED
        BY <4>1
    <3> QED
      BY <3>1, <3>2, <3>3
  <2>4. \A u \in Threads : th[u].pc # "settle"
    BY <1>2, <2>1
  <2> QED
    BY <2>1, <2>3, <2>4, OrphansKept
<1> QED
  BY <1>4, <1>5, <1>6, <1>7

\* Outside the engine and the completions no run is orphaned or freed.
LEMMA OrphansAside ==
  ASSUME NdisCalls \/ CallbackStep \/ Removed \/ CheckForHang \/ ResetEx \/ WorkStep
         \/ TxStep \/ UNCHANGED vars
  PROVE  orphans' = orphans
BY DEF NdisCalls, InitializeEx, RestartBegins, PauseBegins, HaltBegins, Quiesce, SetPower,
   CallbackStep, RestartArms, RestartFails, RestartOpens, RestartEnds, Flushed, Drains,
   PauseEnds, HaltEnds, PowersOff, PowersOn, Removed, CheckForHang, ResetEx, WorkStep,
   WorkStarts, RecoveryDeclined, RecoveryBegins, RecoveryCancels, RecoveryRestarts, RecoveryEnds,
   ResetCompletes, TxStep, SendBegins, SendCounts, SendEnds, WriteCompletes, NblsReturn,
   elsewhere, txRest, runVars, vars

LEMMA OrphanInit == Init => OrphanInv
<1> SUFFICES ASSUME Init PROVE OrphanInv
  OBVIOUS
<1>1. Orphaned = {}
  BY DEF Init, Orphaned, FreeRun
<1> QED
  BY <1>1, FS_EmptySet, NcmValues DEF Init, OrphanInv, FreeRun

LEMMA OrphanStep ==
  ASSUME IInv, OrphanInv, [Next]_vars
  PROVE  OrphanInv'
<1>1. CASE NdisCalls \/ CallbackStep \/ Removed \/ CheckForHang \/ ResetEx \/ WorkStep
               \/ TxStep \/ UNCHANGED vars
  <2>1. Aside
    BY <1>1, OutsideEngine DEF IInv
  <2>2. orphans' = orphans
    BY <1>1, OrphansAside
  <2> QED
    BY <2>1, <2>2, OrphansKept DEF Aside, Busy
<1> QED
  BY <1>1, CompletionOrphans, EngineOrphans DEF Next

FlagTypes ==
  /\ ctx \in BOOLEAN /\ gate \in BOOLEAN /\ pipes \in BOOLEAN /\ rxStarted \in BOOLEAN
  /\ moved \in BOOLEAN /\ resetPending \in BOOLEAN /\ queued \in BOOLEAN
  /\ hang \in BOOLEAN /\ resetting \in BOOLEAN /\ drained \in BOOLEAN
PlainTypes ==
  /\ lc \in Lifecycle /\ power \in {"D0", "Dx"}
  /\ op \in {"none", "restart", "pause", "halt", "on", "off"}
  /\ adapter \in {"halted", "paused", "running", "pausing", "halting"}

\* A write that is being sent is counted, and a halted adapter is in no send call.
NumberTypes ==
  /\ rxNbls \in 0 .. MaxNbls /\ outTx \in 0 .. MaxTx
  /\ txFail \in 0 .. FailThreshold /\ txResets \in 0 .. MaxResets
  /\ vainResets \in 0 .. MaxResets + 1
  /\ snd \in {"idle", "submit", "send"}
  /\ snd = "send" => outTx > 0
  /\ adapter = "halted" => snd = "idle"
ReadTypes == \A t \in Threads : th[t].n \in 0 .. Reads

TypeInv == OrphanInv /\ FlagTypes /\ PlainTypes /\ NumberTypes /\ ReadTypes

LEMMA FlagStep == FlagTypes /\ [Next]_vars => FlagTypes'
<1> SUFFICES ASSUME FlagTypes, [Next]_vars PROVE FlagTypes'
  OBVIOUS
<1> USE DEF FlagTypes
<1>1. CASE NdisCalls
  <2>1. CASE InitializeEx
    BY <2>1 DEF InitializeEx, elsewhere
  <2>2. CASE RestartBegins
    BY <2>2 DEF RestartBegins, Call, ctxVars, ndisVars, elsewhere
  <2>3. CASE PauseBegins
    BY <2>3 DEF PauseBegins, Quiesce, Call, elsewhere
  <2>4. CASE HaltBegins
    BY <2>4 DEF HaltBegins, Quiesce, Call, elsewhere
  <2>5. CASE SetPower("D0")
    BY <2>5 DEF SetPower, Call, ndisVars, elsewhere
  <2>6. CASE SetPower("Dx")
    BY <2>6 DEF SetPower, Call, ndisVars, elsewhere
  <2> QED
    BY <1>1, <2>1, <2>2, <2>3, <2>4, <2>5, <2>6 DEF NdisCalls
<1>2. CASE CallbackStep
  <2>1. CASE RestartArms
    BY <2>1 DEF RestartArms, Arms, Return, ndisVars, elsewhere
  <2>2. CASE RestartFails
    BY <2>2 DEF RestartFails, Return, ctxVars, ndisVars, elsewhere
  <2>3. CASE RestartOpens
    BY <2>3 DEF RestartOpens, elsewhere
  <2>4. CASE RestartEnds
    BY <2>4 DEF RestartEnds, TryState, Return, elsewhere
  <2>5. CASE Flushed
    BY <2>5 DEF Flushed, TryState, ndisVars, elsewhere
  <2>6. CASE Drains
    BY <2>6 DEF Drains, ctxVars, elsewhere
  <2>7. CASE PauseEnds
    BY <2>7 DEF PauseEnds, TryState, Return, elsewhere
  <2>8. CASE HaltEnds
    BY <2>8 DEF HaltEnds, Return, elsewhere
  <2>9. CASE PowersOff
    BY <2>9 DEF PowersOff, Arms, Return, ndisVars, elsewhere
  <2>10. CASE PowersOn
    BY <2>10 DEF PowersOn, Arms, TryState, Return, ndisVars, elsewhere
  <2> QED
    BY <1>2, <2>1, <2>2, <2>3, <2>4, <2>5, <2>6, <2>7, <2>8, <2>9, <2>10 DEF CallbackStep
<1>3. CASE Removed \/ CheckForHang \/ ResetEx
  <2>1. CASE Removed
    BY <2>1 DEF Removed, ndisVars, elsewhere
  <2>2. CASE CheckForHang
    BY <2>2 DEF CheckForHang, elsewhere
  <2>3. CASE ResetEx
    BY <2>3 DEF ResetEx, elsewhere
  <2> QED
    BY <1>3, <2>1, <2>2, <2>3
<1>4. CASE WorkStep
  <2>1. CASE WorkStarts
    BY <2>1 DEF WorkStarts, ndisVars, elsewhere
  <2>2. CASE RecoveryDeclined
    BY <2>2 DEF RecoveryDeclined, ResetCompletes, elsewhere
  <2>3. CASE RecoveryBegins
    BY <2>3 DEF RecoveryBegins, elsewhere
  <2>4. CASE RecoveryRestarts
    BY <2>4 DEF RecoveryRestarts, ctxVars, ndisVars, elsewhere
  <2>5. CASE RecoveryEnds
    BY <2>5 DEF RecoveryEnds, ResetCompletes, elsewhere
  <2>6. CASE RecoveryCancels
    BY <2>6 DEF RecoveryCancels, ctxVars, ndisVars, elsewhere
  <2> QED
    BY <1>4, <2>1, <2>2, <2>3, <2>4, <2>5, <2>6 DEF WorkStep
<1>5. CASE TxStep \/ UNCHANGED vars
  <2>1. CASE SendBegins
    BY <2>1 DEF SendBegins, txRest, ctxVars
  <2>2. CASE SendCounts
    BY <2>2 DEF SendCounts, txRest
  <2>3. CASE SendEnds
    BY <2>3 DEF SendEnds, txRest
  <2>4. CASE \E ok \in BOOLEAN : WriteCompletes(ok)
    BY <2>4 DEF WriteCompletes, txRest
  <2>5. CASE NblsReturn
    BY <2>5 DEF NblsReturn, txRest
  <2>6. CASE UNCHANGED vars
    BY <2>6 DEF vars, ctxVars, ndisVars
  <2> QED
    BY <1>5, <2>1, <2>2, <2>3, <2>4, <2>5, <2>6 DEF TxStep
<1>6. ASSUME NEW t \in Threads, EngineStep(t) PROVE FlagTypes'
  <2>1. UNCHANGED <<ctx, gate, pipes, moved, resetPending, queued, hang, resetting, drained>>
    BY <1>6 DEF EngineStep, StopEnters, NothingToTear, TearBegins, TearStops, TearDrains,
       TearGivesUp,
       OrphanDetaches, StartEnters, Allocates, AllocationFails, Submits, SubmitSends, SubmitFails,
       StartEnds, TornDown, ctxVars, rest, ndisVars
  <2>2. CASE StartEnds(t)
    <3>1. rxStarted' = TRUE
      BY <2>2 DEF StartEnds
    <3> QED
      BY <2>1, <3>1
  <2>3. CASE NothingToTear(t) \/ TearDrains(t) \/ OrphanDetaches(t)
    <3>1. rxStarted' = (rxStarted /\ th[t].goal # "stop")
      BY <2>3 DEF NothingToTear, TearDrains, OrphanDetaches, TornDown
    <3>2. rxStarted' \in BOOLEAN
      BY ONLY <3>1
    <3> QED
      BY <2>1, <3>2
  <2>4. CASE ~(StartEnds(t) \/ NothingToTear(t) \/ TearDrains(t) \/ OrphanDetaches(t))
    <3>1. rxStarted' = rxStarted
      BY <1>6, <2>4 DEF EngineStep, StopEnters, TearBegins, TearStops, TearGivesUp, StartEnters,
         Allocates,
         AllocationFails, Submits, SubmitSends, SubmitFails, ctxVars
    <3> QED
      BY <2>1, <3>1
  <2> QED
    BY <2>2, <2>3, <2>4
<1>7. ASSUME NEW c \in Cpus, ReadReturns(c) \/ CompletionStep(c) PROVE FlagTypes'
  BY <1>7 DEF ReadReturns, CompletionStep, Announces, ChecksOrphaned, HandlesRead, Indicates,
     FindsAlive, Resends, ResendSends, ResendFails, FindsFailure, Withdraws, Leaves, ctxVars,
     cpuRest, ndisVars
<1> QED
  BY <1>1, <1>2, <1>3, <1>4, <1>5, <1>6, <1>7 DEF Next

LEMMA PlainStep == PlainTypes /\ [Next]_vars => PlainTypes'
<1> SUFFICES ASSUME PlainTypes, [Next]_vars PROVE PlainTypes'
  OBVIOUS
<1> USE DEF PlainTypes, Lifecycle
<1>1. CASE NdisCalls
  <2>1. CASE InitializeEx
    BY <2>1 DEF InitializeEx, elsewhere
  <2>2. CASE RestartBegins
    BY <2>2 DEF RestartBegins, Call, ctxVars, ndisVars, elsewhere
  <2>3. CASE PauseBegins
    BY <2>3 DEF PauseBegins, Quiesce, Call, elsewhere
  <2>4. CASE HaltBegins
    BY <2>4 DEF HaltBegins, Quiesce, Call, elsewhere
  <2>5. CASE SetPower("D0")
    BY <2>5 DEF SetPower, Call, ndisVars, elsewhere
  <2>6. CASE SetPower("Dx")
    BY <2>6 DEF SetPower, Call, ndisVars, elsewhere
  <2> QED
    BY <1>1, <2>1, <2>2, <2>3, <2>4, <2>5, <2>6 DEF NdisCalls
<1>2. CASE CallbackStep
  <2>1. CASE RestartArms
    BY <2>1 DEF RestartArms, Arms, Return, ndisVars, elsewhere
  <2>2. CASE RestartFails
    BY <2>2 DEF RestartFails, Return, ctxVars, ndisVars, elsewhere
  <2>3. CASE RestartOpens
    BY <2>3 DEF RestartOpens, elsewhere
  <2>4. CASE RestartEnds
    BY <2>4 DEF RestartEnds, TryState, Return, elsewhere
  <2>5. CASE Flushed
    BY <2>5 DEF Flushed, TryState, ndisVars, elsewhere
  <2>6. CASE Drains
    BY <2>6 DEF Drains, ctxVars, elsewhere
  <2>7. CASE PauseEnds
    BY <2>7 DEF PauseEnds, TryState, Return, elsewhere
  <2>8. CASE HaltEnds
    BY <2>8 DEF HaltEnds, Return, elsewhere
  <2>9. CASE PowersOff
    BY <2>9 DEF PowersOff, Arms, Return, ndisVars, elsewhere
  <2>10. CASE PowersOn
    BY <2>10 DEF PowersOn, Arms, TryState, Return, ndisVars, elsewhere
  <2> QED
    BY <1>2, <2>1, <2>2, <2>3, <2>4, <2>5, <2>6, <2>7, <2>8, <2>9, <2>10 DEF CallbackStep
<1>3. CASE Removed \/ CheckForHang \/ ResetEx
  <2>1. CASE Removed
    BY <2>1 DEF Removed, ndisVars, elsewhere
  <2>2. CASE CheckForHang
    BY <2>2 DEF CheckForHang, elsewhere
  <2>3. CASE ResetEx
    BY <2>3 DEF ResetEx, elsewhere
  <2> QED
    BY <1>3, <2>1, <2>2, <2>3
<1>4. CASE WorkStep
  <2>1. CASE WorkStarts
    BY <2>1 DEF WorkStarts, ndisVars, elsewhere
  <2>2. CASE RecoveryDeclined
    BY <2>2 DEF RecoveryDeclined, ResetCompletes, elsewhere
  <2>3. CASE RecoveryBegins
    BY <2>3 DEF RecoveryBegins, elsewhere
  <2>4. CASE RecoveryRestarts
    BY <2>4 DEF RecoveryRestarts, ctxVars, ndisVars, elsewhere
  <2>5. CASE RecoveryEnds
    BY <2>5 DEF RecoveryEnds, ResetCompletes, elsewhere
  <2>6. CASE RecoveryCancels
    BY <2>6 DEF RecoveryCancels, ctxVars, ndisVars, elsewhere
  <2> QED
    BY <1>4, <2>1, <2>2, <2>3, <2>4, <2>5, <2>6 DEF WorkStep
<1>5. CASE TxStep \/ UNCHANGED vars
  <2>1. CASE SendBegins
    BY <2>1 DEF SendBegins, txRest, ctxVars
  <2>2. CASE SendCounts
    BY <2>2 DEF SendCounts, txRest
  <2>3. CASE SendEnds
    BY <2>3 DEF SendEnds, txRest
  <2>4. CASE \E ok \in BOOLEAN : WriteCompletes(ok)
    BY <2>4 DEF WriteCompletes, txRest
  <2>5. CASE NblsReturn
    BY <2>5 DEF NblsReturn, txRest
  <2>6. CASE UNCHANGED vars
    BY <2>6 DEF vars, ctxVars, ndisVars
  <2> QED
    BY <1>5, <2>1, <2>2, <2>3, <2>4, <2>5, <2>6 DEF TxStep
<1>6. ASSUME NEW t \in Threads, EngineStep(t) PROVE PlainTypes'
  BY <1>6 DEF EngineStep, StopEnters, NothingToTear, TearBegins, TearStops, TearDrains, TearGivesUp,
     OrphanDetaches, StartEnters, Allocates, AllocationFails, Submits, SubmitSends, SubmitFails,
     StartEnds, TornDown, ctxVars, rest, ndisVars
<1>7. ASSUME NEW c \in Cpus, ReadReturns(c) \/ CompletionStep(c) PROVE PlainTypes'
  BY <1>7 DEF ReadReturns, CompletionStep, Announces, ChecksOrphaned, HandlesRead, Indicates,
     FindsAlive, Resends, ResendSends, ResendFails, FindsFailure, Withdraws, Leaves, ctxVars,
     cpuRest, ndisVars
<1> QED
  BY <1>1, <1>2, <1>3, <1>4, <1>5, <1>6, <1>7 DEF Next

LEMMA NumberStep == NumberTypes /\ [Next]_vars => NumberTypes'
<1> SUFFICES ASSUME NumberTypes, [Next]_vars PROVE NumberTypes'
  OBVIOUS
<1> USE NcmNumbers DEF NumberTypes
<1>1. CASE NdisCalls
  <2>1. CASE InitializeEx
    BY <2>1 DEF InitializeEx, elsewhere
  <2>2. CASE RestartBegins
    BY <2>2 DEF RestartBegins, Call, ctxVars, ndisVars, elsewhere
  <2>3. CASE PauseBegins
    BY <2>3 DEF PauseBegins, Quiesce, Call, elsewhere
  <2>4. CASE HaltBegins
    BY <2>4 DEF HaltBegins, Quiesce, Call, elsewhere
  <2>5. CASE SetPower("D0")
    BY <2>5 DEF SetPower, Call, ndisVars, elsewhere
  <2>6. CASE SetPower("Dx")
    BY <2>6 DEF SetPower, Call, ndisVars, elsewhere
  <2> QED
    BY <1>1, <2>1, <2>2, <2>3, <2>4, <2>5, <2>6 DEF NdisCalls
<1>2. CASE CallbackStep
  <2>1. CASE RestartArms
    BY <2>1 DEF RestartArms, Arms, Return, ndisVars, elsewhere
  <2>2. CASE RestartFails
    BY <2>2 DEF RestartFails, Return, ctxVars, ndisVars, elsewhere
  <2>3. CASE RestartOpens
    BY <2>3 DEF RestartOpens, elsewhere
  <2>4. CASE RestartEnds
    BY <2>4 DEF RestartEnds, TryState, Return, elsewhere
  <2>5. CASE Flushed
    BY <2>5 DEF Flushed, TryState, ndisVars, elsewhere
  <2>6. CASE Drains
    BY <2>6 DEF Drains, ctxVars, elsewhere
  <2>7. CASE PauseEnds
    BY <2>7 DEF PauseEnds, TryState, Return, elsewhere
  <2>8. CASE HaltEnds
    BY <2>8 DEF HaltEnds, Return, elsewhere
  <2>9. CASE PowersOff
    BY <2>9 DEF PowersOff, Arms, Return, ndisVars, elsewhere
  <2>10. CASE PowersOn
    BY <2>10 DEF PowersOn, Arms, TryState, Return, ndisVars, elsewhere
  <2> QED
    BY <1>2, <2>1, <2>2, <2>3, <2>4, <2>5, <2>6, <2>7, <2>8, <2>9, <2>10 DEF CallbackStep
<1>3. CASE Removed \/ CheckForHang \/ ResetEx
  <2>1. CASE Removed
    BY <2>1 DEF Removed, ndisVars, elsewhere
  <2>2. CASE CheckForHang
    BY <2>2 DEF CheckForHang, elsewhere
  <2>3. CASE ResetEx
    BY <2>3 DEF ResetEx, elsewhere
  <2> QED
    BY <1>3, <2>1, <2>2, <2>3
<1>4. CASE WorkStep
  <2>1. CASE WorkStarts
    BY <2>1 DEF WorkStarts, ndisVars, elsewhere
  <2>2. CASE RecoveryDeclined
    BY <2>2 DEF RecoveryDeclined, ResetCompletes, elsewhere
  <2>3. CASE RecoveryBegins
    BY <2>3 DEF RecoveryBegins, elsewhere
  <2>4. CASE RecoveryRestarts
    BY <2>4 DEF RecoveryRestarts, ctxVars, ndisVars, elsewhere
  <2>5. CASE RecoveryEnds
    BY <2>5 DEF RecoveryEnds, ResetCompletes, elsewhere
  <2>6. CASE RecoveryCancels
    BY <2>6 DEF RecoveryCancels, ctxVars, ndisVars, elsewhere
  <2> QED
    BY <1>4, <2>1, <2>2, <2>3, <2>4, <2>5, <2>6 DEF WorkStep
<1>5. CASE TxStep \/ UNCHANGED vars
  <2>1. CASE SendBegins
    BY <2>1 DEF SendBegins, txRest, ctxVars
  <2>2. CASE SendCounts
    BY <2>2 DEF SendCounts, txRest
  <2>3. CASE SendEnds
    BY <2>3 DEF SendEnds, txRest
  <2>4. CASE \E ok \in BOOLEAN : WriteCompletes(ok)
    BY <2>4 DEF WriteCompletes, HeldWrites, txRest
  <2>5. CASE NblsReturn
    BY <2>5 DEF NblsReturn, txRest
  <2>6. CASE UNCHANGED vars
    BY <2>6 DEF vars, ctxVars, ndisVars
  <2> QED
    BY <1>5, <2>1, <2>2, <2>3, <2>4, <2>5, <2>6 DEF TxStep
<1>6. ASSUME NEW t \in Threads, EngineStep(t) PROVE NumberTypes'
  BY <1>6 DEF EngineStep, StopEnters, NothingToTear, TearBegins, TearStops, TearDrains, TearGivesUp,
     OrphanDetaches, StartEnters, Allocates, AllocationFails, Submits, SubmitSends, SubmitFails,
     StartEnds, TornDown, ctxVars, rest, ndisVars
<1>7. ASSUME NEW c \in Cpus, ReadReturns(c) \/ CompletionStep(c) PROVE NumberTypes'
  BY <1>7 DEF ReadReturns, CompletionStep, Announces, ChecksOrphaned, HandlesRead, Indicates,
     FindsAlive, Resends, ResendSends, ResendFails, FindsFailure, Withdraws, Leaves, ctxVars,
     cpuRest, ndisVars
<1> QED
  BY <1>1, <1>2, <1>3, <1>4, <1>5, <1>6, <1>7 DEF Next

LEMMA ReadStep ==
  ASSUME IInv, BalanceInv, ReadTypes, [Next]_vars
  PROVE  ReadTypes'
<1> USE NcmNumbers DEF ReadTypes
<1>0. ThreadShape
  BY DEF IInv, FlushInv
<1>1. CASE NdisCalls \/ CallbackStep \/ Removed \/ CheckForHang \/ ResetEx \/ WorkStep
  <2>1. ASSUME NEW t \in Threads, NEW pc, StepTo(t, pc) PROVE ReadTypes'
    BY <1>0, <2>1 DEF StepTo, Moved, ThreadShape
  <2>2. ASSUME NEW t \in Threads, th' = [th EXCEPT ![t] = IdleThread] PROVE ReadTypes'
    BY <1>0, <2>2 DEF IdleThread, ThreadShape
  <2>3. {"ndis", "work"} = Threads
    BY DEF Threads
  <2>4. \/ th' = th
        \/ \E t \in Threads, pc \in ThreadPcs : StepTo(t, pc)
        \/ \E t \in Threads : th' = [th EXCEPT ![t] = IdleThread]
    <3> USE <2>3 DEF ThreadPcs, EnginePcs
    <3>1. CASE NdisCalls
      BY <3>1 DEF NdisCalls, InitializeEx, RestartBegins, PauseBegins, HaltBegins, Quiesce,
         SetPower, Call
    <3>2. CASE CallbackStep
      BY <3>2 DEF CallbackStep, RestartArms, RestartFails, RestartOpens, RestartEnds, Flushed,
         Drains, PauseEnds, HaltEnds, PowersOff, PowersOn, Return
    <3>3. CASE Removed \/ CheckForHang \/ ResetEx
      BY <3>3 DEF Removed, CheckForHang, ResetEx
    <3>4. CASE WorkStep
      BY <3>4 DEF WorkStep, WorkStarts, RecoveryDeclined, RecoveryBegins, RecoveryCancels,
         RecoveryRestarts,
         RecoveryEnds, ResetCompletes
    <3> QED
      BY <1>1, <3>1, <3>2, <3>3, <3>4
  <2> QED
    BY <2>1, <2>2, <2>4
<1>2. ASSUME NEW t \in Threads, EngineStep(t) PROVE ReadTypes'
  <2>1. \A u \in Threads \ {t} : th'[u] = th[u]
    BY <1>0, <1>2, EngineStays DEF InEngineStep
  <2>2. th[t].pc = "send" => th[t].n < Reads
    <3>1. ASSUME th[t].pc = "send" PROVE rxRun \in Runs
      BY <3>1 DEF IInv, OwnInv
    <3> QED
      BY <3>1 DEF BalanceInv
  <2>3. th'[t].n \in {th[t].n, 0} \/ (th[t].pc = "send" /\ th'[t].n = th[t].n + 1)
    <3> USE <1>0 DEF ThreadShape, At
    <3>1. CASE TearDrains(t) \/ OrphanDetaches(t) \/ NothingToTear(t)
      BY <3>1 DEF TearDrains, OrphanDetaches, NothingToTear, TornDown
    <3>2. CASE Allocates(t)
      BY <3>2 DEF Allocates
    <3>3. CASE StopEnters(t) \/ StartEnters(t)
      BY <3>3 DEF StopEnters, StartEnters
    <3>4. CASE TearBegins(t) \/ SubmitSends(t) \/ SubmitFails(t) \/ StartEnds(t)
      BY <3>4 DEF TearBegins, SubmitSends, SubmitFails, StartEnds
    <3>5. CASE TearStops(t) \/ TearGivesUp(t) \/ AllocationFails(t) \/ Submits(t)
      BY <3>5 DEF TearStops, TearGivesUp, AllocationFails, Submits, StepTo, Moved
    <3> QED
      BY <1>2, <3>1, <3>2, <3>3, <3>4, <3>5 DEF EngineStep
  <2> QED
    BY <2>1, <2>2, <2>3
<1>3. CASE TxStep \/ (\E c \in Cpus : ReadReturns(c) \/ CompletionStep(c)) \/ UNCHANGED vars
  <2>1. th' = th
    BY <1>3 DEF TxStep, SendBegins, SendCounts, SendEnds, WriteCompletes, NblsReturn, txRest,
       vars, ReadReturns, CompletionStep, Announces, ChecksOrphaned, HandlesRead, Indicates,
       FindsAlive, Resends, ResendSends, ResendFails, FindsFailure, Withdraws, Leaves, cpuRest
  <2> QED
    BY <2>1
<1> QED
  BY <1>1, <1>2, <1>3 DEF Next

LEMMA TypesAreOk == IInv /\ BalanceInv /\ TypeInv => TypeOK
<1> SUFFICES ASSUME IInv, BalanceInv, TypeInv PROVE TypeOK
  OBVIOUS
<1>1. /\ orphans \in Nat /\ slots \in 0 .. Reads
  BY FS_CardinalityType DEF TypeInv, OrphanInv, BalanceInv
<1>2. th \in [Threads -> [pc : ThreadPcs, goal : {"stop", "start", "fail"},
                          run : Runs \cup {NoRun}, n : 0 .. Reads]]
  <2>1. /\ th \in [Threads -> [pc : ThreadPcs, goal : {"stop", "start", "fail"},
                               run : Runs \cup {NoRun}, n : Nat]]
        /\ \A t \in Threads : th[t].n \in 0 .. Reads
    BY DEF IInv, FlushInv, ThreadShape, TypeInv, ReadTypes
  <2> QED
    BY <2>1
<1>3. /\ run \in [Runs -> [live : BOOLEAN, running : BOOLEAN, orphaned : BOOLEAN,
                           refs : Nat, inCompletion : Nat, out : Nat]]
      /\ cpu \in [Cpus -> [at : CpuPcs, run : Runs \cup {NoRun}, ok : BOOLEAN]]
      /\ rxRun \in Runs \cup {NoRun}
  BY DEF IInv, CountInv, CountShape, FlushInv, ThreadShape
<1> QED
  BY <1>1, <1>2, <1>3 DEF TypeOK, TypeInv, FlagTypes, PlainTypes, NumberTypes

\* The type of every variable, and the bounds the code relies on: RxFailedSlots never exceeds
\* the number of reads, and no counter of writes, frames or orphans falls below zero.
THEOREM TypeCorrect == Spec => []TypeOK
<1> DEFINE Inv == IInv /\ AwayInv /\ BalanceInv /\ TypeInv
<1>1. Init => Inv
  <2> SUFFICES ASSUME Init PROVE Inv
    OBVIOUS
  <2>1. AwayInv /\ BalanceInv
    BY NcmValues, NcmNumbers DEF Init, AwayInv, IdleCpu, Touching, BalanceInv
  <2>3. OrphanInv
    BY OrphanInit
  <2>4. FlagTypes
    BY DEF Init, FlagTypes
  <2>5. PlainTypes /\ NumberTypes
    BY NcmNumbers DEF Init, PlainTypes, NumberTypes, Lifecycle
  <2>6. ReadTypes
    BY NcmNumbers DEF Init, ReadTypes, IdleThread
  <2> QED
    BY <2>1, <2>3, <2>4, <2>5, <2>6, IInit DEF TypeInv
<1>2. Inv /\ [Next]_vars => Inv'
  BY IStep, AwayStep, BalanceStep, OrphanStep, FlagStep, PlainStep, NumberStep, ReadStep DEF TypeInv
<1>3. Inv => TypeOK
  BY TypesAreOk
<1> QED
  BY <1>1, <1>2, <1>3, PTL DEF Spec

-----------------------------------------------------------------------------
(* How many orphans there can be.                                          *)

\* The counter is the number of runs that were orphaned and are not freed yet, and there are
\* never more than T2NCM_RX_MAX_ORPHANED_RUNS of them.
OrphansBounded == orphans = Cardinality(Orphaned) /\ orphans <= MaxOrphans

\* Whoever may still make a run, or orphan the one there is, has room for it: T2NcmRxStart looks
\* once, on its way in, and no run is owned then.
RoomInv ==
  /\ orphans <= MaxOrphans
  /\ rxRun # NoRun /\ rxRun \notin Orphaned => orphans < MaxOrphans
  /\ \A t \in Threads : th[t].pc = "alloc" => orphans < MaxOrphans
  /\ \A t \in Threads : Tearing(t) /\ th[t].goal = "start" =>
       orphans < MaxOrphans /\ rxRun = NoRun

\* Fewer orphans, and no run that is newly owned or a thread that newly makes one.
LEMMA RoomKept ==
  ASSUME RoomInv, orphans \in Nat, orphans' \in Nat, orphans' <= orphans,
         rxRun' # NoRun /\ rxRun' \notin Orphaned' => rxRun # NoRun /\ rxRun \notin Orphaned,
         \A t \in Threads : th'[t].pc = "alloc" =>
           th[t].pc = "alloc" \/ (Tearing(t) /\ th[t].goal = "start"),
         \A t \in Threads : Tearing(t)' /\ th'[t].goal = "start" =>
           Tearing(t) /\ th[t].goal = "start" /\ rxRun' = rxRun
  PROVE  RoomInv'
BY NcmNumbers DEF RoomInv

LEMMA EngineRoom ==
  ASSUME IInv, OrphanInv, RoomInv, NEW t \in Threads, EngineStep(t)
  PROVE  RoomInv'
<1>0. CountShape /\ OwnInv /\ ThreadShape /\ orphans \in Nat /\ MaxOrphans \in Nat
  BY FS_CardinalityType, NcmNumbers DEF IInv, CountInv, FlushInv, OrphanInv
<1>1. ThreadShape' /\ InEngineStep(t)
  BY <1>0, EngineStays
<1>2. \A u \in Threads \ {t} : th'[u] = th[u] /\ th[u].pc \notin EnginePcs
  <2>1. EngineExclusive
    BY FlushExclusive DEF IInv
  <2> QED
    BY <1>1, <2>1 DEF EngineExclusive, InEngineStep, Threads
<1>3. \A u \in Threads \ {t} : th'[u].pc # "alloc" /\ ~Tearing(u)' /\ ~Tearing(u)
  BY <1>2 DEF EnginePcs, Tearing
<1>4. OrphanInv' /\ orphans' \in Nat
  <2>1. OrphanInv'
    BY EngineOrphans
  <2> QED
    BY <2>1, FS_CardinalityType DEF OrphanInv
<1>5. CASE TearDrains(t) \/ OrphanDetaches(t)
  <2>1. PICK q \in Runs : q = th[t].run /\ Release(q) /\ rxRun = q
    BY <1>0, <1>5 DEF TearDrains, OrphanDetaches, At, OwnInv
  <2>2. orphans' <= orphans
    BY <1>0, <1>4, <2>1 DEF Release
  <2>3. Tearing(t) /\ th[t].goal # "start"
    BY <1>5, <2>1, NcmValues DEF RoomInv, TearDrains, OrphanDetaches, At, Tearing
  <2>4. rxRun' = NoRun /\ th'[t].pc \in {"stopped", "startFailed"}
    BY <1>0, <1>5, <2>3 DEF TearDrains, OrphanDetaches, TornDown, ThreadShape
  <2> QED
    BY <1>0, <1>3, <1>4, <2>2, <2>4, RoomKept DEF Tearing
<1>6. CASE TearGivesUp(t)
  <2>1. /\ th[t].pc = "poll" /\ orphans' = orphans + 1 /\ rxRun' = rxRun
        /\ th'[t].pc = "settle" /\ th'[t].goal = th[t].goal
        /\ run' = [run EXCEPT ![th[t].run].orphaned = TRUE]
    BY <1>0, <1>6 DEF TearGivesUp, At, StepTo, Moved, ThreadShape, ctxVars
  <2>2. PICK q \in Runs : q = rxRun /\ q = th[t].run
    BY <1>0, <2>1 DEF OwnInv
  <2>3. q \notin Orphaned
    <3>1. \A u \in Threads : th[u].pc # "settle"
      BY <1>2, <2>1 DEF EnginePcs
    <3> QED
      BY <2>2, <3>1 DEF OrphanInv
  <2>4. orphans < MaxOrphans /\ th[t].goal # "start"
    BY <2>1, <2>2, <2>3, NcmValues DEF RoomInv, Tearing
  <2>5. q \in Orphaned'
    BY <1>0, <2>1, <2>2 DEF CountShape, Orphaned
  <2> QED
    BY <1>0, <1>3, <2>1, <2>2, <2>4, <2>5 DEF RoomInv
<1>7. CASE Allocates(t)
  <2>1. orphans' = orphans /\ th[t].pc = "alloc" /\ th'[t].pc = "submit"
    BY <1>0, <1>7 DEF Allocates, At, ThreadShape
  <2>2. orphans < MaxOrphans
    BY <2>1 DEF RoomInv
  <2> QED
    BY <1>0, <1>3, <2>1, <2>2 DEF RoomInv, Tearing
<1>8. CASE StartEnters(t)
  <2>1. /\ orphans' = orphans /\ rxRun' = rxRun /\ th[t].pc = "start" /\ run' = run
        /\ th'[t].pc = "tear" => ~rxStarted /\ orphans < MaxOrphans
        /\ th'[t].pc # "alloc"
    BY <1>0, <1>8 DEF StartEnters, StartRefused, At, ThreadShape, ctxVars, runVars
  <2>2. th'[t].pc = "tear" => rxRun = NoRun
    <3>1. ~MayOwn(t)
      BY <2>1 DEF MayOwn, Tearing
    <3>2. \A u \in Threads \ {t} : ~MayOwn(u)
      BY <1>2 DEF MayOwn, Tearing, EnginePcs
    <3> QED
      BY <2>1, <3>1, <3>2 DEF IInv, DeviceInv
  <2>3. Orphaned' = Orphaned
    BY <2>1 DEF Orphaned
  <2>4. th'[t].pc \in {"tear", "started", "startFailed"}
    BY <1>0, <1>8 DEF StartEnters, ThreadShape
  <2> QED
    BY <1>3, <2>1, <2>2, <2>3, <2>4 DEF RoomInv, Tearing
<1>9. CASE TearBegins(t)
  <2>1. /\ orphans' = orphans /\ rxRun' = rxRun /\ rxRun # NoRun
        /\ th[t].pc = "tear" /\ th'[t].pc = "cancel" /\ th'[t].goal = th[t].goal
        /\ run' = [run EXCEPT ![rxRun].running = FALSE]
    BY <1>0, <1>9 DEF TearBegins, At, ThreadShape, ctxVars
  <2>2. Orphaned' = Orphaned
    BY <1>0, <2>1 DEF CountShape, Orphaned, ThreadShape
  <2>3. th[t].goal # "start"
    BY <2>1 DEF RoomInv, Tearing
  <2> QED
    BY <1>0, <1>3, <2>1, <2>2, <2>3, RoomKept DEF Tearing
<1>10. CASE ~(TearDrains(t) \/ OrphanDetaches(t) \/ TearGivesUp(t) \/ Allocates(t)
              \/ StartEnters(t) \/ TearBegins(t))
  <2>1. orphans' = orphans /\ (rxRun' = rxRun \/ rxRun' = NoRun)
    BY <1>10 DEF EngineStep, StopEnters, NothingToTear, TearStops, AllocationFails, Submits,
       SubmitSends, SubmitFails, StartEnds, TornDown, ctxVars, runVars
  <2>2. th[t].pc \in {"submit", "send"} => th[t].run \in Runs
    BY <1>0 DEF OwnInv
  <2>3. ASSUME NEW r \in Runs PROVE run'[r].orphaned = run[r].orphaned
    <3>1. CASE Submits(t) \/ SubmitSends(t) \/ SubmitFails(t)
      <4>1. PICK q \in Runs : q = th[t].run
        BY <2>2, <3>1 DEF Submits, SubmitSends, SubmitFails, At
      <4>2. run' \in {AddRef(q), Sent(q), DropRef(q)}
        BY <3>1, <4>1 DEF Submits, SubmitSends, SubmitFails
      <4> QED
        BY <1>0, <4>2 DEF AddRef, DropRef, Sent, CountShape
    <3>2. CASE ~(Submits(t) \/ SubmitSends(t) \/ SubmitFails(t))
      <4>1. run' = run
        BY <1>10, <3>2 DEF EngineStep, StopEnters, NothingToTear, TearStops, AllocationFails,
           StartEnds, runVars
      <4> QED
        BY <4>1
    <3> QED
      BY <3>1, <3>2
  <2>4. Orphaned' = Orphaned
    BY <2>3 DEF Orphaned
  <2>5. /\ th'[t].pc = "alloc" => Tearing(t) /\ th[t].goal = "start"
        /\ Tearing(t)' => th'[t].goal # "start"
    <3> USE <1>0 DEF ThreadShape, At, Tearing
    <3>1. CASE NothingToTear(t)
      BY <3>1 DEF NothingToTear, TornDown
    <3>2. CASE StopEnters(t)
      BY <3>2 DEF StopEnters
    <3>3. CASE AllocationFails(t) \/ Submits(t)
      BY <3>3 DEF AllocationFails, Submits, StepTo, Moved
    <3>5. CASE TearStops(t)
      <4>1. rxRun # NoRun
        BY <1>0, <3>5, NcmValues DEF TearStops, OwnInv
      <4> QED
        BY <3>5, <4>1 DEF TearStops, StepTo, Moved, RoomInv
    <3>4. CASE SubmitSends(t) \/ SubmitFails(t) \/ StartEnds(t)
      BY <3>4 DEF SubmitSends, SubmitFails, StartEnds
    <3> QED
      BY <1>10, <3>1, <3>2, <3>3, <3>4, <3>5 DEF EngineStep
  <2> QED
    BY <1>0, <1>3, <2>1, <2>4, <2>5, RoomKept
<1> QED
  BY <1>5, <1>6, <1>7, <1>8, <1>9, <1>10

LEMMA RoomStep ==
  ASSUME IInv, OrphanInv, RoomInv, [Next]_vars
  PROVE  RoomInv'
<1>0. orphans \in Nat
  BY FS_CardinalityType DEF OrphanInv
<1>1. ASSUME NEW c \in Cpus, ReadReturns(c) \/ CompletionStep(c) PROVE RoomInv'
  <2>1. /\ UNCHANGED <<th, rxRun>>
        /\ \A r \in Runs : run'[r].orphaned = run[r].orphaned \/ r # rxRun
    BY <1>1, CompletionFlags DEF IInv
  <2>2. rxRun \in Runs \cup {NoRun}
    BY DEF IInv, FlushInv, ThreadShape
  <2>3. rxRun' # NoRun /\ rxRun' \notin Orphaned' => rxRun # NoRun /\ rxRun \notin Orphaned
    BY <2>1, <2>2 DEF Orphaned
  <2>4. orphans' \in Nat
    <3>1. OrphanInv'
      BY <1>1, CompletionOrphans
    <3> QED
      BY <3>1, FS_CardinalityType DEF OrphanInv
  <2>5. orphans' <= orphans
    BY <1>0, <1>1, <2>4 DEF ReadReturns, CompletionStep, Announces, ChecksOrphaned, HandlesRead,
       Indicates, FindsAlive, Resends, ResendSends, ResendFails, FindsFailure, Withdraws, Leaves,
       Release, runVars
  <2> QED
    BY <1>0, <2>1, <2>3, <2>4, <2>5, RoomKept DEF Tearing
<1>2. CASE NdisCalls \/ CallbackStep \/ Removed \/ CheckForHang \/ ResetEx \/ WorkStep
               \/ TxStep \/ UNCHANGED vars
  <2>1. Aside
    BY <1>2, OutsideEngine DEF IInv
  <2>2. orphans' = orphans
    BY <1>2, OrphansAside
  <2>3. Orphaned' = Orphaned
    BY <2>1 DEF Aside, Orphaned
  <2> QED
    BY <1>0, <2>1, <2>2, <2>3, RoomKept DEF Aside, Busy, Tearing
<1> QED
  BY <1>1, <1>2, EngineRoom DEF Next

\* However often the reader is torn down and started, and whatever reads the USB stack keeps,
\* the orphans are counted exactly and never exceed the bound that T2NcmRxStart checks: a start
\* tests it once and can orphan one run at most (NcmRx.c 1233).
THEOREM OrphansBoundedAlways == Spec => []OrphansBounded
<1>1. Init => OrphanInv /\ RoomInv
  <2> SUFFICES ASSUME Init PROVE OrphanInv /\ RoomInv
    OBVIOUS
  <2>1. OrphanInv
    BY OrphanInit
  <2>2. RoomInv
    BY NcmNumbers DEF Init, RoomInv, IdleThread, Tearing
  <2> QED
    BY <2>1, <2>2
<1>2. OrphanInv /\ RoomInv => OrphansBounded
  BY DEF OrphanInv, RoomInv, OrphansBounded
<1> QED
  BY <1>1, <1>2, IInit, IStep, OrphanStep, RoomStep, PTL DEF Spec
=============================================================================
