---------------------------- MODULE T2BioCapture ----------------------------
(***************************************************************************)
(* The WBDI sensor driver, driver/T2TouchIdBio/umdf/Queue.cpp: what happens *)
(* to a CAPTURE_DATA request from its arrival to its one completion.        *)
(*                                                                         *)
(* Every request has a worker thread and, once Windows cancels it, a WDF    *)
(* cancel callback (cb).  Beside them run three threads that invalidate or  *)
(* re-enable captures: the suspend/resume callback ("power"), the window of *)
(* session and display messages ("window") and the framework's queue        *)
(* callbacks and unload ("pnp").  They share the one capture slot, the      *)
(* manual-reset cancel and resume events, the generation counter and        *)
(* g_captureRequestCommitMu (mu).                                           *)
(*                                                                         *)
(* A step is what a thread does between two shared accesses that another    *)
(* thread can separate.  Waits are polled (every one has a time-out of at   *)
(* most a second), so the state event that only shortens them is left out.  *)
(***************************************************************************)
EXTENDS Naturals, FiniteSets

CONSTANTS
  Requests,       \* CAPTURE_DATA requests Windows ever makes (a bound)
  MaxBoundaries,  \* bound on the suspends, locks, display-offs, shutdowns
  Events,         \* what the surroundings may do: a subset of AllEvents
  Verdicts,       \* what a BiometricKit session may report: of AllVerdicts
  Purposes        \* what WBF asks for: a subset of AllPurposes

AllEvents == {"cancel", "suspend", "resume", "lock", "displayOff",
              "shutdown", "veto", "purge", "ioStop", "reset", "unload", "bootstrap",
              "net", "noThread"}
AllPurposes == {"verify", "enroll", "other"}
AllVerdicts == {"Match", "NoMatch", "Timeout", "TransportError", "NotReady"}

ASSUME RequestsAssumption == IsFiniteSet(Requests) /\ Requests # {} /\ "none" \notin Requests
ASSUME BoundAssumption == MaxBoundaries \in Nat
ASSUME EventsAssumption == Events \subseteq AllEvents
ASSUME VerdictsAssumption == Verdicts \subseteq AllVerdicts
ASSUME PurposesAssumption == Purposes \subseteq AllPurposes

VARIABLES
  \* the WDF request: did Windows ask to cancel it, is it marked cancelable,
  \* how it was completed and how often
  asked, marked, answer, completions,
  \* its CancelTrack (owner, and whether the stack object exists) and its
  \* cancel callback
  owner, alive, cb,
  \* its worker
  pc, purpose, handled, outcome, back,
  \* shared state of the driver
  slot, mu, replay, cancelEvent, resumeEvent, generation, sleepBarrier,
  grace, shuttingDown, ioSuspended, draining,
  \* T2SepBootstrap's report, the device's power state as WDF has it, and the
  \* threads beside the workers; is a WM_ENDSESSION still to come?
  sep, d0, queried, job, at, boundaries,
  \* does BiometricKit on the T2 answer a connect?
  reachable,
  \* history: a boundary other than a suspend has begun
  ended,
  \* ghosts: whose touch, and whether the cached one, predates a suspend or a
  \* lock that has since changed the generation
  staleTouch, staleReplay

wdfVars    == <<asked, marked, answer, completions>>
trackVars  == <<owner, alive, cb>>
workerVars == <<pc, purpose, handled, outcome, back>>
gateVars   == <<sleepBarrier, grace, shuttingDown, ioSuspended, draining, sep, d0,
                queried, reachable>>
actorVars  == <<job, at, boundaries, ended>>
staleVars  == <<staleTouch, staleReplay>>
vars == <<wdfVars, trackVars, workerVars, slot, mu, replay, cancelEvent, resumeEvent,
          generation, gateVars, actorVars, staleVars>>

-----------------------------------------------------------------------------
(* Values. *)

Actors == {"power", "window", "pnp"}

NoSlot == "none"

\* What a worker brings to the end of a wait or of a session.
Outcomes == AllVerdicts \cup
  {"None", "Cancelled", "SepFailed", "Acquired", "StillBusy", "Busy", "Replay",
   "Rejected", "Confirmed", "EnrollCancelled", "ConfirmFailed", "Unsupported"}

\* How a request is completed: with STATUS_CANCELLED by the cancel callback or
\* by the driver, or with a WINBIO_CAPTURE_DATA of each kind.
Answers == {"none", "CancelledByCallback", "CancelledByDriver", "Match", "Replay",
            "Confirmed", "Busy", "Aborted", "Failed"}

AnswerOf(o) ==
  CASE o \in {"Match", "Replay", "Confirmed"} -> o
    [] o \in {"Rejected", "EnrollCancelled"}  -> "CancelledByDriver"
    [] o \in {"Busy", "StillBusy"}            -> "Busy"
    [] o = "Cancelled"                        -> "Aborted"
    [] OTHER                                  -> "Failed"

DisplayBlocksSuccess == sleepBarrier \/ grace

IsCancelled(r) == owner[r] \in {1, 3}

\* Who holds g_captureRequestCommitMu: a worker (only the slot's owner keeps it
\* from step to step), a cancel callback or one of the actors.
MuHolders == {"free", "worker", "callback"} \cup Actors

Invalidating == {"suspend", "lock", "ioStop", "shutdown", "unload"}
Jobs == Invalidating \cup {"none", "resume", "displayOff"}

\* The jobs that take the mutex, and the ones that reset the resume event.
TakesCommitMu(j)  == j \in {"suspend", "lock", "ioStop"}
ResetsResume(j)   == j # "lock"

Init ==
  /\ asked = [r \in Requests |-> FALSE]
  /\ marked = [r \in Requests |-> FALSE]
  /\ answer = [r \in Requests |-> "none"]
  /\ completions = [r \in Requests |-> 0]
  /\ owner = [r \in Requests |-> 0]
  /\ alive = [r \in Requests |-> FALSE]
  /\ cb = [r \in Requests |-> "idle"]
  /\ pc = [r \in Requests |-> "none"]
  /\ purpose \in [Requests -> Purposes]
  /\ handled = [r \in Requests |-> 0]
  /\ outcome = [r \in Requests |-> "None"]
  /\ back = [r \in Requests |-> "resume"]
  /\ slot = NoSlot /\ mu = "free" /\ replay = FALSE
  /\ cancelEvent = FALSE /\ resumeEvent = TRUE /\ generation = 0
  /\ sleepBarrier = FALSE /\ grace = FALSE
  /\ shuttingDown = FALSE /\ ioSuspended = FALSE /\ draining = FALSE
  /\ sep = (IF "bootstrap" \in Events THEN "unknown" ELSE "ok") /\ d0 = TRUE
  /\ queried = FALSE /\ reachable \in (IF "net" \in Events THEN BOOLEAN ELSE {TRUE})
  /\ job = [a \in Actors |-> "none"] /\ at = [a \in Actors |-> "idle"]
  /\ boundaries = 0 /\ ended = FALSE
  /\ staleTouch = {} /\ staleReplay = FALSE

-----------------------------------------------------------------------------
(* Helpers of the workers. *)

Step(r, from, to) == pc[r] = from /\ pc' = [pc EXCEPT ![r] = to]

\* The worker moves on with a result.
Settle(r, from, to, o) ==
  /\ Step(r, from, to)
  /\ outcome' = [outcome EXCEPT ![r] = o]

\* WdfRequestComplete and its relatives.
Complete(r, a) ==
  /\ completions' = [completions EXCEPT ![r] = @ + 1]
  /\ answer' = [answer EXCEPT ![r] = a]
  /\ marked' = [marked EXCEPT ![r] = FALSE]
  /\ UNCHANGED asked

\* No worker thread runs for the request: it has not come, the dispatch thread
\* answers it itself, or the worker is done.
NoWorker(r) == pc[r] \in {"none", "refuse", "gone"}

Pending(r) == pc[r] # "none" /\ completions[r] = 0

-----------------------------------------------------------------------------
(* Admission: HandleCaptureData, StartCaptureWorker, ProcessCapture.       *)

\* CheckSepReady: until the bootstrap has reported, a verify request is accepted and
\* every other refused; a failed bootstrap refuses all.
SepAdmits(r) == sep = "ok" \/ (sep = "unknown" /\ purpose[r] = "verify")

\* The request arrives on the dispatch thread.  An unload in progress starts no
\* worker, and creating the thread may fail.
Arrive(r) ==
  /\ \/ /\ ~SepAdmits(r) \/ ("noThread" \in Events /\ ~draining)
        /\ Step(r, "none", "refuse") /\ UNCHANGED wdfVars
     \/ /\ SepAdmits(r) /\ draining
        /\ Step(r, "none", "gone") /\ Complete(r, "CancelledByDriver")
     \/ /\ SepAdmits(r) /\ ~draining
        /\ Step(r, "none", "admit") /\ UNCHANGED wdfVars
  /\ UNCHANGED <<trackVars, purpose, handled, outcome, back, slot, mu, replay, cancelEvent,
                 resumeEvent, generation, gateVars, actorVars, staleVars>>

\* The dispatch thread completes what it refuses, like every answer under the mutex.
Refuse(r) ==
  /\ mu = "free"
  /\ Step(r, "refuse", "gone") /\ Complete(r, "Failed")
  /\ UNCHANGED <<trackVars, purpose, handled, outcome, back, slot, mu, replay, cancelEvent,
                 resumeEvent, generation, gateVars, actorVars, staleVars>>

\* Mutant: the slot is taken by a plain store.
AdmitForced(r) ==
  /\ Step(r, "admit", "reset") /\ slot' = r /\ UNCHANGED outcome
  /\ UNCHANGED <<wdfVars, trackVars, purpose, handled, back, mu, replay, cancelEvent,
                 resumeEvent, generation, gateVars, actorVars, staleVars>>

\* The one capture slot, and what becomes of a request that finds it taken.
Admit(r) ==
  /\ IF shuttingDown
     THEN Settle(r, "admit", "answer", "Rejected") /\ UNCHANGED slot
     ELSE IF slot = NoSlot
     THEN Step(r, "admit", "reset") /\ slot' = r /\ UNCHANGED outcome
     ELSE IF cancelEvent
     THEN Step(r, "admit", "armWait") /\ UNCHANGED <<slot, outcome>>
     ELSE Settle(r, "admit", "answer", "Busy") /\ UNCHANGED slot
  /\ UNCHANGED <<wdfVars, trackVars, purpose, handled, back, mu, replay, cancelEvent,
                 resumeEvent, generation, gateVars, actorVars, staleVars>>

\* Mutant: a request that cannot be marked is left to Windows.
ArmForgets(r) ==
  /\ pc[r] \in {"armWait", "arm"}
  /\ owner' = [owner EXCEPT ![r] = 0]
  /\ marked' = [marked EXCEPT ![r] = ~asked[r]]
  /\ alive' = [alive EXCEPT ![r] = ~asked[r]]
  /\ pc' = [pc EXCEPT ![r] = IF asked[r] THEN "leave" ELSE IF @ = "armWait" THEN "waitSlot"
                             ELSE "sepWait"]
  /\ UNCHANGED <<asked, answer, completions, cb, cancelEvent, outcome, purpose, handled,
                 back, slot, mu, replay, resumeEvent, generation, gateVars, actorVars,
                 staleVars>>

\* CancelableScope::Arm registers the track and marks the request cancelable.
\* For a request Windows has already cancelled the mark fails, and the worker
\* completes it.
Arm(r) ==
  /\ pc[r] \in {"armWait", "arm"}
  /\ IF asked[r]
     THEN /\ cancelEvent' = TRUE
          /\ pc' = [pc EXCEPT ![r] = "answer"]
          /\ outcome' = [outcome EXCEPT ![r] = "Rejected"]
          /\ UNCHANGED <<wdfVars, trackVars>>
     ELSE /\ marked' = [marked EXCEPT ![r] = TRUE]
          /\ owner' = [owner EXCEPT ![r] = 0]
          /\ alive' = [alive EXCEPT ![r] = TRUE]
          /\ pc' = [pc EXCEPT ![r] = IF @ = "armWait" THEN "waitSlot"
                                     ELSE IF purpose[r] = "verify" THEN "sepWait"
                                     ELSE "connect"]
          /\ UNCHANGED <<asked, answer, completions, cb, cancelEvent, outcome>>
  /\ UNCHANGED <<purpose, handled, back, slot, mu, replay, resumeEvent, generation,
                 gateVars, actorVars, staleVars>>

\* WaitForCancelledPredecessor: the slot comes free, or 8 seconds pass.
WaitSlot(r) ==
  /\ \/ slot = NoSlot /\ slot' = r /\ Settle(r, "waitSlot", "release", "Acquired")
     \/ UNCHANGED slot /\ Settle(r, "waitSlot", "release", "StillBusy")
  /\ UNCHANGED <<wdfVars, trackVars, purpose, handled, back, mu, replay, cancelEvent,
                 resumeEvent, generation, gateVars, actorVars, staleVars>>

\* ProcessCapture owns the slot and clears what its predecessor left; a purpose
\* it does not serve is answered E_NOTIMPL.
ResetCancelEvent(r) ==
  /\ \/ purpose[r] = "verify" /\ Step(r, "reset", "entry") /\ UNCHANGED outcome
     \/ purpose[r] = "enroll" /\ Step(r, "reset", "arm") /\ UNCHANGED outcome
     \/ purpose[r] = "other" /\ Settle(r, "reset", "answer", "Unsupported")
  /\ cancelEvent' = FALSE
  /\ UNCHANGED <<wdfVars, trackVars, purpose, handled, back, slot, mu, replay,
                 resumeEvent, generation, gateVars, actorVars, staleVars>>

-----------------------------------------------------------------------------
(* HandleCaptureVerify up to the first session.                            *)

\* Mutant: a replay is delivered without being used up.
EntryKeepsReplay(r) ==
  /\ \/ replay /\ Settle(r, "entry", "answer", "Replay")
     \/ ~replay /\ Step(r, "entry", "arm") /\ UNCHANGED outcome
  /\ UNCHANGED <<wdfVars, trackVars, purpose, handled, back, slot, mu, replay, cancelEvent,
                 resumeEvent, generation, gateVars, actorVars, staleVars>>

\* Shutdown, or the one replay of the previous Match while it is young enough.
Entry(r) ==
  /\ \/ /\ shuttingDown
        /\ Settle(r, "entry", "answer", "Rejected")
        /\ UNCHANGED <<replay, staleTouch>>
     \/ /\ ~shuttingDown /\ ~DisplayBlocksSuccess /\ replay
        /\ replay' = FALSE
        /\ \/ /\ Settle(r, "entry", "answer", "Replay")
              /\ staleTouch' = IF staleReplay THEN staleTouch \cup {r} ELSE staleTouch \ {r}
           \/ Step(r, "entry", "arm") /\ UNCHANGED <<outcome, staleTouch>>
     \/ /\ ~shuttingDown /\ (DisplayBlocksSuccess \/ ~replay)
        /\ Step(r, "entry", "arm")
        /\ UNCHANGED <<outcome, replay, staleTouch>>
  /\ UNCHANGED <<wdfVars, trackVars, purpose, handled, back, slot, mu, cancelEvent,
                 resumeEvent, generation, gateVars, actorVars, staleReplay>>

\* WaitForSepBootstrap.
SepWait(r) ==
  /\ CASE shuttingDown \/ IsCancelled(r) -> Settle(r, "sepWait", "release", "Cancelled")
       [] ~(shuttingDown \/ IsCancelled(r)) /\ sep = "ok" ->
            Step(r, "sepWait", "snapshot") /\ UNCHANGED outcome
       [] ~(shuttingDown \/ IsCancelled(r)) /\ sep = "failed" ->
            Settle(r, "sepWait", "release", "SepFailed")
       [] OTHER -> FALSE
  /\ UNCHANGED <<wdfVars, trackVars, purpose, handled, back, slot, mu, replay, cancelEvent,
                 resumeEvent, generation, gateVars, actorVars, staleVars>>

\* entryGeneration.
Snapshot(r) ==
  /\ Step(r, "snapshot", "display")
  /\ handled' = [handled EXCEPT ![r] = generation]
  /\ back' = [back EXCEPT ![r] = "resume"]
  /\ UNCHANGED <<wdfVars, trackVars, purpose, outcome, slot, mu, replay, cancelEvent,
                 resumeEvent, generation, gateVars, actorVars, staleVars>>

\* A wait returns false: the capture ends as Cancelled.
GiveUp(r, from) == Settle(r, from, "release", "Cancelled")

\* WaitUntilDisplayAllowsScan returns false: inside the attempt loop the checks
\* that follow the loop still run.
GiveUpDisplay(r, from) ==
  \/ back[r] = "resume" /\ GiveUp(r, from)
  \/ back[r] = "connect" /\ Settle(r, from, "verdict", "Cancelled")

\* WaitUntilDisplayAllowsScan, first look.
Display(r) ==
  /\ IF shuttingDown \/ (~DisplayBlocksSuccess /\ IsCancelled(r))
     THEN GiveUpDisplay(r, "display")
     ELSE /\ Step(r, "display", IF DisplayBlocksSuccess THEN "displayWait" ELSE back[r])
          /\ UNCHANGED outcome
  /\ UNCHANGED <<wdfVars, trackVars, purpose, handled, back, slot, mu, replay, cancelEvent,
                 resumeEvent, generation, gateVars, actorVars, staleVars>>

\* Its loop.
DisplayWait(r) ==
  /\ \/ /\ ~DisplayBlocksSuccess
        /\ Step(r, "displayWait", "displayReset")
        /\ UNCHANGED outcome
     \/ /\ DisplayBlocksSuccess /\ (shuttingDown \/ IsCancelled(r))
        /\ GiveUpDisplay(r, "displayWait")
  /\ UNCHANGED <<wdfVars, trackVars, purpose, handled, back, slot, mu, replay, cancelEvent,
                 resumeEvent, generation, gateVars, actorVars, staleVars>>

\* The signal of the display-off is cleared once the loop is left.
DisplayReset(r) ==
  /\ Step(r, "displayReset", "displayClear")
  /\ cancelEvent' = FALSE
  /\ UNCHANGED <<wdfVars, trackVars, purpose, handled, outcome, back, slot, mu, replay,
                 resumeEvent, generation, gateVars, actorVars, staleVars>>

DisplayClear(r) ==
  /\ IF shuttingDown \/ IsCancelled(r)
     THEN GiveUpDisplay(r, "displayClear")
     ELSE Step(r, "displayClear", back[r]) /\ UNCHANGED outcome
  /\ UNCHANGED <<wdfVars, trackVars, purpose, handled, back, slot, mu, replay, cancelEvent,
                 resumeEvent, generation, gateVars, actorVars, staleVars>>

\* Mutant: only the request's own cancellation ends the wait.
ResumeIgnoresShutdown(r) ==
  /\ \/ /\ IsCancelled(r)
        /\ GiveUp(r, "resume")
        /\ UNCHANGED <<handled, cancelEvent>>
     \/ /\ ~IsCancelled(r) /\ resumeEvent
        /\ Step(r, "resume", "resumeClear")
        /\ handled' = [handled EXCEPT ![r] = generation]
        /\ cancelEvent' = FALSE
        /\ UNCHANGED outcome
  /\ UNCHANGED <<wdfVars, trackVars, purpose, back, slot, mu, replay,
                 resumeEvent, generation, gateVars, actorVars, staleVars>>

\* Mutant of Resume: the signal of the suspend is left set.
ResumeKeepsSignal(r) ==
  /\ \/ /\ shuttingDown \/ IsCancelled(r)
        /\ GiveUp(r, "resume") /\ UNCHANGED handled
     \/ /\ ~(shuttingDown \/ IsCancelled(r)) /\ resumeEvent
        /\ Step(r, "resume", "resumeClear")
        /\ handled' = [handled EXCEPT ![r] = generation]
        /\ UNCHANGED outcome
  /\ UNCHANGED <<wdfVars, trackVars, purpose, back, slot, mu, replay, cancelEvent,
                 resumeEvent, generation, gateVars, actorVars, staleVars>>

\* WaitForSystemResume: once the resume event is set, the generation is read
\* and the internal cancel signal cleared.  (handled is not used again unless
\* ResumeClear accepts the generation.)
Resume(r) ==
  /\ \/ /\ shuttingDown \/ IsCancelled(r)
        /\ GiveUp(r, "resume")
        /\ UNCHANGED <<handled, cancelEvent>>
     \/ /\ ~(shuttingDown \/ IsCancelled(r)) /\ resumeEvent
        /\ Step(r, "resume", "resumeClear")
        /\ handled' = [handled EXCEPT ![r] = generation]
        /\ cancelEvent' = FALSE
        /\ UNCHANGED outcome
  /\ UNCHANGED <<wdfVars, trackVars, purpose, back, slot, mu, replay,
                 resumeEvent, generation, gateVars, actorVars, staleVars>>

ResumeClear(r) ==
  /\ IF shuttingDown \/ IsCancelled(r)
     THEN GiveUp(r, "resumeClear") /\ UNCHANGED back
     ELSE IF handled[r] = generation /\ resumeEvent
     THEN /\ Step(r, "resumeClear", "display") /\ UNCHANGED outcome
          /\ back' = [back EXCEPT ![r] = "connect"]
     ELSE Step(r, "resumeClear", "resume") /\ UNCHANGED <<outcome, back>>
  /\ UNCHANGED <<wdfVars, trackVars, purpose, handled, slot, mu, replay, cancelEvent,
                 resumeEvent, generation, gateVars, actorVars, staleVars>>

-----------------------------------------------------------------------------
(* A session with the SEP.                                                 *)

\* ConnectForCaptureWithRetry goes on until it is connected or the cancel event
\* is set, however long the T2 is out of reach; verify looks at that event once more.
Connect(r) ==
  /\ pc[r] = "connect"
  /\ \/ /\ cancelEvent
        /\ IF purpose[r] = "verify"
           THEN Settle(r, "connect", "verdict", "Cancelled")
           ELSE Settle(r, "connect", "release", "EnrollCancelled")
     \/ /\ reachable /\ purpose[r] = "verify" /\ ~cancelEvent
        /\ Step(r, "connect", "verify") /\ UNCHANGED outcome
     \/ /\ reachable /\ purpose[r] = "enroll"
        /\ Settle(r, "connect", "release", "Confirmed")
  /\ UNCHANGED <<wdfVars, trackVars, purpose, handled, back, slot, mu, replay, cancelEvent,
                 resumeEvent, generation, gateVars, actorVars, staleVars>>

\* VerificationEngine::Verify ends: with what BiometricKit reports, or because
\* the cancel event is set.  A touch is as old as the moment it is reported.
Verify(r) ==
  /\ pc[r] = "verify"
  /\ \/ \E o \in Verdicts :
          /\ Settle(r, "verify", "verdict", o)
          /\ staleTouch' = staleTouch \ {r}
          /\ UNCHANGED back
     \/ /\ cancelEvent
        /\ Settle(r, "verify", "verdict", "Cancelled")
        /\ UNCHANGED <<staleTouch, back>>
     \* the connection dropped: the next of the bounded session attempts
     \/ /\ "TransportError" \in Verdicts /\ ~cancelEvent
        /\ Settle(r, "verify", "display", "TransportError")
        /\ back' = [back EXCEPT ![r] = "connect"]
        /\ UNCHANGED staleTouch
  /\ UNCHANGED <<wdfVars, trackVars, purpose, handled, slot, mu, replay, cancelEvent,
                 resumeEvent, generation, gateVars, actorVars, staleReplay>>

\* After the session: was the request cancelled meanwhile?
Verdict(r) ==
  /\ IF IsCancelled(r)
     THEN Settle(r, "verdict", "release", "Cancelled")
     ELSE /\ Step(r, "verdict", IF outcome[r] = "Match" THEN "lock" ELSE "check")
          /\ UNCHANGED outcome
  /\ UNCHANGED <<wdfVars, trackVars, purpose, handled, back, slot, mu, replay, cancelEvent,
                 resumeEvent, generation, gateVars, actorVars, staleVars>>

\* Mutant: a Match is checked without the mutex, which is taken to complete it.
LockLate(r) ==
  /\ Step(r, "lock", "check")
  /\ UNCHANGED <<wdfVars, trackVars, purpose, handled, outcome, back, slot, mu, replay,
                 cancelEvent, resumeEvent, generation, gateVars, actorVars, staleVars>>

\* A Match holds the commit mutex from here to its completion.
Lock(r) ==
  /\ mu = "free" /\ mu' = "worker"
  /\ Step(r, "lock", "check")
  /\ UNCHANGED <<wdfVars, trackVars, purpose, handled, outcome, back, slot, replay,
                 cancelEvent, resumeEvent, generation, gateVars, actorVars, staleVars>>

\* The sleep path: the result is dropped, the request stays pending.
DropResult(r) ==
  /\ mu' = IF outcome[r] = "Match" /\ mu = "worker" THEN "free" ELSE mu
  /\ replay' = FALSE
  /\ pc' = [pc EXCEPT ![r] = "display"]
  /\ back' = [back EXCEPT ![r] = "resume"]
  /\ UNCHANGED outcome

\* The generation and the resume event ...
Check(r) ==
  /\ pc[r] = "check"
  /\ IF generation # handled[r] \/ ~resumeEvent
     THEN DropResult(r)
     ELSE Step(r, "check", "checkDisplay") /\ UNCHANGED <<mu, replay, back, outcome>>
  /\ UNCHANGED <<wdfVars, trackVars, purpose, handled, slot, cancelEvent,
                 resumeEvent, generation, gateVars, actorVars, staleVars>>

\* ... then the display, then the outcome: a Match or an abort ends the
\* request, BiometricKit's refusals end it outside the bring-up window, and
\* everything else starts another session.
CheckDisplay(r) ==
  /\ pc[r] = "checkDisplay"
  /\ \/ DisplayBlocksSuccess /\ DropResult(r)
     \/ /\ ~DisplayBlocksSuccess /\ outcome[r] \in {"Match", "Cancelled", "NotReady"}
        /\ Step(r, "checkDisplay", "release")
        /\ UNCHANGED <<mu, replay, back, outcome>>
     \/ /\ ~DisplayBlocksSuccess
        /\ outcome[r] \in {"NoMatch", "Timeout", "TransportError", "NotReady"}
        /\ Step(r, "checkDisplay", "display")
        /\ back' = [back EXCEPT ![r] = "connect"]
        /\ UNCHANGED <<mu, replay, outcome>>
  /\ UNCHANGED <<wdfVars, trackVars, purpose, handled, slot, cancelEvent,
                 resumeEvent, generation, gateVars, actorVars, staleVars>>

-----------------------------------------------------------------------------
(* CancelableScope::Release and the completion by the worker.              *)

\* The compare-exchange of Release().
Release(r) ==
  /\ IF owner[r] = 0
     THEN /\ Step(r, "release", "unmark")
          /\ owner' = [owner EXCEPT ![r] = 2]
     ELSE Step(r, "release", "waitCancel") /\ UNCHANGED owner
  /\ UNCHANGED <<wdfVars, alive, cb, purpose, handled, outcome, back, slot, mu, replay,
                 cancelEvent, resumeEvent, generation, gateVars, actorVars, staleVars>>

\* Mutant: STATUS_CANCELLED from WdfRequestUnmarkCancelable is ignored.
UnmarkBlind(r) ==
  /\ Step(r, "unmark", "answer")
  /\ marked' = [marked EXCEPT ![r] = FALSE]
  /\ alive' = [alive EXCEPT ![r] = FALSE]
  /\ UNCHANGED <<asked, answer, completions, owner, cb, purpose, handled, outcome, back,
                 slot, mu, replay, cancelEvent, resumeEvent, generation, gateVars,
                 actorVars, staleVars>>

\* WdfRequestUnmarkCancelable: STATUS_CANCELLED once WDF has the callback under
\* way, else the request is the worker's again.
Unmark(r) ==
  /\ IF cb[r] # "idle"
     THEN Step(r, "unmark", "waitCancel") /\ UNCHANGED <<wdfVars, trackVars, outcome>>
     ELSE /\ pc[r] = "unmark"
          /\ pc' = [pc EXCEPT ![r] = IF outcome[r] = "Acquired" THEN "reset" ELSE "answer"]
          /\ \/ UNCHANGED outcome
             \/ outcome[r] = "Confirmed" /\ outcome' = [outcome EXCEPT ![r] = "ConfirmFailed"]
          /\ marked' = [marked EXCEPT ![r] = FALSE]
          /\ alive' = [alive EXCEPT ![r] = FALSE]
          /\ UNCHANGED <<asked, answer, completions, owner, cb>>
  /\ UNCHANGED <<purpose, handled, back, slot, mu, replay, cancelEvent, resumeEvent,
                 generation, gateVars, actorVars, staleVars>>

\* Is this the result of a verify session (or of the waits before one)?
OfVerify(r) == purpose[r] = "verify" /\ outcome[r] \in AllVerdicts \cup {"Cancelled"}

\* Release() returns false only after the callback's store; the handler
\* returns, the scope and a mutex held for a Match go with it.
WaitCancel(r) ==
  /\ owner[r] = 3
  /\ Step(r, "waitCancel", "leave")
  /\ alive' = [alive EXCEPT ![r] = FALSE]
  /\ replay' = (replay /\ ~OfVerify(r))
  /\ mu' = IF outcome[r] = "Match" /\ mu = "worker" THEN "free" ELSE mu
  /\ UNCHANGED <<wdfVars, owner, cb, purpose, handled, outcome, back, slot,
                 cancelEvent, resumeEvent, generation, gateVars, actorVars, staleVars>>

\* CompleteCaptureData, or a plain completion, under the mutex; the capture an
\* enroll abandons needs no mutex.  A Match arms the replay for the second
\* capture of WBF's pair, every other result of verify clears it.
Answer(r) ==
  /\ \/ mu = "free"
     \/ mu = "worker" /\ outcome[r] = "Match"
     \/ outcome[r] = "EnrollCancelled"
  /\ Step(r, "answer", "leave")
  /\ Complete(r, AnswerOf(outcome[r]))
  /\ replay' = IF OfVerify(r) THEN outcome[r] = "Match" ELSE replay
  /\ staleReplay' = IF outcome[r] = "Match" THEN r \in staleTouch ELSE staleReplay
  /\ mu' = IF outcome[r] = "Match" THEN "free" ELSE mu
  /\ UNCHANGED <<trackVars, purpose, handled, outcome, back, slot, cancelEvent,
                 resumeEvent, generation, gateVars, actorVars, staleTouch>>

\* ProcessCapture returns: CaptureBusyGuard gives the slot back.
Leave(r) ==
  /\ Step(r, "leave", "gone")
  /\ slot' = IF slot = r THEN NoSlot ELSE slot
  /\ UNCHANGED <<wdfVars, trackVars, purpose, handled, outcome, back, mu, replay,
                 cancelEvent, resumeEvent, generation, gateVars, actorVars, staleVars>>

-----------------------------------------------------------------------------
(* CancelIoEx and EvtCaptureCancel.                                        *)

\* Windows cancels the request; WDF runs the callback if the request is marked
\* cancelable.
CancelIoEx(r) ==
  /\ "cancel" \in Events
  /\ Pending(r) /\ ~asked[r]
  /\ asked' = [asked EXCEPT ![r] = TRUE]
  /\ cb' = [cb EXCEPT ![r] = IF marked[r] THEN "event" ELSE @]
  /\ UNCHANGED <<marked, answer, completions, owner, alive, workerVars, slot, mu, replay,
                 cancelEvent, resumeEvent, generation, gateVars, actorVars, staleVars>>

CbStep(r, from, to) == cb[r] = from /\ cb' = [cb EXCEPT ![r] = to]

CbSignals(r) ==
  /\ CbStep(r, "event", "claim")
  /\ cancelEvent' = TRUE
  /\ UNCHANGED <<wdfVars, owner, alive, workerVars, slot, mu, replay, resumeEvent,
                 generation, gateVars, actorVars, staleVars>>

\* Under g_cancelTrackMu: the track is found while it is registered.
CbClaims(r) ==
  /\ CbStep(r, "claim", IF alive[r] /\ owner[r] # 1 THEN "commit" ELSE "ended")
  /\ owner' = IF alive[r] THEN [owner EXCEPT ![r] = 1] ELSE owner
  /\ UNCHANGED <<wdfVars, alive, workerVars, slot, mu, replay, cancelEvent, resumeEvent,
                 generation, gateVars, actorVars, staleVars>>

CbCompletes(r) ==
  /\ CbStep(r, "commit", "store")
  /\ mu = "free" /\ mu' = "callback"
  /\ Complete(r, "CancelledByCallback")
  /\ UNCHANGED <<owner, alive, workerVars, slot, replay, cancelEvent, resumeEvent,
                 generation, gateVars, actorVars, staleVars>>

CbStores(r) ==
  /\ CbStep(r, "store", "notify")
  /\ owner' = [owner EXCEPT ![r] = 3]
  /\ UNCHANGED <<wdfVars, alive, workerVars, slot, mu, replay, cancelEvent, resumeEvent,
                 generation, gateVars, actorVars, staleVars>>

\* completionCv.notify_all(), then the mutex goes.
CbNotifies(r) ==
  /\ CbStep(r, "notify", "ended")
  /\ mu' = "free"
  /\ UNCHANGED <<wdfVars, owner, alive, workerVars, slot, replay, cancelEvent, resumeEvent,
                 generation, gateVars, actorVars, staleVars>>

-----------------------------------------------------------------------------
(* The threads that invalidate captures.                                   *)

Begin(a, j, step) ==
  /\ job[a] = "none"
  /\ job' = [job EXCEPT ![a] = j]
  /\ at' = [at EXCEPT ![a] = step]

NextStep(a, step) == at' = [at EXCEPT ![a] = step] /\ UNCHANGED <<job, boundaries, ended>>
EndJob(a) ==
  /\ job' = [job EXCEPT ![a] = "none"]
  /\ at' = [at EXCEPT ![a] = "idle"]
  /\ UNCHANGED <<boundaries, ended>>

StartsBoundary == boundaries < MaxBoundaries /\ boundaries' = boundaries + 1
EndsCaptures   == StartsBoundary /\ ended' = TRUE

\* PBT_APMSUSPEND, before the mutex.
SuspendBegins ==
  /\ "suspend" \in Events /\ ~ioSuspended /\ StartsBoundary /\ UNCHANGED ended
  /\ Begin("power", "suspend", "resume")
  /\ sleepBarrier' = TRUE /\ grace' = FALSE /\ ioSuspended' = TRUE
  /\ UNCHANGED <<wdfVars, trackVars, workerVars, slot, mu, replay, cancelEvent, resumeEvent,
                 generation, shuttingDown, draining, sep, d0, queried, reachable, staleVars>>

\* WTS_SESSION_LOCK, EvtIoStop(Suspend): BeginCapture... under the mutex.
LockBegins ==
  /\ \/ "lock" \in Events /\ Begin("window", "lock", "resume") /\ UNCHANGED d0
     \/ "ioStop" \in Events /\ d0 /\ Begin("pnp", "ioStop", "resume") /\ d0' = FALSE
  /\ EndsCaptures
  /\ UNCHANGED <<wdfVars, trackVars, workerVars, slot, mu, replay, cancelEvent, resumeEvent,
                 generation, sleepBarrier, grace, shuttingDown, ioSuspended, draining, sep,
                 queried, reachable, staleVars>>

\* The device is back in D0.  T2BioEvtIoResume exists, but the queue that
\* T2BioEvtDeviceAdd creates registers no EvtIoResume: the driver runs nothing.
D0Entry ==
  /\ ~d0 /\ job["pnp"] = "none" /\ d0' = TRUE
  /\ UNCHANGED <<wdfVars, trackVars, workerVars, slot, mu, replay, cancelEvent, resumeEvent,
                 generation, sleepBarrier, grace, shuttingDown, ioSuspended, draining, sep,
                 queried, reachable, actorVars, staleVars>>

\* BeginCaptureShutdown: WM_QUERYENDSESSION, WM_ENDSESSION, EvtIoStop(Purge),
\* or EvtDriverUnload, which closes admission first.
ShutdownBegins ==
  /\ \/ "shutdown" \in Events /\ Begin("window", "shutdown", "resume")
        /\ queried' = TRUE /\ UNCHANGED draining
     \/ "purge" \in Events /\ Begin("pnp", "shutdown", "resume")
        /\ UNCHANGED <<queried, draining>>
     \/ "unload" \in Events /\ ~draining /\ draining' = TRUE
        /\ Begin("pnp", "unload", "resume") /\ UNCHANGED queried
  /\ EndsCaptures
  /\ shuttingDown' = TRUE /\ sleepBarrier' = TRUE
  /\ UNCHANGED <<wdfVars, trackVars, workerVars, slot, mu, replay, cancelEvent, resumeEvent,
                 generation, grace, ioSuspended, sep, d0, reachable, staleVars>>

\* InvalidateActiveCapture, first part.
InvalidateResume(a) ==
  /\ job[a] \in Invalidating /\ at[a] = "resume"
  /\ IF TakesCommitMu(job[a]) THEN mu = "free" /\ mu' = a ELSE UNCHANGED mu
  /\ resumeEvent' = (resumeEvent /\ ~ResetsResume(job[a]))
  /\ NextStep(a, "generation")
  /\ UNCHANGED <<wdfVars, trackVars, workerVars, slot, replay, cancelEvent, generation,
                 gateVars, staleVars>>

InvalidateGeneration(a) ==
  /\ job[a] \in Invalidating /\ at[a] = "generation"
  /\ generation' = generation + 1
  /\ replay' = FALSE
  /\ NextStep(a, "cancel")
  /\ staleTouch' = IF TakesCommitMu(job[a]) THEN Requests ELSE staleTouch
  /\ staleReplay' = (staleReplay \/ TakesCommitMu(job[a]))
  /\ UNCHANGED <<wdfVars, trackVars, workerVars, slot, mu, cancelEvent, resumeEvent, gateVars>>

InvalidateCancel(a) ==
  /\ job[a] \in Invalidating /\ at[a] = "cancel"
  /\ cancelEvent' = TRUE
  /\ mu' = IF TakesCommitMu(job[a]) THEN "free" ELSE mu
  /\ IF job[a] = "unload" THEN NextStep(a, "join") ELSE EndJob(a)
  /\ UNCHANGED <<wdfVars, trackVars, workerVars, slot, replay, resumeEvent, generation,
                 gateVars, staleVars>>

\* Mutant: the drain gives up after three seconds.
JoinBounded ==
  /\ job["pnp"] = "unload" /\ at["pnp"] = "join"
  /\ NextStep("pnp", "unloaded")
  /\ UNCHANGED <<wdfVars, trackVars, workerVars, slot, mu, replay, cancelEvent, resumeEvent,
                 generation, gateVars, staleVars>>

\* T2BioDrainCaptureWorkers joins every worker.
Join ==
  /\ job["pnp"] = "unload" /\ at["pnp"] = "join"
  /\ \A r \in Requests : NoWorker(r)
  /\ NextStep("pnp", "unloaded")
  /\ UNCHANGED <<wdfVars, trackVars, workerVars, slot, mu, replay, cancelEvent, resumeEvent,
                 generation, gateVars, staleVars>>

\* PBT_APMRESUMESUSPEND / AUTOMATIC.
ResumeBegins ==
  /\ "resume" \in Events /\ ioSuspended
  /\ Begin("power", "resume", "resume") /\ UNCHANGED <<boundaries, ended>>
  /\ sleepBarrier' = FALSE /\ ioSuspended' = FALSE
  /\ UNCHANGED <<wdfVars, trackVars, workerVars, slot, mu, replay, cancelEvent, resumeEvent,
                 generation, grace, shuttingDown, draining, sep, d0, queried, reachable, staleVars>>

\* Mutant: the resume callback does not set the event.
ResumeEndsSilently ==
  /\ job["power"] = "resume"
  /\ replay' = FALSE
  /\ EndJob("power")
  /\ UNCHANGED <<wdfVars, trackVars, workerVars, slot, mu, cancelEvent, resumeEvent, generation,
                 gateVars, staleVars>>

ResumeEnds ==
  /\ job["power"] = "resume"
  /\ replay' = FALSE
  /\ resumeEvent' = TRUE
  /\ EndJob("power")
  /\ UNCHANGED <<wdfVars, trackVars, workerVars, slot, mu, cancelEvent, generation,
                 gateVars, staleVars>>

\* Console display off: the grace window, then the abort, then the generation;
\* nothing is done during a sleep.
DisplayOffBegins ==
  /\ "displayOff" \in Events /\ ~sleepBarrier /\ EndsCaptures
  /\ Begin("window", "displayOff", "abort")
  /\ grace' = TRUE
  /\ UNCHANGED <<wdfVars, trackVars, workerVars, slot, mu, replay, cancelEvent, resumeEvent,
                 generation, sleepBarrier, shuttingDown, ioSuspended, draining, sep, d0,
                 queried, reachable, staleVars>>

DisplayOffAborts ==
  /\ job["window"] = "displayOff" /\ at["window"] = "abort"
  /\ replay' = FALSE /\ cancelEvent' = TRUE
  /\ NextStep("window", "generation")
  /\ UNCHANGED <<wdfVars, trackVars, workerVars, slot, mu, resumeEvent, generation,
                 gateVars, staleVars>>

DisplayOffEnds ==
  /\ job["window"] = "displayOff" /\ at["window"] = "generation"
  /\ generation' = generation + 1
  /\ EndJob("window")
  /\ UNCHANGED <<wdfVars, trackVars, workerVars, slot, mu, replay, cancelEvent, resumeEvent,
                 gateVars, staleVars>>

\* Display on or dimmed, or the three seconds pass (they outlast the handler).
GraceEnds ==
  /\ grace /\ job["window"] = "none"
  /\ grace' = FALSE
  /\ UNCHANGED <<wdfVars, trackVars, workerVars, slot, mu, replay, cancelEvent, resumeEvent,
                 generation, sleepBarrier, shuttingDown, ioSuspended, draining, sep, d0,
                 queried, reachable, actorVars, staleVars>>

\* WM_ENDSESSION with wParam FALSE: another program vetoed the shutdown.
Veto ==
  /\ "veto" \in Events /\ queried /\ job["window"] = "none"
  /\ queried' = FALSE
  /\ shuttingDown' = FALSE
  /\ sleepBarrier' = (sleepBarrier /\ ioSuspended)
  /\ UNCHANGED <<wdfVars, trackVars, workerVars, slot, mu, replay, cancelEvent, resumeEvent,
                 generation, grace, ioSuspended, draining, sep, d0, reachable, actorVars, staleVars>>

\* IOCTL_BIOMETRIC_RESET.
Reset ==
  /\ "reset" \in Events /\ replay /\ replay' = FALSE
  /\ UNCHANGED <<wdfVars, trackVars, workerVars, slot, mu, cancelEvent, resumeEvent,
                 generation, gateVars, actorVars, staleVars>>

\* T2SepBootstrap reports.
SepReports ==
  /\ sep = "unknown" /\ sep' \in {"ok", "failed"}
  /\ UNCHANGED <<wdfVars, trackVars, workerVars, slot, mu, replay, cancelEvent, resumeEvent,
                 generation, sleepBarrier, grace, shuttingDown, ioSuspended, draining, d0,
                 queried, reachable, actorVars, staleVars>>

\* The T2, its network link or BiometricKit on it comes and goes.
Network ==
  /\ "net" \in Events /\ reachable' = ~reachable
  /\ UNCHANGED <<wdfVars, trackVars, workerVars, slot, mu, replay, cancelEvent, resumeEvent,
                 generation, sleepBarrier, grace, shuttingDown, ioSuspended, draining, sep,
                 d0, queried, actorVars, staleVars>>

-----------------------------------------------------------------------------
\* The dispatch thread's part of a request, its worker's, and its cancel callback's.
Dispatch(r) == Arrive(r) \/ Refuse(r)

Worker(r) ==
  \/ Admit(r) \/ Arm(r) \/ WaitSlot(r) \/ ResetCancelEvent(r)
  \/ Entry(r) \/ SepWait(r) \/ Snapshot(r)
  \/ Display(r) \/ DisplayWait(r) \/ DisplayReset(r) \/ DisplayClear(r)
  \/ Resume(r) \/ ResumeClear(r)
  \/ Connect(r) \/ Verify(r) \/ Verdict(r) \/ Lock(r) \/ Check(r) \/ CheckDisplay(r)
  \/ Release(r) \/ Unmark(r) \/ WaitCancel(r) \/ Answer(r) \/ Leave(r)

Callback(r) ==
  CbSignals(r) \/ CbClaims(r) \/ CbCompletes(r) \/ CbStores(r) \/ CbNotifies(r)

\* A step of a job that has begun.
Invalidate(a) == InvalidateResume(a) \/ InvalidateGeneration(a) \/ InvalidateCancel(a)
Handlers == ResumeEnds \/ DisplayOffAborts \/ DisplayOffEnds \/ Join

Surroundings ==
  \/ SuspendBegins \/ LockBegins \/ ShutdownBegins \/ ResumeBegins \/ DisplayOffBegins
  \/ D0Entry \/ GraceEnds \/ Veto \/ Reset \/ SepReports \/ Network

Next ==
  \/ \E r \in Requests : Dispatch(r) \/ Worker(r) \/ CancelIoEx(r) \/ Callback(r)
  \/ \E a \in Actors : Invalidate(a)
  \/ Handlers \/ Surroundings

Spec == Init /\ [][Next]_vars

\* Threads that are running are scheduled, the grace window and the waits end,
\* and a Windows that suspends resumes.  Nothing is assumed of the user.
FairSpec ==
  /\ Spec
  /\ \A r \in Requests : WF_vars(Refuse(r) \/ Worker(r)) /\ WF_vars(Callback(r))
  /\ \A a \in Actors : WF_vars(Invalidate(a))
  /\ WF_vars(Handlers) /\ WF_vars(GraceEnds) /\ WF_vars(ResumeBegins)

-----------------------------------------------------------------------------
(* Properties. *)

Waiting == {"display", "displayWait", "displayReset", "displayClear", "resume",
            "resumeClear", "connect"}
Committing == {"check", "checkDisplay"}
Armed == {"waitSlot", "sepWait", "snapshot", "verify", "verdict", "lock", "release",
          "unmark", "waitCancel"} \cup Waiting \cup Committing
InSlot == {"reset", "entry", "arm", "sepWait", "snapshot", "verify", "verdict", "lock"}
          \cup Waiting \cup Committing
Pcs == Armed \cup {"none", "refuse", "admit", "armWait", "arm", "reset", "entry", "answer",
                   "leave", "gone"}

\* The type of every variable.
TypeOK ==
  /\ asked \in [Requests -> BOOLEAN] /\ marked \in [Requests -> BOOLEAN]
  /\ answer \in [Requests -> Answers] /\ completions \in [Requests -> 0 .. 2]
  /\ owner \in [Requests -> 0 .. 3] /\ alive \in [Requests -> BOOLEAN]
  /\ cb \in [Requests -> {"idle", "event", "claim", "commit", "store", "notify", "ended"}]
  /\ pc \in [Requests -> Pcs] /\ purpose \in [Requests -> AllPurposes]
  /\ handled \in [Requests -> 0 .. MaxBoundaries]
  /\ outcome \in [Requests -> Outcomes]
  /\ back \in [Requests -> {"resume", "connect"}]
  /\ slot \in Requests \cup {NoSlot} /\ mu \in MuHolders
  /\ generation \in 0 .. MaxBoundaries /\ boundaries \in 0 .. MaxBoundaries /\ ended \in BOOLEAN
  /\ <<replay, cancelEvent, resumeEvent, sleepBarrier, grace, shuttingDown, ioSuspended,
       draining, staleReplay>> \in BOOLEAN \X BOOLEAN \X BOOLEAN \X BOOLEAN \X BOOLEAN
                                   \X BOOLEAN \X BOOLEAN \X BOOLEAN \X BOOLEAN
  /\ sep \in {"unknown", "ok", "failed"} /\ <<d0, queried, reachable>> \in BOOLEAN \X BOOLEAN \X BOOLEAN
  /\ job \in [Actors -> Jobs]
  /\ at \in [Actors -> {"idle", "resume", "generation", "cancel", "abort", "join", "unloaded"}]
  /\ staleTouch \subseteq Requests

\* A request is completed exactly once: never by both its worker and its cancel
\* callback, and always before its worker is done (the CancelTrack protocol).
CompletedOnce ==
  \A r \in Requests :
    /\ completions[r] <= 1
    /\ pc[r] \in {"leave", "gone"} => completions[r] = 1

\* Only the owner of the capture slot is past admission, so the SEP never runs two
\* sessions, and the slot is free once no worker runs (CaptureBusyGuard).
OneSession ==
  /\ \A r \in Requests : pc[r] \in InSlot => slot = r
  /\ slot # NoSlot => pc[slot] \notin {"none", "refuse", "admit", "armWait", "gone"}

\* A Match is either committed before a suspend or a lock begins, or it is dropped:
\* the touch behind a delivered Match is not older than the last of them (the comment
\* on g_captureRequestCommitMu).
NoStaleMatch ==
  [][\A r \in Requests :
       answer[r] = "none" /\ answer'[r] = "Match" => r \notin staleTouch]_vars

\* The same for the cached Match that answers the second capture of WBF's pair.
NoStaleReplay ==
  [][\A r \in Requests :
       answer[r] = "none" /\ answer'[r] = "Replay" => r \notin staleTouch]_vars

\* One touch answers at most two captures: a Match and its one replay.
ReplaysAreFew ==
  Cardinality({r \in Requests : answer[r] = "Replay"})
    <= Cardinality({r \in Requests : answer[r] = "Match"})

\* Sleeping and waking, however often, never end a capture: it is aborted only if Windows
\* cancelled one (the cancel event is shared) or a lock, the display or a shutdown ended it
\* (Queue.cpp 365-371).
EndsOnlyWhenAsked ==
  \A r \in Requests : answer[r] = "Aborted" => ended \/ \E q \in Requests : asked[q]

\* "CAPTURE ends only on Match, CancelIoEx, fatal transport, or shutdown" (Queue.cpp 370): a
\* lock or a display-off ends none.
EndsAsDocumented ==
  \A r \in Requests : answer[r] = "Aborted" => shuttingDown \/ \E q \in Requests : asked[q]

\* WDF forbids WdfRequestUnmarkCancelable once the cancel callback has completed the
\* request (Queue.cpp 886-889).
UnmarkBeforeCompletion ==
  \A r \in Requests : pc[r] = "unmark" => completions[r] = 0

\* The stack-owned CancelTrack exists as long as the callback that claimed it may
\* touch it (Queue.cpp 962-963 and 1083-1084).
TrackOutlivesCallback ==
  \A r \in Requests : cb[r] \in {"commit", "store", "notify"} => alive[r]

\* A request that finds the slot taken is refused as busy at once only if the capture
\* in flight was not cancelled (Queue.cpp 1339-1346).
BusyOnlyBehindLive ==
  [][\A r \in Requests :
       pc[r] = "admit" /\ outcome'[r] = "Busy" /\ pc'[r] = "answer"
         => slot \in Requests /\ ~IsCancelled(slot)]_vars

\* Once the suspend callback has returned, a session that is still running has been
\* told to stop (power-resume-arc.md: no active StartMatch during sleep).
NoSessionDuringSleep ==
  ioSuspended /\ job["power"] = "none" =>
    \A r \in Requests : pc[r] = "verify" => cancelEvent

\* After the drain no worker runs and none will (T2BioDrainCaptureWorkers).
UnloadedIsQuiet ==
  at["pnp"] = "unloaded" => \A r \in Requests : NoWorker(r)

\* The worker is in ConnectForCaptureWithRetry while nothing answers.
ConnectsInVain(r) == pc[r] = "connect" /\ ~reachable

\* A capture that waits for a resume or a display reaches a session, ends, or the machine
\* sleeps again: nothing but a T2 out of reach can hold it (Queue.cpp 1155-1159, 1664-1668).
PendingScans ==
  \A r \in Requests :
    pc[r] \in Waiting /\ d0 ~>
      pc[r] \in {"verify", "gone"} \/ sleepBarrier \/ ~d0 \/ ConnectsInVain(r)

\* Windows' cancel completes the request, whatever the worker is doing (Queue.cpp 884:
\* "EvtCaptureCancel completes the request at once").
CancelCompletes ==
  \A r \in Requests : asked[r] ~> completions[r] > 0

\* No capture is open, and an unload has joined its workers.
Stopped ==
  /\ \A r \in Requests : pc[r] \in {"none", "gone"}
  /\ draining => at["pnp"] = "unloaded"

\* A shutdown that is not vetoed leaves no capture open, and EvtDriverUnload comes to its
\* end, every worker it joins unwinding: for verify whether or not the T2 ever answers, for
\* an enroll provided that it answers in the end.
StopsEnd ==
  (\A r \in Requests : purpose[r] = "verify") \/ <>[]reachable =>
    (shuttingDown \/ draining ~> Stopped \/ ~(shuttingDown \/ draining))

\* "A pending CAPTURE_DATA must NOT stay open across shutdown" (Queue.cpp 432), whatever the
\* T2 does: an enroll whose reset erases the shutdown's signal goes on connecting.
ShutdownClosesCaptures ==
  \A r \in Requests : shuttingDown ~> pc[r] \in {"none", "gone"} \/ ~shuttingDown
=============================================================================
