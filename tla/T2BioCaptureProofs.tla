------------------------- MODULE T2BioCaptureProofs -------------------------
(***************************************************************************)
(* Theorems about T2BioCapture, for any number of requests, boundaries,    *)
(* events and verdicts: the capture slot, the completion of a request, the *)
(* age of a Match and its replay, what ends a capture, and the unload.     *)
(***************************************************************************)
EXTENDS T2BioCapture, FiniteSetTheorems, TLAPS

CbPcs == {"idle", "event", "claim", "commit", "store", "notify", "ended"}

\* Where a worker is while its session runs, from the bootstrap wait on.
InSession == {"sepWait", "snapshot", "verify", "verdict", "lock"}
             \cup Waiting \cup Committing

\* The functions the two invariants are about.
Shape ==
  /\ pc \in [Requests -> Pcs] /\ outcome \in [Requests -> Outcomes]
  /\ back \in [Requests -> {"resume", "connect"}]
  /\ purpose \in [Requests -> AllPurposes]
  /\ owner \in [Requests -> 0 .. 3] /\ cb \in [Requests -> CbPcs]
  /\ completions \in [Requests -> Nat]
  /\ marked \in [Requests -> BOOLEAN] /\ alive \in [Requests -> BOOLEAN]
  /\ asked \in [Requests -> BOOLEAN] /\ answer \in [Requests -> Answers]

-----------------------------------------------------------------------------
(* Steps that are alike.                                                   *)

\* A step of the waits, the session or the decision: the worker stays in its
\* session, or goes to release its request.
Passes(r) ==
  /\ pc[r] \in InSession
  /\ \E p \in InSession \cup {"release"} : pc' = [pc EXCEPT ![r] = p]
  /\ outcome' = outcome \/ \E o \in Outcomes : outcome' = [outcome EXCEPT ![r] = o]
  /\ back' = back \/ \E b \in {"resume", "connect"} : back' = [back EXCEPT ![r] = b]
  /\ UNCHANGED <<wdfVars, trackVars, purpose, slot>>

InSessionStep(r) ==
  \/ SepWait(r) \/ Snapshot(r)
  \/ Display(r) \/ DisplayWait(r) \/ DisplayReset(r) \/ DisplayClear(r)
  \/ Resume(r) \/ ResumeClear(r)
  \/ Connect(r) \/ Verify(r) \/ Verdict(r) \/ Lock(r) \/ Check(r) \/ CheckDisplay(r)

LEMMA SessionPasses ==
  ASSUME Shape, NEW r \in Requests, InSessionStep(r) PROVE Passes(r)
<1> USE DEF Step, Settle, GiveUp, GiveUpDisplay, InSession, Waiting, Committing, Outcomes,
            AllVerdicts, Shape, Passes
<1>1. CASE SepWait(r)
  BY <1>1 DEF SepWait
<1>2. CASE Snapshot(r)
  BY <1>2 DEF Snapshot
<1>3. CASE Display(r)
  BY <1>3 DEF Display
<1>4. CASE DisplayWait(r)
  BY <1>4 DEF DisplayWait
<1>5. CASE DisplayReset(r)
  BY <1>5 DEF DisplayReset
<1>6. CASE DisplayClear(r)
  BY <1>6 DEF DisplayClear
<1>7. CASE Resume(r)
  BY <1>7 DEF Resume
<1>8. CASE ResumeClear(r)
  BY <1>8 DEF ResumeClear
<1>9. CASE Connect(r)
  BY <1>9 DEF Connect
<1>10. CASE Verify(r)
  BY <1>10, VerdictsAssumption DEF Verify
<1>11. CASE Verdict(r)
  BY <1>11 DEF Verdict
<1>12. CASE Lock(r)
  BY <1>12 DEF Lock
<1>13. CASE Check(r)
  BY <1>13 DEF Check, DropResult
<1>14. CASE CheckDisplay(r)
  BY <1>14 DEF CheckDisplay, DropResult
<1> QED
  BY <1>1, <1>2, <1>3, <1>4, <1>5, <1>6, <1>7, <1>8, <1>9, <1>10, <1>11, <1>12, <1>13,
     <1>14 DEF InSessionStep

\* The threads beside the workers touch no request, track, worker or slot.
LEMMA BesideUnchanged ==
  ASSUME (\E a \in Actors : Invalidate(a)) \/ Handlers \/ Surroundings
  PROVE  UNCHANGED <<wdfVars, trackVars, workerVars, slot>>
BY DEF Invalidate, InvalidateResume, InvalidateGeneration, InvalidateCancel,
       Handlers, ResumeEnds, DisplayOffAborts, DisplayOffEnds, Join,
       Surroundings, SuspendBegins, LockBegins, ShutdownBegins, ResumeBegins,
       DisplayOffBegins, D0Entry, GraceEnds, Veto, Reset, SepReports, Network,
       wdfVars, trackVars, workerVars

-----------------------------------------------------------------------------
(* Shape.                                                                  *)

\* A completion keeps the types of what it changes.
LEMMA CompleteShape ==
  ASSUME Shape, NEW r \in Requests, NEW a \in Answers, Complete(r, a)
  PROVE  /\ completions' \in [Requests -> Nat] /\ answer' \in [Requests -> Answers]
         /\ marked' \in [Requests -> BOOLEAN] /\ asked' = asked
<1>1. completions' \in [Requests -> Nat] /\ answer' \in [Requests -> Answers]
  BY DEF Shape, Complete
<1>2. marked' \in [Requests -> BOOLEAN] /\ asked' = asked
  BY Zenon DEF Shape, Complete
<1> QED
  BY <1>1, <1>2

LEMMA ShapeStep == Shape /\ [Next]_vars => Shape'
<1> SUFFICES ASSUME Shape, [Next]_vars PROVE Shape'
  OBVIOUS
<1> USE DEF Shape, Step, Settle, Pcs, Armed, InSlot, Waiting, Committing, Outcomes,
            AllVerdicts, CbPcs, CbStep, wdfVars, trackVars, workerVars
<1>1. ASSUME NEW r \in Requests, Dispatch(r) PROVE Shape'
  <2>1. UNCHANGED <<trackVars, purpose, back>>
    BY <1>1 DEF Dispatch, Arrive, Refuse
  <2>2. /\ completions' \in [Requests -> Nat] /\ answer' \in [Requests -> Answers]
        /\ marked' \in [Requests -> BOOLEAN] /\ asked' = asked
    <3>1. UNCHANGED wdfVars \/ Complete(r, "CancelledByDriver") \/ Complete(r, "Failed")
      BY <1>1 DEF Dispatch, Arrive, Refuse
    <3> QED
      BY <3>1, CompleteShape DEF Answers
  <2>3. pc' \in [Requests -> Pcs] /\ outcome' = outcome
    BY <1>1 DEF Dispatch, Arrive, Refuse
  <2> QED
    BY <2>1, <2>2, <2>3
<1>2. ASSUME NEW r \in Requests, Admit(r) PROVE Shape'
  BY <1>2 DEF Admit
<1>3. ASSUME NEW r \in Requests, Arm(r) PROVE Shape'
  <2>1. UNCHANGED <<asked, answer, completions, cb, purpose, back>>
    BY <1>3 DEF Arm
  <2>2. pc' \in [Requests -> Pcs] /\ outcome' \in [Requests -> Outcomes]
    BY <1>3 DEF Arm
  <2>3. owner' \in [Requests -> 0 .. 3]
    BY <1>3 DEF Arm
  <2>4. marked' \in [Requests -> BOOLEAN] /\ alive' \in [Requests -> BOOLEAN]
    BY <1>3, Zenon DEF Arm
  <2> QED
    BY <2>1, <2>2, <2>3, <2>4
<1>4. ASSUME NEW r \in Requests, WaitSlot(r) PROVE Shape'
  BY <1>4 DEF WaitSlot
<1>5. ASSUME NEW r \in Requests, ResetCancelEvent(r) PROVE Shape'
  BY <1>5 DEF ResetCancelEvent
<1>6. ASSUME NEW r \in Requests, Entry(r) PROVE Shape'
  BY <1>6 DEF Entry
<1>7. ASSUME NEW r \in Requests, InSessionStep(r) PROVE Shape'
  <2>1. Passes(r)
    BY <1>7, SessionPasses
  <2>2. UNCHANGED <<asked, marked, answer, completions, owner, alive, cb, purpose>>
    BY <2>1 DEF Passes
  <2>3. InSession \cup {"release"} \subseteq Pcs
    BY DEF InSession
  <2> HIDE DEF Pcs, Outcomes
  <2>4. pc' \in [Requests -> Pcs]
    BY <2>1, <2>3 DEF Passes
  <2>5. outcome' \in [Requests -> Outcomes]
    BY <2>1 DEF Passes
  <2>6. back' \in [Requests -> {"resume", "connect"}]
    BY <2>1 DEF Passes
  <2> QED
    BY <2>2, <2>4, <2>5, <2>6
<1>8. ASSUME NEW r \in Requests, Release(r) PROVE Shape'
  BY <1>8 DEF Release
<1>9. ASSUME NEW r \in Requests, Unmark(r) PROVE Shape'
  BY <1>9 DEF Unmark
<1>10. ASSUME NEW r \in Requests, WaitCancel(r) PROVE Shape'
  BY <1>10 DEF WaitCancel
<1>11. ASSUME NEW r \in Requests, Answer(r) PROVE Shape'
  <2>1. UNCHANGED <<trackVars, purpose, outcome, back>>
        /\ pc' \in [Requests -> Pcs] /\ Complete(r, AnswerOf(outcome[r]))
    BY <1>11 DEF Answer
  <2>2. AnswerOf(outcome[r]) \in Answers
    BY DEF AnswerOf, Answers
  <2> QED
    BY <2>1, <2>2, CompleteShape
<1>12. ASSUME NEW r \in Requests, Leave(r) PROVE Shape'
  BY <1>12 DEF Leave
<1>13. ASSUME NEW r \in Requests, CancelIoEx(r) PROVE Shape'
  BY <1>13 DEF CancelIoEx
<1>14. ASSUME NEW r \in Requests, Callback(r) PROVE Shape'
  <2>1. CASE CbSignals(r)
    BY <2>1 DEF CbSignals
  <2>2. CASE CbClaims(r)
    BY <2>2 DEF CbClaims
  <2>3. CASE CbCompletes(r)
    BY <2>3, CompleteShape DEF CbCompletes, Answers
  <2>4. CASE CbStores(r)
    BY <2>4 DEF CbStores
  <2>5. CASE CbNotifies(r)
    BY <2>5 DEF CbNotifies
  <2> QED
    BY <1>14, <2>1, <2>2, <2>3, <2>4, <2>5 DEF Callback
<1>15. CASE (\E a \in Actors : Invalidate(a)) \/ Handlers \/ Surroundings
  BY <1>15, BesideUnchanged
<1>16. CASE UNCHANGED vars
  BY <1>16 DEF vars
<1> QED
  BY <1>1, <1>2, <1>3, <1>4, <1>5, <1>6, <1>7, <1>8, <1>9, <1>10, <1>11, <1>12, <1>13,
     <1>14, <1>15, <1>16 DEF Next, Worker, InSessionStep

LEMMA ShapeInit == Init => Shape
<1> SUFFICES ASSUME Init PROVE Shape
  OBVIOUS
<1>1. pc \in [Requests -> Pcs] /\ outcome \in [Requests -> Outcomes]
  BY DEF Init, Pcs, Outcomes
<1>2. back \in [Requests -> {"resume", "connect"}] /\ purpose \in [Requests -> AllPurposes]
  BY PurposesAssumption DEF Init
<1>3. /\ owner \in [Requests -> 0 .. 3] /\ cb \in [Requests -> CbPcs]
      /\ completions \in [Requests -> Nat]
  BY DEF Init, CbPcs
<1>4. answer \in [Requests -> Answers]
  BY DEF Init, Answers
<1>5. marked \in [Requests -> BOOLEAN] /\ alive \in [Requests -> BOOLEAN]
      /\ asked \in [Requests -> BOOLEAN]
  BY Zenon DEF Init
<1> QED
  BY <1>1, <1>2, <1>3, <1>4, <1>5 DEF Shape

-----------------------------------------------------------------------------
(* The capture slot.                                                       *)

\* Besides OneSession: a worker that took the slot while it waited for its
\* predecessor keeps it through the release of its first track.
SlotInv ==
  /\ Shape
  /\ slot \in Requests \cup {NoSlot}
  /\ \A r \in Requests :
       /\ pc[r] \in InSlot => slot = r
       /\ pc[r] \in {"release", "unmark"} /\ outcome[r] = "Acquired" => slot = r
       /\ pc[r] \in {"none", "refuse", "admit", "armWait", "gone"} => slot # r

LEMMA SlotInit == Init => SlotInv
<1> SUFFICES ASSUME Init PROVE SlotInv
  OBVIOUS
<1>1. pc = [r \in Requests |-> "none"] /\ slot = "none"
  BY DEF Init, NoSlot
<1> QED
  BY <1>1, ShapeInit, RequestsAssumption DEF SlotInv, NoSlot, InSlot, Waiting, Committing

LEMMA SlotStep == SlotInv /\ [Next]_vars => SlotInv'
<1> SUFFICES ASSUME SlotInv, [Next]_vars PROVE SlotInv'
  OBVIOUS
<1>0. Shape /\ Shape'
  BY ShapeStep DEF SlotInv
<1> USE DEF SlotInv, Shape, Step, Settle, InSlot, Waiting, Committing, NoSlot,
            wdfVars, trackVars, workerVars
<1>1. ASSUME NEW r \in Requests, Dispatch(r) PROVE SlotInv'
  <2>1. /\ pc[r] \in {"none", "refuse"} /\ UNCHANGED <<slot, outcome>>
        /\ \E p \in {"refuse", "admit", "gone"} : pc' = [pc EXCEPT ![r] = p]
    BY <1>1 DEF Dispatch, Arrive, Refuse
  <2> QED
    BY <1>0, <2>1
<1>2. ASSUME NEW r \in Requests, Admit(r) PROVE SlotInv'
  BY <1>0, <1>2, RequestsAssumption DEF Admit
<1>3. ASSUME NEW r \in Requests, Arm(r) PROVE SlotInv'
  BY <1>0, <1>3 DEF Arm
<1>4. ASSUME NEW r \in Requests, WaitSlot(r) PROVE SlotInv'
  BY <1>0, <1>4, RequestsAssumption DEF WaitSlot
<1>5. ASSUME NEW r \in Requests, ResetCancelEvent(r) PROVE SlotInv'
  BY <1>0, <1>5 DEF ResetCancelEvent
<1>6. ASSUME NEW r \in Requests, Entry(r) PROVE SlotInv'
  BY <1>0, <1>6 DEF Entry
<1>7. ASSUME NEW r \in Requests, InSessionStep(r) PROVE SlotInv'
  BY <1>0, <1>7, SessionPasses DEF Passes, InSession
<1>8. ASSUME NEW r \in Requests, Release(r) PROVE SlotInv'
  BY <1>0, <1>8 DEF Release
<1>9. ASSUME NEW r \in Requests, Unmark(r) PROVE SlotInv'
  BY <1>0, <1>9 DEF Unmark
<1>10. ASSUME NEW r \in Requests, WaitCancel(r) PROVE SlotInv'
  BY <1>0, <1>10 DEF WaitCancel
<1>11. ASSUME NEW r \in Requests, Answer(r) PROVE SlotInv'
  BY <1>0, <1>11 DEF Answer
<1>12. ASSUME NEW r \in Requests, Leave(r) PROVE SlotInv'
  BY <1>0, <1>12, RequestsAssumption DEF Leave
<1>13. ASSUME NEW r \in Requests, CancelIoEx(r) PROVE SlotInv'
  BY <1>0, <1>13 DEF CancelIoEx
<1>14. ASSUME NEW r \in Requests, Callback(r) PROVE SlotInv'
  BY <1>0, <1>14 DEF Callback, CbSignals, CbClaims, CbCompletes, CbStores, CbNotifies
<1>15. CASE (\E a \in Actors : Invalidate(a)) \/ Handlers \/ Surroundings
  BY <1>15, BesideUnchanged
<1>16. CASE UNCHANGED vars
  BY <1>16 DEF vars
<1> QED
  BY <1>1, <1>2, <1>3, <1>4, <1>5, <1>6, <1>7, <1>8, <1>9, <1>10, <1>11, <1>12, <1>13,
     <1>14, <1>15, <1>16 DEF Next, Worker, InSessionStep

\* At most one worker is past admission, and it owns the slot (CaptureBusyGuard);
\* a slot that is taken has a worker that will give it back.
THEOREM OneSessionAlways == Spec => []OneSession
<1>1. Init => SlotInv
  BY SlotInit
<1>2. SlotInv => OneSession
  BY RequestsAssumption DEF SlotInv, OneSession, NoSlot
<1> QED
  BY <1>1, <1>2, SlotStep, PTL DEF Spec

-----------------------------------------------------------------------------
(* The completion of a request.                                            *)

\* How far the cancel callback is, against the track of an armed request.
Tracked(r) ==
  /\ cb[r] = "idle" => marked[r]
  /\ cb[r] \in {"idle", "event", "claim"} => owner[r] \in {0, 2} /\ completions[r] = 0
  /\ cb[r] = "commit" => owner[r] = 1 /\ completions[r] = 0
  /\ cb[r] = "store" => owner[r] = 1 /\ completions[r] = 1
  /\ cb[r] \in {"notify", "ended"} => owner[r] = 3 /\ completions[r] = 1

TrackInv ==
  /\ Shape
  /\ \A r \in Requests :
       /\ cb[r] # "idle" => asked[r]
       /\ pc[r] \in Pcs \ (Armed \cup {"leave", "gone"}) =>
            ~marked[r] /\ ~alive[r] /\ cb[r] = "idle" /\ completions[r] = 0
       /\ pc[r] \in Armed => alive[r] /\ Tracked(r)
       /\ pc[r] \in {"leave", "gone"} =>
            cb[r] \in {"idle", "notify", "ended"} /\ completions[r] = 1

LEMMA TrackStep == TrackInv /\ [Next]_vars => TrackInv'
<1> SUFFICES ASSUME TrackInv, [Next]_vars PROVE TrackInv'
  OBVIOUS
<1>0. Shape /\ Shape'
  BY ShapeStep DEF TrackInv
<1> USE DEF TrackInv, Tracked, Shape, Step, Settle, Pcs, Armed, Waiting, Committing,
            wdfVars, trackVars, workerVars
<1>1. ASSUME NEW r \in Requests, Dispatch(r) PROVE TrackInv'
  BY <1>0, <1>1 DEF Dispatch, Arrive, Refuse, Complete
<1>2. ASSUME NEW r \in Requests, Admit(r) PROVE TrackInv'
  BY <1>0, <1>2 DEF Admit
<1>3. ASSUME NEW r \in Requests, Arm(r) PROVE TrackInv'
  BY <1>0, <1>3 DEF Arm
<1>4. ASSUME NEW r \in Requests, WaitSlot(r) PROVE TrackInv'
  BY <1>0, <1>4 DEF WaitSlot
<1>5. ASSUME NEW r \in Requests, ResetCancelEvent(r) PROVE TrackInv'
  BY <1>0, <1>5 DEF ResetCancelEvent
<1>6. ASSUME NEW r \in Requests, Entry(r) PROVE TrackInv'
  BY <1>0, <1>6 DEF Entry
<1>7. ASSUME NEW r \in Requests, InSessionStep(r) PROVE TrackInv'
  BY <1>0, <1>7, SessionPasses DEF Passes, InSession
<1>8. ASSUME NEW r \in Requests, Release(r) PROVE TrackInv'
  BY <1>0, <1>8 DEF Release
<1>9. ASSUME NEW r \in Requests, Unmark(r) PROVE TrackInv'
  BY <1>0, <1>9 DEF Unmark
<1>10. ASSUME NEW r \in Requests, WaitCancel(r) PROVE TrackInv'
  BY <1>0, <1>10 DEF WaitCancel, CbPcs
<1>11. ASSUME NEW r \in Requests, Answer(r) PROVE TrackInv'
  BY <1>0, <1>11 DEF Answer, Complete
<1>12. ASSUME NEW r \in Requests, Leave(r) PROVE TrackInv'
  BY <1>0, <1>12 DEF Leave
<1>13. ASSUME NEW r \in Requests, CancelIoEx(r) PROVE TrackInv'
  <2>1. UNCHANGED <<pc, marked, alive, owner, completions>> /\ completions[r] = 0
    BY <1>13 DEF CancelIoEx, Pending
  <2>2. CASE marked[r]
    <3>1. cb' = [cb EXCEPT ![r] = "event"] /\ asked' = [asked EXCEPT ![r] = TRUE]
      BY <1>13, <2>2, Zenon DEF CancelIoEx
    <3>2. UNCHANGED <<outcome, back, purpose>>
      BY <1>13 DEF CancelIoEx
    <3>3. pc[r] \in Armed
      BY <2>1, <2>2
    <3>4. cb[r] = "idle"
      BY <1>13 DEF CancelIoEx
    <3>5. owner[r] \in {0, 2}
      BY <3>3, <3>4
    <3> QED
      BY <1>0, <2>1, <3>1, <3>2, <3>3, <3>5
  <2>3. CASE ~marked[r]
    <3>1. cb' = cb
      BY <1>13, <2>3 DEF CancelIoEx
    <3>2. asked' = [asked EXCEPT ![r] = TRUE]
      BY <1>13 DEF CancelIoEx
    <3>3. \A q \in Requests : cb'[q] # "idle" => asked'[q]
      BY <3>1, <3>2
    <3> QED
      BY <1>0, <2>1, <3>1, <3>3
  <2> QED
    BY <2>2, <2>3
<1>14. ASSUME NEW r \in Requests, Callback(r) PROVE TrackInv'
  <2>1. CASE CbSignals(r)
    BY <1>0, <2>1 DEF CbSignals, CbStep
  <2>2. CASE CbClaims(r)
    BY <1>0, <2>2 DEF CbClaims, CbStep
  <2>3. CASE CbCompletes(r)
    BY <1>0, <2>3 DEF CbCompletes, CbStep, Complete
  <2>4. CASE CbStores(r)
    BY <1>0, <2>4 DEF CbStores, CbStep
  <2>5. CASE CbNotifies(r)
    BY <1>0, <2>5 DEF CbNotifies, CbStep
  <2> QED
    BY <1>14, <2>1, <2>2, <2>3, <2>4, <2>5 DEF Callback
<1>15. CASE (\E a \in Actors : Invalidate(a)) \/ Handlers \/ Surroundings
  BY <1>15, BesideUnchanged
<1>16. CASE UNCHANGED vars
  BY <1>16 DEF vars
<1> QED
  BY <1>1, <1>2, <1>3, <1>4, <1>5, <1>6, <1>7, <1>8, <1>9, <1>10, <1>11, <1>12, <1>13,
     <1>14, <1>15, <1>16 DEF Next, Worker, InSessionStep

\* A request is completed once: the worker and the cancel callback never both do
\* it, and no worker ends before one of them has (the CancelTrack protocol).
THEOREM CompletedOnceAlways == Spec => []CompletedOnce
<1>1. Init => TrackInv
  <2> SUFFICES ASSUME Init PROVE TrackInv
    OBVIOUS
  <2>1. /\ pc = [r \in Requests |-> "none"] /\ marked = [r \in Requests |-> FALSE]
        /\ alive = [r \in Requests |-> FALSE] /\ cb = [r \in Requests |-> "idle"]
        /\ completions = [r \in Requests |-> 0]
    BY DEF Init
  <2> QED
    BY <2>1, ShapeInit DEF TrackInv, Pcs, Armed, Waiting, Committing
<1>2. TrackInv => CompletedOnce
  <2> SUFFICES ASSUME TrackInv, NEW r \in Requests
               PROVE  /\ completions[r] <= 1
                      /\ pc[r] \in {"leave", "gone"} => completions[r] = 1
    BY DEF CompletedOnce
  <2>1. pc[r] \in Pcs /\ cb[r] \in CbPcs
    BY DEF TrackInv, Shape
  <2> QED
    BY <2>1 DEF TrackInv, Tracked, CbPcs
<1> QED
  BY <1>1, <1>2, TrackStep, PTL DEF Spec

-----------------------------------------------------------------------------
(* The age of a Match.                                                     *)

\* A worker that is committing a Match.
Commits(r) ==
  /\ outcome[r] = "Match"
  /\ pc[r] \in {"check", "checkDisplay", "release", "unmark", "waitCancel", "answer"}

\* g_captureRequestCommitMu excludes whoever is in one of its sections.
MutexInv ==
  /\ \A r \in Requests : Commits(r) => mu = "worker"
  /\ \A r, q \in Requests : Commits(r) /\ Commits(q) => r = q
  /\ \A r \in Requests : cb[r] \in {"store", "notify"} => mu = "callback"
  /\ \A r, q \in Requests : cb[r] \in {"store", "notify"} /\ cb[q] \in {"store", "notify"} => r = q
  /\ \A a \in Actors : TakesCommitMu(job[a]) /\ at[a] \in {"generation", "cancel"} => mu = a

ActorShape ==
  /\ job \in [Actors -> Jobs]
  /\ at \in [Actors -> {"idle", "resume", "generation", "cancel", "abort", "join", "unloaded"}]

\* A touch that a boundary has overtaken is betrayed by the generation, until
\* the check under the mutex, and has been dropped after it.
AgeInv ==
  /\ generation \in Nat /\ handled \in [Requests -> Nat]
  /\ \A r \in Requests :
       /\ handled[r] <= generation
       /\ outcome[r] = "Match" /\ pc[r] \in {"verdict", "lock", "check"} /\ r \in staleTouch
            => handled[r] < generation
       /\ outcome[r] = "Match" /\ pc[r] \in {"checkDisplay", "release", "unmark", "answer"}
            => r \notin staleTouch

FreshInv == Shape /\ ActorShape /\ MutexInv /\ AgeInv

\* What a worker's step leaves alone: the other workers, the callbacks and the
\* threads beside them.
OnlyWorker(r) ==
  /\ UNCHANGED <<cb, job, at, generation>>
  /\ \A q \in Requests \ {r} : /\ pc'[q] = pc[q] /\ outcome'[q] = outcome[q]
                               /\ handled'[q] = handled[q]
                               /\ q \in staleTouch' => q \in staleTouch

\* What it does to the mutex: nothing, without starting to commit; the taking of
\* it; or the release of it at the end of a commit.
MutexMoves(r) ==
  \/ mu' = mu /\ (Commits(r)' => Commits(r))
  \/ mu = "free" /\ mu' = "worker"
  \/ Commits(r) /\ ~Commits(r)' /\ mu' = "free"

\* AgeInv, of one worker.
Young(r) ==
  /\ handled[r] \in Nat /\ handled[r] <= generation
  /\ outcome[r] = "Match" /\ pc[r] \in {"verdict", "lock", "check"} /\ r \in staleTouch
       => handled[r] < generation
  /\ outcome[r] = "Match" /\ pc[r] \in {"checkDisplay", "release", "unmark", "answer"}
       => r \notin staleTouch

Moves(r) == /\ OnlyWorker(r) /\ MutexMoves(r) /\ Young(r)'
            /\ handled' \in [Requests -> Nat]

\* One step per action of a worker.
LEMMA WorkerMoves ==
  ASSUME FreshInv, NEW r \in Requests, Dispatch(r) \/ Worker(r) PROVE Moves(r)
<1>1. /\ Shape /\ handled \in [Requests -> Nat] /\ generation \in Nat
      /\ Young(r) /\ (Commits(r) => mu = "worker")
  BY DEF FreshInv, AgeInv, Young, MutexInv
<1> USE <1>1
<1> USE DEF Moves, OnlyWorker, MutexMoves, Young, Commits, Shape, Step, Settle, GiveUp,
            GiveUpDisplay, actorVars, staleVars, trackVars
<1>2. CASE Dispatch(r)
  BY <1>2 DEF Dispatch, Arrive, Refuse
<1>3. CASE Admit(r)
  BY <1>3 DEF Admit
<1>4. CASE Arm(r)
  BY <1>4 DEF Arm
<1>5. CASE WaitSlot(r)
  BY <1>5 DEF WaitSlot
<1>6. CASE ResetCancelEvent(r)
  BY <1>6 DEF ResetCancelEvent
<1>7. CASE Entry(r)
  BY <1>7 DEF Entry
<1>8. CASE SepWait(r)
  BY <1>8 DEF SepWait
<1>9. CASE Snapshot(r)
  BY <1>9 DEF Snapshot
<1>10. CASE Display(r)
  BY <1>10 DEF Display
<1>11. CASE DisplayWait(r) \/ DisplayReset(r) \/ DisplayClear(r)
  BY <1>11 DEF DisplayWait, DisplayReset, DisplayClear
<1>12. CASE Resume(r)
  BY <1>12 DEF Resume
<1>13. CASE ResumeClear(r)
  BY <1>13 DEF ResumeClear
<1>14. CASE Connect(r)
  BY <1>14 DEF Connect
<1>15. CASE Verify(r)
  BY <1>15 DEF Verify
<1>16. CASE Verdict(r)
  BY <1>16 DEF Verdict
<1>17. CASE Lock(r)
  BY <1>17 DEF Lock
<1>18. CASE Check(r)
  BY <1>18 DEF Check, DropResult
<1>19. CASE CheckDisplay(r)
  BY <1>19 DEF CheckDisplay, DropResult
<1>20. CASE Release(r)
  BY <1>20 DEF Release
<1>21. CASE Unmark(r)
  BY <1>21 DEF Unmark
<1>22. CASE WaitCancel(r)
  BY <1>22 DEF WaitCancel
<1>23. CASE Answer(r)
  BY <1>23 DEF Answer
<1>24. CASE Leave(r)
  BY <1>24 DEF Leave
<1> QED
  BY <1>2, <1>3, <1>4, <1>5, <1>6, <1>7, <1>8, <1>9, <1>10, <1>11, <1>12, <1>13, <1>14,
     <1>15, <1>16, <1>17, <1>18, <1>19, <1>20, <1>21, <1>22, <1>23, <1>24 DEF Worker

\* Workers, callbacks, the invalidation and what else runs beside them.
LEMMA FreshStep == FreshInv /\ [Next]_vars => FreshInv'
<1> SUFFICES ASSUME FreshInv, [Next]_vars PROVE FreshInv'
  OBVIOUS
<1>0. Shape'
  BY ShapeStep DEF FreshInv
<1>1. ASSUME NEW r \in Requests, Dispatch(r) \/ Worker(r) PROVE FreshInv'
  <2>1. Moves(r)
    BY <1>1, WorkerMoves
  <2>2. ActorShape'
    BY <2>1 DEF FreshInv, ActorShape, Moves, OnlyWorker
  <2>3. MutexInv'
    <3>1. \A q \in Requests \ {r} : Commits(q)' = Commits(q)
      BY <2>1 DEF Moves, OnlyWorker, Commits
    <3>2. MutexMoves(r) /\ UNCHANGED <<cb, job, at>>
      BY <2>1 DEF Moves, OnlyWorker
    <3> HIDE DEF Commits
    <3>3. CASE mu' = mu /\ (Commits(r)' => Commits(r))
      BY <3>1, <3>2, <3>3 DEF FreshInv, MutexInv
    <3>4. CASE mu = "free" /\ mu' = "worker"
      BY <3>1, <3>2, <3>4 DEF FreshInv, MutexInv, Actors
    <3>5. CASE Commits(r) /\ ~Commits(r)' /\ mu' = "free"
      BY <3>1, <3>2, <3>5 DEF FreshInv, MutexInv, Actors
    <3> QED
      BY <3>2, <3>3, <3>4, <3>5 DEF MutexMoves
  <2>4. AgeInv'
    <3>1. generation' \in Nat /\ handled' \in [Requests -> Nat] /\ Young(r)'
      BY <2>1 DEF FreshInv, AgeInv, Moves, OnlyWorker
    <3>2. ASSUME NEW q \in Requests, q # r PROVE Young(q)'
      <4>1. Young(q)
        BY DEF FreshInv, AgeInv, Young
      <4> QED
        BY <2>1, <3>2, <4>1 DEF Moves, OnlyWorker, Young
    <3> QED
      BY <3>1, <3>2 DEF AgeInv, Young
  <2> QED
    BY <1>0, <2>2, <2>3, <2>4 DEF FreshInv
<1>2. ASSUME NEW r \in Requests, CancelIoEx(r) \/ Callback(r) PROVE FreshInv'
  <2>1. UNCHANGED <<pc, outcome, handled, generation, staleTouch, job, at>>
    BY <1>2 DEF CancelIoEx, Callback, CbSignals, CbClaims, CbCompletes, CbStores, CbNotifies,
                workerVars, actorVars, staleVars
  <2>2. /\ \A q \in Requests \ {r} : cb'[q] = cb[q]
        /\ \/ mu' = mu /\ (cb'[r] \in {"store", "notify"} => cb[r] \in {"store", "notify"})
           \/ mu = "free" /\ mu' = "callback"
           \/ cb[r] = "notify" /\ cb'[r] = "ended" /\ mu' = "free"
    <3> USE DEF FreshInv, Shape, CbStep
    <3>1. CASE CancelIoEx(r)
      <4>1. CASE marked[r]
        <5>1. cb' = [cb EXCEPT ![r] = "event"] /\ mu' = mu
          BY <3>1, <4>1, Zenon DEF CancelIoEx
        <5> QED
          BY <5>1
      <4>2. CASE ~marked[r]
        BY <3>1, <4>2 DEF CancelIoEx
      <4> QED
        BY <4>1, <4>2
    <3>2. CASE CbSignals(r)
      BY <3>2 DEF CbSignals
    <3>3. CASE CbClaims(r)
      BY <3>3 DEF CbClaims
    <3>4. CASE CbCompletes(r)
      BY <3>4 DEF CbCompletes
    <3>5. CASE CbStores(r)
      BY <3>5 DEF CbStores
    <3>6. CASE CbNotifies(r)
      BY <3>6 DEF CbNotifies
    <3> QED
      BY <1>2, <3>1, <3>2, <3>3, <3>4, <3>5, <3>6 DEF Callback
  <2>3. MutexInv'
    BY <2>1, <2>2 DEF FreshInv, MutexInv, Commits, Actors
  <2> QED
    BY <1>0, <2>1, <2>3 DEF FreshInv, ActorShape, AgeInv
<1>3. ASSUME (\E a \in Actors : Invalidate(a)) \/ Handlers \/ Surroundings PROVE FreshInv'
  <2>1. UNCHANGED <<pc, outcome, handled, cb>>
    BY <1>3, BesideUnchanged DEF workerVars, trackVars
  <2>2. ASSUME NEW a \in Actors, InvalidateResume(a) PROVE FreshInv'
    BY <1>0, <2>1, <2>2
    DEF FreshInv, ActorShape, MutexInv, AgeInv, Commits, InvalidateResume, NextStep, Actors,
        TakesCommitMu, staleVars
  <2>3. ASSUME NEW a \in Actors, InvalidateGeneration(a) PROVE FreshInv'
    <3>1. ActorShape' /\ MutexInv'
      BY <2>1, <2>3 DEF FreshInv, ActorShape, MutexInv, Commits, InvalidateGeneration, NextStep
    <3>2. generation' = generation + 1 /\ (staleTouch' = staleTouch \/ TakesCommitMu(job[a]))
      BY <2>3 DEF InvalidateGeneration
    <3>3. TakesCommitMu(job[a]) => \A r \in Requests : ~Commits(r)
      BY <2>3 DEF FreshInv, MutexInv, InvalidateGeneration, Actors
    <3>4. AgeInv'
      BY <2>1, <3>2, <3>3 DEF FreshInv, AgeInv, Commits
    <3> QED
      BY <1>0, <3>1, <3>4 DEF FreshInv
  <2>4. ASSUME NEW a \in Actors, InvalidateCancel(a) PROVE FreshInv'
    BY <1>0, <2>1, <2>4
    DEF FreshInv, ActorShape, MutexInv, AgeInv, Commits, InvalidateCancel, NextStep, EndJob,
        Actors, TakesCommitMu, Jobs, staleVars
  <2>5. CASE Handlers
    <3>1. mu' = mu /\ staleTouch' = staleTouch /\ generation' \in {generation, generation + 1}
      BY <2>5 DEF Handlers, ResumeEnds, DisplayOffAborts, DisplayOffEnds, Join, staleVars
    <3>2. AgeInv'
      BY <2>1, <3>1 DEF FreshInv, AgeInv
    <3>3. ActorShape' /\ MutexInv'
      BY <2>1, <2>5, <3>1 DEF FreshInv, ActorShape, MutexInv, Commits, Handlers, ResumeEnds,
         DisplayOffAborts, DisplayOffEnds, Join, NextStep, EndJob, Actors, TakesCommitMu, Jobs
    <3> QED
      BY <1>0, <3>2, <3>3 DEF FreshInv
  <2>6. CASE Surroundings
    <3>1. mu' = mu /\ staleTouch' = staleTouch /\ generation' = generation
      BY <2>6 DEF Surroundings, SuspendBegins, LockBegins, ShutdownBegins, ResumeBegins,
         DisplayOffBegins, D0Entry, GraceEnds, Veto, Reset, SepReports, Network, staleVars
    <3>2. AgeInv'
      BY <2>1, <3>1 DEF FreshInv, AgeInv
    <3>3. ActorShape' /\ MutexInv'
      <4>1. \/ UNCHANGED <<job, at>>
            \/ \E a \in Actors, j \in Jobs, step \in {"resume", "abort"} : Begin(a, j, step)
        BY <2>6 DEF Surroundings, SuspendBegins, LockBegins, ShutdownBegins, ResumeBegins,
           DisplayOffBegins, D0Entry, GraceEnds, Veto, Reset, SepReports, Network, actorVars, Actors,
           Jobs, Invalidating
      <4> QED
        BY <2>1, <3>1, <4>1 DEF FreshInv, ActorShape, MutexInv, Commits, Begin
    <3> QED
      BY <1>0, <3>2, <3>3 DEF FreshInv
  <2> QED
    BY <1>3, <2>2, <2>3, <2>4, <2>5, <2>6 DEF Invalidate
<1>4. CASE UNCHANGED vars
  BY <1>0, <1>4 DEF FreshInv, ActorShape, MutexInv, AgeInv, Commits, vars, workerVars,
     trackVars, actorVars, staleVars
<1> QED
  BY <1>1, <1>2, <1>3, <1>4 DEF Next

LEMMA ActorShapeInit == Init => ActorShape
BY DEF Init, ActorShape, Jobs

LEMMA FreshInit == Init => FreshInv
<1> SUFFICES ASSUME Init PROVE FreshInv
  OBVIOUS
<1>1. MutexInv
  BY DEF Init, MutexInv, Commits, TakesCommitMu
<1>2. AgeInv
  <2>1. handled = [r \in Requests |-> 0] /\ generation = 0 /\ staleTouch = {}
    BY DEF Init
  <2> QED
    BY <2>1 DEF AgeInv
<1> QED
  BY ShapeInit, ActorShapeInit, <1>1, <1>2 DEF FreshInv

\* No Match is delivered whose touch is older than a suspend or a lock that has
\* changed the generation (what g_captureRequestCommitMu is for).
THEOREM NoStaleMatchEver == Spec => NoStaleMatch
<1>2. ASSUME FreshInv, NEW q \in Requests, Answer(q), NEW r \in Requests,
             answer[r] = "none", answer'[r] = "Match"
      PROVE  r \notin staleTouch
  <2>1. answer' = [answer EXCEPT ![q] = AnswerOf(outcome[q])] /\ pc[q] = "answer"
    BY <1>2 DEF Answer, Complete, Step
  <2>2. r = q /\ AnswerOf(outcome[r]) = "Match"
    BY <1>2, <2>1 DEF FreshInv, Shape
  <2>3. outcome[r] = "Match"
    BY <2>2 DEF AnswerOf
  <2> QED
    BY <1>2, <2>1, <2>2, <2>3 DEF FreshInv, AgeInv
\* Who else completes a request completes it as cancelled or as failed.
<1>3. ASSUME FreshInv, [Next]_vars, NEW r \in Requests, answer[r] = "none", answer'[r] = "Match"
      PROVE  \E q \in Requests : Answer(q)
  <2>1. ASSUME NEW q \in Requests, Complete(q, "CancelledByDriver") \/ Complete(q, "CancelledByCallback")
                                \/ Complete(q, "Failed")
        PROVE  FALSE
    BY <1>3, <2>1 DEF FreshInv, Shape, Complete
  <2>2. CASE \E q \in Requests : Dispatch(q)
    <3>1. PICK q \in Requests : Dispatch(q)
      BY <2>2
    <3>2. UNCHANGED answer \/ Complete(q, "CancelledByDriver") \/ Complete(q, "Failed")
      BY <3>1 DEF Dispatch, Arrive, Refuse, wdfVars
    <3> QED
      BY <1>3, <2>1, <3>2
  <2>3. CASE \E q \in Requests : CancelIoEx(q) \/ Callback(q)
    <3>1. PICK q \in Requests : CancelIoEx(q) \/ Callback(q)
      BY <2>3
    <3>2. UNCHANGED answer \/ Complete(q, "CancelledByCallback")
      BY <3>1 DEF CancelIoEx, Callback, CbSignals, CbClaims, CbCompletes, CbStores, CbNotifies,
                  wdfVars
    <3> QED
      BY <1>3, <2>1, <3>2
  <2>4. ASSUME NEW q \in Requests, Worker(q), ~Answer(q) PROVE UNCHANGED answer
    <3>1. CASE InSessionStep(q)
      BY <1>3, <3>1, SessionPasses DEF FreshInv, Passes, wdfVars
    <3>2. CASE ~InSessionStep(q)
      BY <2>4, <3>2 DEF Worker, InSessionStep, Admit, Arm, WaitSlot, ResetCancelEvent, Entry,
         Release, Unmark, WaitCancel, Leave, wdfVars
    <3> QED
      BY <3>1, <3>2
  <2>5. CASE (\E a \in Actors : Invalidate(a)) \/ Handlers \/ Surroundings
    BY <1>3, <2>5, BesideUnchanged DEF wdfVars
  <2>6. CASE UNCHANGED vars
    BY <1>3, <2>6 DEF vars, wdfVars
  <2> QED
    BY <1>3, <2>2, <2>3, <2>4, <2>5, <2>6 DEF Next
<1>4. ASSUME FreshInv, [Next]_vars
      PROVE  \A r \in Requests : answer[r] = "none" /\ answer'[r] = "Match" => r \notin staleTouch
  <2> TAKE r \in Requests
  <2> HAVE answer[r] = "none" /\ answer'[r] = "Match"
  <2>1. PICK q \in Requests : Answer(q)
    BY <1>3, <1>4
  <2> QED
    BY <1>2, <1>4, <2>1
<1> QED
  BY <1>4, FreshInit, FreshStep, PTL DEF Spec, NoStaleMatch

-----------------------------------------------------------------------------
(* The drain of the workers. *)

\* Once EvtDriverUnload has joined the workers there is none, and admission is closed.
DrainInv ==
  /\ Shape /\ ActorShape
  /\ job["pnp"] = "unload" => draining
  /\ at["pnp"] \in {"join", "unloaded"} => job["pnp"] = "unload"
  /\ at["pnp"] = "unloaded" => \A r \in Requests : NoWorker(r)

LEMMA ActorShapeStep ==
  ASSUME ActorShape, [Next]_vars
  PROVE  ActorShape'
<1> USE DEF ActorShape, Actors, Jobs, Invalidating
<1>1. ASSUME NEW r \in Requests, Dispatch(r) \/ Worker(r) \/ CancelIoEx(r) \/ Callback(r)
      PROVE  UNCHANGED <<job, at>>
  <2>1. Dispatch(r) \/ CancelIoEx(r) \/ Callback(r) => UNCHANGED <<job, at>>
    BY DEF Dispatch, Arrive, Refuse, CancelIoEx, Callback, CbSignals, CbClaims, CbCompletes, CbStores, CbNotifies,
           actorVars
  <2>2. Worker(r) => UNCHANGED <<job, at>>
    BY DEF Worker, Admit, Arm, WaitSlot, ResetCancelEvent, Entry, SepWait, Snapshot, Display,
           DisplayWait, DisplayReset, DisplayClear, Resume, ResumeClear, Connect, Verify, Verdict,
           Lock, Check, CheckDisplay, Release, Unmark, WaitCancel, Answer, Leave, actorVars
  <2> QED
    BY <1>1, <2>1, <2>2
<1>2. ASSUME NEW a \in Actors, Invalidate(a) PROVE ActorShape'
  BY <1>2 DEF Invalidate, InvalidateResume, InvalidateGeneration, InvalidateCancel, NextStep, EndJob
<1>3. CASE Handlers
  BY <1>3 DEF Handlers, ResumeEnds, DisplayOffAborts, DisplayOffEnds, Join, NextStep, EndJob
<1>4. CASE Surroundings
  BY <1>4 DEF Surroundings, SuspendBegins, LockBegins, ShutdownBegins, ResumeBegins,
              DisplayOffBegins, D0Entry, GraceEnds, Veto, Reset, SepReports, Network, Begin, actorVars
<1>5. CASE UNCHANGED vars
  BY <1>5 DEF vars, actorVars
<1> QED
  BY <1>1, <1>2, <1>3, <1>4, <1>5 DEF Next

\* A worker that is not there, or has ended, takes no step.
LEMMA EndedRests ==
  ASSUME Shape, NEW r \in Requests, Worker(r)
  PROVE  ~NoWorker(r)
BY DEF Worker, Admit, Arm, WaitSlot, ResetCancelEvent, Entry, SepWait, Snapshot, Display,
       DisplayWait, DisplayReset, DisplayClear, Resume, ResumeClear, Connect, Verify, Verdict,
       Lock, Check, CheckDisplay, Release, Unmark, WaitCancel, Answer, Leave, Step, Settle,
       GiveUp, GiveUpDisplay, NoWorker

LEMMA DrainStep ==
  ASSUME DrainInv, [Next]_vars
  PROVE  DrainInv'
<1> USE DEF NoWorker
<1>0. Shape' /\ ActorShape'
  BY ShapeStep, ActorShapeStep DEF DrainInv
<1>1. ASSUME NEW r \in Requests, Worker(r) PROVE DrainInv'
  <2>1. UNCHANGED <<job, at, draining>>
    BY <1>1 DEF Worker, Admit, Arm, WaitSlot, ResetCancelEvent, Entry, SepWait, Snapshot, Display,
           DisplayWait, DisplayReset, DisplayClear, Resume, ResumeClear, Connect, Verify, Verdict,
           Lock, Check, CheckDisplay, Release, Unmark, WaitCancel, Answer, Leave, actorVars,
           gateVars
  <2>2. at["pnp"] # "unloaded"
    BY <1>1, EndedRests DEF DrainInv
  <2> QED
    BY <1>0, <2>1, <2>2 DEF DrainInv
<1>2. ASSUME NEW r \in Requests, Dispatch(r) PROVE DrainInv'
  <2>1. /\ UNCHANGED <<job, at, draining>>
        /\ draining => \E p \in {"refuse", "gone"} : pc' = [pc EXCEPT ![r] = p]
    BY <1>2 DEF Dispatch, Arrive, Refuse, Step, actorVars, gateVars
  <2>2. at["pnp"] = "unloaded" => \A q \in Requests : NoWorker(q)'
    BY <2>1 DEF DrainInv, Shape, NoWorker
  <2> QED
    BY <1>0, <2>1, <2>2 DEF DrainInv
<1>3. ASSUME NEW r \in Requests, CancelIoEx(r) \/ Callback(r) PROVE DrainInv'
  <2>1. UNCHANGED <<job, at, draining, pc>>
    BY <1>3 DEF CancelIoEx, Callback, CbSignals, CbClaims, CbCompletes, CbStores, CbNotifies,
           actorVars, workerVars, gateVars
  <2> QED
    BY <1>0, <2>1 DEF DrainInv
<1>4. CASE (\E a \in Actors : Invalidate(a)) \/ Handlers \/ Surroundings
  <2>0. pc' = pc
    BY <1>4, BesideUnchanged DEF workerVars
  <2> USE DEF DrainInv, ActorShape, Actors
  <2>1. ASSUME NEW a \in Actors, Invalidate(a) PROVE DrainInv'
    BY <1>0, <2>0, <2>1 DEF Invalidate, InvalidateResume, InvalidateGeneration,
       InvalidateCancel, NextStep, EndJob, gateVars, Invalidating
  <2>2. CASE Handlers
    <3>1. ResumeEnds \/ DisplayOffAborts \/ DisplayOffEnds
            => draining' = draining /\ job'["pnp"] = job["pnp"] /\ at'["pnp"] = at["pnp"]
      BY DEF ResumeEnds, DisplayOffAborts, DisplayOffEnds, NextStep, EndJob, gateVars
    <3>2. CASE Join
      BY <1>0, <2>0, <3>2 DEF Join, NextStep, gateVars
    <3> QED
      BY <1>0, <2>0, <2>2, <3>1, <3>2 DEF Handlers
  <2>3. CASE Surroundings
    <3>1. ASSUME NEW j \in Jobs, NEW step \in {"resume", "abort"}, Begin("pnp", j, step),
                 j = "unload" => draining', draining => draining'
          PROVE  DrainInv'
      BY <1>0, <2>0, <3>1 DEF Begin
    <3>2. ASSUME job'["pnp"] = job["pnp"], at'["pnp"] = at["pnp"], draining => draining'
          PROVE  DrainInv'
      BY <1>0, <2>0, <3>2
    <3>3. CASE LockBegins
      <4>1. draining' = draining
        BY <3>3 DEF LockBegins
      <4>2. CASE Begin("window", "lock", "resume")
        BY <3>2, <4>1, <4>2 DEF Begin
      <4>3. CASE Begin("pnp", "ioStop", "resume")
        BY <3>1, <4>1, <4>3 DEF Jobs, Invalidating
      <4> QED
        BY <3>3, <4>2, <4>3 DEF LockBegins
    <3>4. CASE ShutdownBegins
      <4>1. CASE Begin("window", "shutdown", "resume") /\ UNCHANGED draining
        BY <3>2, <4>1 DEF Begin
      <4>2. CASE Begin("pnp", "shutdown", "resume") /\ UNCHANGED draining
        BY <3>1, <4>2 DEF Jobs, Invalidating
      <4>3. CASE draining' = TRUE /\ Begin("pnp", "unload", "resume")
        BY <3>1, <4>3 DEF Jobs, Invalidating
      <4> QED
        BY <3>4, <4>1, <4>2, <4>3 DEF ShutdownBegins
    <3>5. CASE SuspendBegins \/ ResumeBegins \/ DisplayOffBegins
      <4>1. draining' = draining /\ job'["pnp"] = job["pnp"] /\ at'["pnp"] = at["pnp"]
        BY <3>5 DEF SuspendBegins, ResumeBegins, DisplayOffBegins, Begin
      <4> QED
        BY <3>2, <4>1
    <3>6. CASE D0Entry \/ GraceEnds \/ Veto \/ Reset \/ SepReports \/ Network
      <4>1. UNCHANGED <<draining, job, at>>
        BY <3>6 DEF D0Entry, GraceEnds, Veto, Reset, SepReports, Network, actorVars, gateVars
      <4> QED
        BY <3>2, <4>1
    <3> QED
      BY <2>3, <3>3, <3>4, <3>5, <3>6 DEF Surroundings
  <2> QED
    BY <1>4, <2>1, <2>2, <2>3
<1>5. CASE UNCHANGED vars
  BY <1>0, <1>5 DEF DrainInv, vars, actorVars, workerVars, gateVars
<1> QED
  BY <1>1, <1>2, <1>3, <1>4, <1>5 DEF Next

\* After the drain no worker runs and none will, however many requests still arrive
\* (T2BioDrainCaptureWorkers and the admission that EvtDriverUnload closes before it).
THEOREM UnloadedIsQuietAlways == Spec => []UnloadedIsQuiet
<1>1. Init => DrainInv
  BY ShapeInit, ActorShapeInit DEF Init, DrainInv, Actors
<1>2. DrainInv /\ [Next]_vars => DrainInv'
  BY DrainStep
<1>3. DrainInv => UnloadedIsQuiet
  BY DEF DrainInv, UnloadedIsQuiet, NoWorker
<1> QED
  BY <1>1, <1>2, <1>3, PTL DEF Spec

-----------------------------------------------------------------------------
(* The replay of a Match.                                                  *)

\* The requests that have taken the replay, and those a Match was delivered to.
TookReplay == {r \in Requests : outcome[r] = "Replay"}
Matched == {r \in Requests : answer[r] = "Match"}

\* The replay that is armed has not been taken: with it there are no more than matches.
PairInv ==
  /\ TrackInv /\ replay \in BOOLEAN
  /\ \A r \in Requests :
       /\ completions[r] = 0 => answer[r] = "none"
       /\ outcome[r] = "Replay" => pc[r] \in {"answer", "leave", "gone"}
       /\ answer[r] = "Replay" => outcome[r] = "Replay"
  /\ Cardinality(TookReplay) + (IF replay THEN 1 ELSE 0) <= Cardinality(Matched)

LEMMA PairsFinite ==
  /\ IsFiniteSet(TookReplay) /\ IsFiniteSet(Matched)
  /\ Cardinality(TookReplay) \in Nat /\ Cardinality(Matched) \in Nat
  /\ IsFiniteSet(TookReplay') /\ IsFiniteSet(Matched')
  /\ Cardinality(TookReplay)' \in Nat /\ Cardinality(Matched)' \in Nat
<1>1. /\ TookReplay \subseteq Requests /\ Matched \subseteq Requests
      /\ TookReplay' \subseteq Requests /\ Matched' \subseteq Requests
  BY DEF TookReplay, Matched
<1>2. IsFiniteSet(Requests)
  BY RequestsAssumption
<1>3. /\ IsFiniteSet(TookReplay) /\ IsFiniteSet(Matched)
      /\ IsFiniteSet(TookReplay') /\ IsFiniteSet(Matched')
  BY <1>1, <1>2, FS_Subset
<1> QED
  BY <1>3, FS_CardinalityType

LEMMA ReplayCleared ==
  ASSUME replay \in BOOLEAN, replay' = replay \/ replay' = FALSE
  PROVE  replay' \in BOOLEAN /\ (replay' => replay)
<1>1. CASE replay' = FALSE
  BY <1>1, Zenon
<1>2. CASE replay' = replay
  <2>1. replay' \in BOOLEAN
    BY <1>2
  <2>2. replay' => replay
    BY <1>2, Zenon
  <2> QED
    BY <2>1, <2>2
<1> QED
  BY <1>1, <1>2

\* What keeps PairInv: nothing changes the two sets, and a replay is at most cleared;
\* or nobody who has the replay loses it to a request outside the two sets.
LEMMA KeepsPairs ==
  ASSUME PairInv, TrackInv', replay' \in BOOLEAN, replay' => replay,
         UNCHANGED answer,
         \A r \in Requests : completions'[r] = completions[r],
         \A r \in Requests : outcome'[r] = outcome[r]
                             \/ (outcome[r] # "Replay" /\ outcome'[r] # "Replay"),
         \A r \in Requests : pc'[r] = pc[r] \/ pc[r] \notin {"answer", "leave", "gone"}
                             \/ pc'[r] \in {"answer", "leave", "gone"}
  PROVE  PairInv'
<1>1. TookReplay' = TookReplay
  BY DEF TookReplay
<1>2. Matched' = Matched
  BY DEF Matched
<1>3. \A r \in Requests :
       /\ completions'[r] = 0 => answer'[r] = "none"
       /\ outcome'[r] = "Replay" => pc'[r] \in {"answer", "leave", "gone"}
       /\ answer'[r] = "Replay" => outcome'[r] = "Replay"
  BY DEF PairInv
<1>4. Cardinality(TookReplay)' + (IF replay' THEN 1 ELSE 0) <= Cardinality(Matched)'
  <2>1. Cardinality(TookReplay) + (IF replay THEN 1 ELSE 0) <= Cardinality(Matched)
    BY DEF PairInv
  <2>2. Cardinality(TookReplay) \in Nat /\ Cardinality(Matched) \in Nat
    BY PairsFinite
  <2>3. Cardinality(TookReplay)' = Cardinality(TookReplay) /\ Cardinality(Matched)' = Cardinality(Matched)
    BY <1>1, <1>2
  <2> HIDE DEF TookReplay, Matched
  <2> QED
    BY <2>1, <2>2, <2>3
<1> QED
  BY <1>3, <1>4 DEF PairInv

\* A completion that is no Match and answers no replay.
LEMMA CancelKeepsPairs ==
  ASSUME PairInv, TrackInv', replay' = replay, NEW r \in Requests,
         NEW a \in {"CancelledByDriver", "CancelledByCallback", "Failed"}, Complete(r, a),
         completions[r] = 0, outcome' = outcome,
         \A q \in Requests : pc'[q] = pc[q] \/ pc'[q] = "gone"
  PROVE  PairInv'
<1>1. /\ answer' = [answer EXCEPT ![r] = a] /\ answer[r] = "none"
      /\ completions' = [completions EXCEPT ![r] = @ + 1]
  BY DEF Complete, PairInv
<1>2. TookReplay' = TookReplay
  BY DEF TookReplay
<1>3. Matched' = Matched
  BY <1>1 DEF Matched, PairInv, TrackInv, Shape
<1>4. \A q \in Requests :
       /\ completions'[q] = 0 => answer'[q] = "none"
       /\ outcome'[q] = "Replay" => pc'[q] \in {"answer", "leave", "gone"}
       /\ answer'[q] = "Replay" => outcome'[q] = "Replay"
  BY <1>1 DEF PairInv, TrackInv, Shape
<1>5. Cardinality(TookReplay)' + (IF replay' THEN 1 ELSE 0) <= Cardinality(Matched)'
  BY <1>2, <1>3 DEF PairInv
<1> QED
  BY <1>4, <1>5 DEF PairInv

\* The replay is taken: one more has it, and it is armed no longer.
LEMMA EntryKeepsPairs ==
  ASSUME PairInv, TrackInv', NEW r \in Requests, replay, replay' = FALSE,
         outcome' = [outcome EXCEPT ![r] = "Replay"], UNCHANGED <<answer, completions>>,
         pc[r] = "entry", pc' = [pc EXCEPT ![r] = "answer"]
  PROVE  PairInv'
<1>1. TookReplay' = TookReplay \cup {r} /\ r \notin TookReplay
  BY DEF TookReplay, PairInv, TrackInv, Shape
<1>2. Matched' = Matched
  BY DEF Matched
<1>3. Cardinality(TookReplay)' = Cardinality(TookReplay) + 1
  BY <1>1, PairsFinite, FS_AddElement
<1>4. \A q \in Requests :
       /\ completions'[q] = 0 => answer'[q] = "none"
       /\ outcome'[q] = "Replay" => pc'[q] \in {"answer", "leave", "gone"}
       /\ answer'[q] = "Replay" => outcome'[q] = "Replay"
  BY DEF PairInv, TrackInv, Shape
<1>5. Cardinality(TookReplay)' + (IF replay' THEN 1 ELSE 0) <= Cardinality(Matched)'
  <2>1. Cardinality(TookReplay) + 1 <= Cardinality(Matched)
    BY DEF PairInv
  <2>2. Cardinality(TookReplay) \in Nat /\ Cardinality(Matched)' = Cardinality(Matched)
    BY <1>2, PairsFinite
  <2> QED
    BY <1>3, <2>1, <2>2
<1> QED
  BY <1>4, <1>5 DEF PairInv

\* An answer: a Match adds one and arms the replay, anything else does neither.
LEMMA AnswerKeepsPairs ==
  ASSUME PairInv, TrackInv', NEW r \in Requests, Answer(r)
  PROVE  PairInv'
<1>1. /\ pc[r] = "answer" /\ pc' = [pc EXCEPT ![r] = "leave"] /\ outcome' = outcome
      /\ answer' = [answer EXCEPT ![r] = AnswerOf(outcome[r])]
      /\ completions' = [completions EXCEPT ![r] = @ + 1]
      /\ replay' = (IF OfVerify(r) THEN outcome[r] = "Match" ELSE replay)
  BY DEF Answer, Complete, Step
<1>2. completions[r] = 0 /\ answer[r] = "none"
  BY <1>1 DEF PairInv, TrackInv, Pcs, Armed, Waiting, Committing
<1>3. TookReplay' = TookReplay
  BY <1>1 DEF TookReplay
<1>4. AnswerOf(outcome[r]) = "Replay" => outcome[r] = "Replay"
  BY DEF AnswerOf
<1>5. AnswerOf(outcome[r]) = "Match" <=> outcome[r] = "Match"
  BY DEF AnswerOf
<1>6. \A q \in Requests :
       /\ completions'[q] = 0 => answer'[q] = "none"
       /\ outcome'[q] = "Replay" => pc'[q] \in {"answer", "leave", "gone"}
       /\ answer'[q] = "Replay" => outcome'[q] = "Replay"
  <2> HIDE DEF AnswerOf
  <2> QED
    BY <1>1, <1>2, <1>4 DEF PairInv, TrackInv, Shape
<1>7. Cardinality(TookReplay)' + (IF replay' THEN 1 ELSE 0) <= Cardinality(Matched)'
  <2>1. Cardinality(TookReplay) + (IF replay THEN 1 ELSE 0) <= Cardinality(Matched)
    BY DEF PairInv
  <2>2. /\ Cardinality(TookReplay) \in Nat /\ Cardinality(Matched) \in Nat
        /\ Cardinality(TookReplay)' = Cardinality(TookReplay)
    BY <1>3, PairsFinite
  <2>3. CASE outcome[r] = "Match"
    <3>1. Matched' = Matched \cup {r} /\ r \notin Matched
      BY <1>1, <1>2, <1>5, <2>3 DEF Matched, PairInv, TrackInv, Shape
    <3>2. Cardinality(Matched)' = Cardinality(Matched) + 1
      BY <3>1, PairsFinite, FS_AddElement
    <3> QED
      BY <2>1, <2>2, <3>2
  <2>4. CASE outcome[r] # "Match"
    <3>1. Matched' = Matched
      BY <1>1, <1>2, <1>5, <2>4 DEF Matched, PairInv, TrackInv, Shape
    <3>2. replay' => replay
      BY <1>1, <2>4
    <3> QED
      BY <2>1, <2>2, <3>1, <3>2
  <2> QED
    BY <2>3, <2>4
<1>8. replay' \in BOOLEAN
  BY <1>1, Zenon DEF PairInv
<1> QED
  BY <1>6, <1>7, <1>8 DEF PairInv

LEMMA NoReplayOutcome ==
  ASSUME Shape, NEW r \in Requests, InSessionStep(r), outcome[r] # "Replay"
  PROVE  /\ outcome'[r] # "Replay"
         /\ \A q \in Requests : q # r => outcome'[q] = outcome[q]
         /\ replay' = replay \/ replay' = FALSE
<1> USE DEF Shape, Step, Settle, GiveUp, GiveUpDisplay
<1>1. CASE SepWait(r)
  BY <1>1 DEF SepWait
<1>2. CASE Snapshot(r)
  BY <1>2 DEF Snapshot
<1>3. CASE Display(r)
  BY <1>3 DEF Display
<1>4. CASE DisplayWait(r) \/ DisplayReset(r) \/ DisplayClear(r)
  BY <1>4 DEF DisplayWait, DisplayReset, DisplayClear
<1>5. CASE Resume(r) \/ ResumeClear(r)
  BY <1>5 DEF Resume, ResumeClear
<1>6. CASE Connect(r)
  BY <1>6 DEF Connect
<1>7. CASE Verify(r)
  BY <1>7, VerdictsAssumption DEF Verify, AllVerdicts
<1>8. CASE Verdict(r) \/ Lock(r)
  BY <1>8 DEF Verdict, Lock
<1>9. CASE Check(r)
  BY <1>9 DEF Check, DropResult
<1>10. CASE CheckDisplay(r)
  BY <1>10 DEF CheckDisplay, DropResult
<1> QED
  BY <1>1, <1>2, <1>3, <1>4, <1>5, <1>6, <1>7, <1>8, <1>9, <1>10 DEF InSessionStep

LEMMA PairStep ==
  ASSUME PairInv, [Next]_vars
  PROVE  PairInv'
<1>0. Shape /\ TrackInv /\ TrackInv' /\ replay \in BOOLEAN
  BY TrackStep DEF PairInv, TrackInv
<1>1. ASSUME NEW r \in Requests, Dispatch(r) PROVE PairInv'
  <2>1. /\ pc[r] \in {"none", "refuse"} /\ outcome' = outcome /\ replay' = replay
        /\ \E p \in {"refuse", "admit", "gone"} : pc' = [pc EXCEPT ![r] = p]
    BY <1>1 DEF Dispatch, Arrive, Refuse, Step
  <2>2. CASE UNCHANGED wdfVars
    <3>1. \A q \in Requests : pc'[q] = pc[q] \/ pc[q] \notin {"answer", "leave", "gone"}
      BY <1>0, <2>1 DEF Shape
    <3>2. UNCHANGED <<answer, completions>>
      BY <2>2 DEF wdfVars
    <3> QED
      BY <1>0, <2>1, <3>1, <3>2, KeepsPairs
  <2>3. ASSUME NEW a \in {"CancelledByDriver", "Failed"}, Complete(r, a),
               pc' = [pc EXCEPT ![r] = "gone"]
        PROVE  PairInv'
    <3>1. completions[r] = 0
      BY <1>0, <2>1 DEF TrackInv, Pcs, Armed, Waiting, Committing
    <3>2. \A q \in Requests : pc'[q] = pc[q] \/ pc'[q] = "gone"
      BY <1>0, <2>3 DEF Shape
    <3> QED
      BY <1>0, <2>1, <2>3, <3>1, <3>2, CancelKeepsPairs
  <2> QED
    BY <1>1, <2>2, <2>3 DEF Dispatch, Arrive, Refuse, Step
<1>2. ASSUME NEW r \in Requests, InSessionStep(r) PROVE PairInv'
  <2>1. Passes(r)
    BY <1>0, <1>2, SessionPasses
  <2>2. outcome[r] # "Replay"
    BY <2>1 DEF Passes, PairInv, InSession, Waiting, Committing
  <2>3. /\ \A q \in Requests : outcome'[q] = outcome[q]
                               \/ (outcome[q] # "Replay" /\ outcome'[q] # "Replay")
        /\ replay' = replay \/ replay' = FALSE
    BY <1>0, <1>2, <2>2, NoReplayOutcome
  <2>4. UNCHANGED <<answer, completions>>
    BY <2>1 DEF Passes, wdfVars
  <2>5. \A q \in Requests : pc'[q] = pc[q] \/ pc[q] \notin {"answer", "leave", "gone"}
    BY <1>0, <2>1 DEF Passes, Shape, InSession, Waiting, Committing
  <2>6. replay' \in BOOLEAN /\ (replay' => replay)
    BY <1>0, <2>3, ReplayCleared
  <2> QED
    BY <1>0, <2>3, <2>4, <2>5, <2>6, KeepsPairs
<1>3. ASSUME NEW r \in Requests, Entry(r) PROVE PairInv'
  <2>1. UNCHANGED <<answer, completions>> /\ pc[r] = "entry"
    BY <1>3 DEF Entry, Step, Settle, wdfVars
  <2>2. \/ replay /\ replay' = FALSE /\ outcome' = [outcome EXCEPT ![r] = "Replay"]
           /\ pc' = [pc EXCEPT ![r] = "answer"]
        \/ /\ replay' = replay \/ replay' = FALSE
           /\ outcome' = outcome \/ outcome' = [outcome EXCEPT ![r] = "Rejected"]
           /\ \E p \in {"answer", "arm"} : pc' = [pc EXCEPT ![r] = p]
    BY <1>3 DEF Entry, Step, Settle
  <2>3. CASE replay /\ replay' = FALSE /\ outcome' = [outcome EXCEPT ![r] = "Replay"]
             /\ pc' = [pc EXCEPT ![r] = "answer"]
    BY <1>0, <2>1, <2>3, EntryKeepsPairs
  <2>4. CASE /\ replay' = replay \/ replay' = FALSE
             /\ outcome' = outcome \/ outcome' = [outcome EXCEPT ![r] = "Rejected"]
             /\ \E p \in {"answer", "arm"} : pc' = [pc EXCEPT ![r] = p]
    <3>1. outcome[r] # "Replay"
      BY <2>1 DEF PairInv
    <3>2. \A q \in Requests : outcome'[q] = outcome[q]
                              \/ (outcome[q] # "Replay" /\ outcome'[q] # "Replay")
      BY <1>0, <2>4, <3>1 DEF Shape
    <3>3. \A q \in Requests : pc'[q] = pc[q] \/ pc[q] \notin {"answer", "leave", "gone"}
      BY <1>0, <2>1, <2>4 DEF Shape
    <3>4. replay' \in BOOLEAN /\ (replay' => replay)
      BY <1>0, <2>4, ReplayCleared
    <3> QED
      BY <1>0, <2>1, <3>2, <3>3, <3>4, KeepsPairs
  <2> QED
    BY <2>2, <2>3, <2>4
<1>4. ASSUME NEW r \in Requests, Answer(r) PROVE PairInv'
  BY <1>0, <1>4, AnswerKeepsPairs
<1>5. ASSUME NEW r \in Requests, Admit(r) \/ Arm(r) \/ WaitSlot(r) \/ ResetCancelEvent(r)
      PROVE  PairInv'
  <2>1. UNCHANGED <<answer, completions, replay>>
    BY <1>5 DEF Admit, Arm, WaitSlot, ResetCancelEvent, wdfVars
  <2>2. pc[r] \in {"admit", "armWait", "arm", "waitSlot", "reset"}
    BY <1>5 DEF Admit, Arm, WaitSlot, ResetCancelEvent, Step, Settle
  <2>3. /\ \E p \in Pcs : pc' = [pc EXCEPT ![r] = p]
        /\ \/ outcome' = outcome
           \/ \E o \in {"Rejected", "Busy", "Acquired", "StillBusy", "Unsupported"} :
                outcome' = [outcome EXCEPT ![r] = o]
    BY <1>5 DEF Admit, Arm, WaitSlot, ResetCancelEvent, Step, Settle, Pcs, Armed, Waiting
  <2>4. outcome[r] # "Replay"
    BY <2>2 DEF PairInv
  <2>5. \A q \in Requests : outcome'[q] = outcome[q]
                            \/ (outcome[q] # "Replay" /\ outcome'[q] # "Replay")
    BY <1>0, <2>3, <2>4 DEF Shape
  <2>6. \A q \in Requests : pc'[q] = pc[q] \/ pc[q] \notin {"answer", "leave", "gone"}
    BY <1>0, <2>2, <2>3 DEF Shape
  <2> QED
    BY <1>0, <2>1, <2>5, <2>6, KeepsPairs
<1>6. ASSUME NEW r \in Requests, Release(r) \/ Unmark(r) \/ WaitCancel(r) \/ Leave(r)
      PROVE  PairInv'
  <2>1. UNCHANGED <<answer, completions>>
    BY <1>6 DEF Release, Unmark, WaitCancel, Leave, wdfVars
  <2>2. replay' \in BOOLEAN /\ (replay' => replay)
    <3>1. CASE WaitCancel(r)
      <4>1. replay' = (replay /\ ~OfVerify(r))
        BY <3>1 DEF WaitCancel
      <4> HIDE DEF OfVerify
      <4>2. replay' \in BOOLEAN
        BY <4>1
      <4>3. replay' => replay
        BY <4>1, Zenon
      <4> QED
        BY <4>2, <4>3
    <3>2. CASE Release(r) \/ Unmark(r) \/ Leave(r)
      BY <1>0, <3>2, ReplayCleared DEF Release, Unmark, Leave
    <3> QED
      BY <1>6, <3>1, <3>2
  <2>3. pc[r] \in {"release", "unmark", "waitCancel", "leave"}
    BY <1>6 DEF Release, Unmark, WaitCancel, Leave, Step
  <2>4. /\ \E p \in Pcs : pc' = [pc EXCEPT ![r] = p]
        /\ pc[r] = "leave" => pc' = [pc EXCEPT ![r] = "gone"]
        /\ \/ outcome' = outcome
           \/ outcome[r] # "Replay" /\ outcome' = [outcome EXCEPT ![r] = "ConfirmFailed"]
    BY <1>6 DEF Release, Unmark, WaitCancel, Leave, Step, Pcs, Armed
  <2>5. \A q \in Requests : outcome'[q] = outcome[q]
                            \/ (outcome[q] # "Replay" /\ outcome'[q] # "Replay")
    BY <1>0, <2>4 DEF Shape
  <2>6. \A q \in Requests : pc'[q] = pc[q] \/ pc[q] \notin {"answer", "leave", "gone"}
                            \/ pc'[q] \in {"answer", "leave", "gone"}
    BY <1>0, <2>3, <2>4 DEF Shape
  <2> QED
    BY <1>0, <2>1, <2>2, <2>5, <2>6, KeepsPairs
<1>7. ASSUME NEW r \in Requests, CancelIoEx(r) \/ Callback(r) PROVE PairInv'
  <2>1. UNCHANGED <<pc, outcome, replay>>
    BY <1>7 DEF CancelIoEx, Callback, CbSignals, CbClaims, CbCompletes, CbStores, CbNotifies,
                workerVars
  <2>2. CASE CbCompletes(r)
    <3>1. Complete(r, "CancelledByCallback") /\ cb[r] = "commit"
      BY <2>2 DEF CbCompletes, CbStep
    <3>2. completions[r] = 0
      BY <1>0, <3>1 DEF TrackInv, Tracked, Shape, Pcs
    <3> QED
      BY <1>0, <2>1, <3>1, <3>2, CancelKeepsPairs
  <2>3. CASE ~CbCompletes(r)
    <3>1. UNCHANGED <<answer, completions>>
      BY <1>7, <2>3 DEF CancelIoEx, Callback, CbSignals, CbClaims, CbStores, CbNotifies, wdfVars
    <3> QED
      BY <1>0, <2>1, <3>1, KeepsPairs
  <2> QED
    BY <2>2, <2>3
<1>8. CASE (\E a \in Actors : Invalidate(a)) \/ Handlers \/ Surroundings
  <2>1. UNCHANGED <<pc, outcome, answer, completions>>
    BY <1>8, BesideUnchanged DEF workerVars, wdfVars
  <2>2. replay' = replay \/ replay' = FALSE
    BY <1>8 DEF Invalidate, InvalidateResume, InvalidateGeneration, InvalidateCancel,
       Handlers, ResumeEnds, DisplayOffAborts, DisplayOffEnds, Join,
       Surroundings, SuspendBegins, LockBegins, ShutdownBegins, ResumeBegins,
       DisplayOffBegins, D0Entry, GraceEnds, Veto, Reset, SepReports, Network
  <2>3. replay' \in BOOLEAN /\ (replay' => replay)
    BY <1>0, <2>2, ReplayCleared
  <2> QED
    BY <1>0, <2>1, <2>3, KeepsPairs
<1>9. CASE UNCHANGED vars
  BY <1>0, <1>9, KeepsPairs DEF vars, wdfVars, workerVars
<1> QED
  BY <1>1, <1>2, <1>3, <1>4, <1>5, <1>6, <1>7, <1>8, <1>9 DEF Next, Worker, InSessionStep

LEMMA PairInit == Init => PairInv
<1> SUFFICES ASSUME Init PROVE PairInv
  OBVIOUS
<1>1. TrackInv
  BY ShapeInit DEF Init, TrackInv, Pcs, Armed, Waiting, Committing
<1>2. \A r \in Requests :
       /\ completions[r] = 0 => answer[r] = "none"
       /\ outcome[r] = "Replay" => pc[r] \in {"answer", "leave", "gone"}
       /\ answer[r] = "Replay" => outcome[r] = "Replay"
  BY DEF Init
<1>3. TookReplay = {}
  BY DEF Init, TookReplay
<1>4. Cardinality(TookReplay) = 0 /\ Cardinality(Matched) \in Nat
  BY <1>3, PairsFinite, FS_EmptySet
<1>5. replay = FALSE
  BY DEF Init
<1>6. Cardinality(TookReplay) + (IF replay THEN 1 ELSE 0) <= Cardinality(Matched)
  BY <1>4, <1>5
<1> QED
  BY <1>1, <1>2, <1>5, <1>6 DEF PairInv

\* A Match and its one replay: the second capture of a WBF pair is answered from the cache
\* at most once for each Match delivered, whoever suspends, locks or resets meanwhile
\* (Queue.cpp 531-560).
THEOREM ReplaysAreFewAlways == Spec => []ReplaysAreFew
<1>1. PairInv => ReplaysAreFew
  <2> SUFFICES ASSUME PairInv PROVE ReplaysAreFew
    OBVIOUS
  <2>1. {r \in Requests : answer[r] = "Replay"} \subseteq TookReplay
    BY DEF PairInv, TookReplay
  <2>2. /\ Cardinality({r \in Requests : answer[r] = "Replay"}) <= Cardinality(TookReplay)
        /\ IsFiniteSet({r \in Requests : answer[r] = "Replay"})
    BY <2>1, PairsFinite, FS_Subset
  <2>3. /\ Cardinality({r \in Requests : answer[r] = "Replay"}) \in Nat
        /\ Cardinality(TookReplay) \in Nat /\ Cardinality(Matched) \in Nat
    BY <2>2, PairsFinite, FS_CardinalityType
  <2>4. Cardinality(TookReplay) + (IF replay THEN 1 ELSE 0) <= Cardinality(Matched)
    BY DEF PairInv
  <2>5. Cardinality({r \in Requests : answer[r] = "Replay"}) <= Cardinality(Matched)
    BY <2>2, <2>3, <2>4
  <2> QED
    BY <2>5 DEF ReplaysAreFew, Matched
<1>2. PairInv /\ [Next]_vars => PairInv'
  BY PairStep
<1> QED
  BY <1>1, <1>2, PairInit, PTL DEF Spec

-----------------------------------------------------------------------------
(* What an aborted capture was aborted for.                                *)

\* A reason to end a capture: Windows cancelled one, or a lock, the display or a
\* shutdown has begun.
Cause == ended \/ \E q \in Requests : asked[q]

\* A verify request whose session the cancel event may end: from the wait for the resume
\* on, until its result is dropped.
Lives(r) ==
  /\ purpose[r] = "verify"
  /\ \/ pc[r] \in {"resumeClear", "connect", "verify", "verdict", "lock", "check", "checkDisplay"}
     \/ /\ pc[r] \in {"display", "displayWait", "displayReset", "displayClear"}
        /\ back[r] = "connect"

Suspending == job["power"] = "suspend"

\* Without a cause the cancel event comes from a suspend, and a suspend has outdated the
\* generation that each session it reaches will be checked against.
Abortable(r) ==
  /\ pc[r] = "verify" => purpose[r] = "verify"
  /\ Lives(r) /\ Suspending /\ at["power"] = "cancel" => handled[r] < generation
  /\ ~Cause /\ cancelEvent /\ Lives(r) => handled[r] < generation
  /\ ~Cause /\ outcome[r] = "Cancelled" /\ pc[r] \in {"verdict", "lock", "check"}
       => handled[r] < generation
  /\ outcome[r] = "Cancelled"
     /\ pc[r] \in {"checkDisplay", "release", "unmark", "waitCancel", "answer"} => Cause
  /\ answer[r] = "Aborted" => Cause

Causes ==
  /\ shuttingDown => ended
  /\ \A a \in Actors : job[a] \in Invalidating \cup {"displayOff"} =>
       ended \/ (a = "power" /\ job[a] = "suspend")
  /\ Suspending /\ at["power"] \in {"generation", "cancel"} => ~resumeEvent

CauseInv ==
  /\ TrackInv /\ FreshInv /\ Causes
  /\ \A r \in Requests : Abortable(r)

\* What a worker's step leaves alone, and the cancel event it may set only with a cause.
Alone(r) ==
  /\ UNCHANGED <<asked, ended, generation, job, at, shuttingDown, resumeEvent, purpose>>
  /\ cancelEvent' => cancelEvent \/ Cause
  /\ \A q \in Requests \ {r} :
       /\ pc'[q] = pc[q] /\ outcome'[q] = outcome[q] /\ handled'[q] = handled[q]
       /\ back'[q] = back[q] /\ answer'[q] = answer[q]

\* The cancellations a worker sees are causes.
LEMMA Cancellations ==
  ASSUME CauseInv, NEW r \in Requests
  PROVE  /\ shuttingDown => Cause
         /\ asked[r] => Cause
         /\ pc[r] \in Armed /\ IsCancelled(r) => Cause
<1>1. (shuttingDown => Cause) /\ (asked[r] => Cause)
  BY DEF CauseInv, Causes, Cause
<1>2. ASSUME pc[r] \in Armed, IsCancelled(r) PROVE cb[r] # "idle"
  BY <1>2 DEF CauseInv, TrackInv, Tracked, IsCancelled
<1>3. cb[r] # "idle" => asked[r]
  BY DEF CauseInv, TrackInv
<1> QED
  BY <1>1, <1>2, <1>3

LEMMA CauseWorker ==
  ASSUME CauseInv, NEW r \in Requests, Dispatch(r) \/ Worker(r)
  PROVE  Alone(r) /\ Abortable(r)'
<1>1. /\ Shape /\ handled \in [Requests -> Nat] /\ generation \in Nat
      /\ handled[r] <= generation /\ Abortable(r)
      /\ (Suspending /\ at["power"] \in {"generation", "cancel"} => ~resumeEvent)
  BY DEF CauseInv, Causes, FreshInv, AgeInv
<1>2. /\ shuttingDown => Cause
      /\ asked[r] => Cause
      /\ pc[r] \in Armed /\ IsCancelled(r) => Cause
  BY Cancellations
<1>3. UNCHANGED <<asked, ended>> => (Cause' <=> Cause)
  BY DEF Cause
<1> HIDE DEF Cause
<1> USE <1>1, <1>2, <1>3
<1> USE DEF Alone, Abortable, Lives, Suspending, Shape, Step, Settle, GiveUp, GiveUpDisplay, Armed,
            Waiting, Committing, wdfVars, trackVars, actorVars, gateVars
<1>4. CASE Dispatch(r)
  BY <1>4 DEF Dispatch, Arrive, Refuse, Complete
<1>5. CASE Admit(r)
  BY <1>5 DEF Admit
<1>6. CASE Arm(r)
  BY <1>6 DEF Arm
<1>7. CASE WaitSlot(r)
  BY <1>7 DEF WaitSlot
<1>8. CASE ResetCancelEvent(r)
  BY <1>8 DEF ResetCancelEvent
<1>9. CASE Entry(r)
  BY <1>9 DEF Entry
<1>10. CASE SepWait(r)
  BY <1>10 DEF SepWait
<1>11. CASE Snapshot(r)
  BY <1>11 DEF Snapshot
<1>12. CASE Display(r)
  BY <1>12 DEF Display
<1>13. CASE DisplayWait(r)
  BY <1>13 DEF DisplayWait
<1>14. CASE DisplayReset(r)
  BY <1>14 DEF DisplayReset
<1>15. CASE DisplayClear(r)
  BY <1>15 DEF DisplayClear
<1>16. CASE Resume(r)
  BY <1>16 DEF Resume
<1>17. CASE ResumeClear(r)
  BY <1>17 DEF ResumeClear
<1>18. CASE Connect(r)
  <2>1. Alone(r)
    BY <1>18 DEF Connect
  <2>2. Abortable(r)'
    BY <1>18 DEF Connect
  <2> QED
    BY <2>1, <2>2
<1>19. CASE Verify(r)
  BY <1>19, VerdictsAssumption DEF Verify, AllVerdicts
<1>20. CASE Verdict(r)
  BY <1>20 DEF Verdict
<1>21. CASE Lock(r)
  BY <1>21 DEF Lock
<1>22. CASE Check(r)
  BY <1>22 DEF Check, DropResult
<1>23. CASE CheckDisplay(r)
  BY <1>23 DEF CheckDisplay, DropResult
<1>24. CASE Release(r)
  BY <1>24 DEF Release
<1>25. CASE Unmark(r)
  BY <1>25 DEF Unmark
<1>26. CASE WaitCancel(r)
  BY <1>26 DEF WaitCancel
<1>27. CASE Answer(r)
  <2>1. /\ pc[r] = "answer" /\ pc' = [pc EXCEPT ![r] = "leave"]
        /\ answer' = [answer EXCEPT ![r] = AnswerOf(outcome[r])]
        /\ UNCHANGED <<asked, ended, generation, job, at, shuttingDown, resumeEvent, purpose,
                       outcome, back, handled, cancelEvent>>
    BY <1>27 DEF Answer, Complete
  <2>2. AnswerOf(outcome[r]) = "Aborted" => outcome[r] = "Cancelled"
    BY DEF AnswerOf
  <2> QED
    BY <2>1, <2>2
<1>28. CASE Leave(r)
  BY <1>28 DEF Leave
<1> QED
  BY <1>4, <1>5, <1>6, <1>7, <1>8, <1>9, <1>10, <1>11, <1>12, <1>13, <1>14, <1>15, <1>16,
     <1>17, <1>18, <1>19, <1>20, <1>21, <1>22, <1>23, <1>24, <1>25, <1>26, <1>27, <1>28
  DEF Worker

\* Nothing a request relies on changes, and a cause stays one.
LEMMA CauseKept ==
  ASSUME NEW q \in Requests, Abortable(q),
         pc'[q] = pc[q], outcome'[q] = outcome[q], handled'[q] = handled[q],
         back'[q] = back[q], answer'[q] \in {answer[q], "CancelledByCallback"},
         purpose'[q] = purpose[q],
         handled[q] <= generation, handled[q] \in Nat, generation \in Nat,
         Cause => Cause',
         generation' = generation \/ generation' = generation + 1,
         cancelEvent' => \/ cancelEvent \/ Cause'
                         \/ Suspending /\ at["power"] = "cancel" /\ generation' = generation,
         Suspending' /\ at'["power"] = "cancel" =>
           (Suspending /\ at["power"] = "cancel") \/ generation' = generation + 1
  PROVE  Abortable(q)'
<1> HIDE DEF Cause, Suspending
<1>1. CASE generation' = generation
  BY <1>1 DEF Abortable, Lives
<1>2. CASE generation' = generation + 1
  <2>1. handled'[q] < generation'
    BY <1>2
  <2> QED
    BY <2>1 DEF Abortable
<1> QED
  BY <1>1, <1>2

LEMMA CauseCallback ==
  ASSUME CauseInv, NEW r \in Requests, CancelIoEx(r) \/ Callback(r)
  PROVE  Causes' /\ \A q \in Requests : Abortable(q)'
<1>1. /\ UNCHANGED <<pc, outcome, handled, back, purpose, generation, job, at, ended,
                     shuttingDown, resumeEvent>>
      /\ \A q \in Requests : answer'[q] \in {answer[q], "CancelledByCallback"}
      /\ \A q \in Requests : asked[q] => asked'[q]
  <2>1. UNCHANGED <<pc, outcome, handled, back, purpose, generation, job, at, ended,
                    shuttingDown, resumeEvent>>
    BY DEF CancelIoEx, Callback, CbSignals, CbClaims, CbCompletes, CbStores, CbNotifies,
           workerVars, gateVars, actorVars
  <2>2. /\ answer' = answer \/ answer' = [answer EXCEPT ![r] = "CancelledByCallback"]
        /\ asked' = asked \/ asked' = [asked EXCEPT ![r] = TRUE]
    BY DEF CancelIoEx, Callback, CbSignals, CbClaims, CbCompletes, CbStores, CbNotifies,
           wdfVars, Complete
  <2>3. \A q \in Requests : answer'[q] \in {answer[q], "CancelledByCallback"}
    BY <2>2 DEF CauseInv, TrackInv, Shape
  <2>4. \A q \in Requests : asked[q] => asked'[q]
    <3> TAKE q \in Requests
    <3>1. asked \in [Requests -> BOOLEAN]
      BY DEF CauseInv, TrackInv, Shape
    <3>2. CASE asked' = asked
      BY <3>2, Zenon
    <3>3. CASE asked' = [asked EXCEPT ![r] = TRUE]
      BY <3>1, <3>3, Zenon
    <3> QED
      BY <2>2, <3>2, <3>3
  <2> QED
    BY <2>1, <2>3, <2>4
<1>2. Cause => Cause'
  BY <1>1 DEF Cause
<1>3. cancelEvent' => cancelEvent \/ Cause
  <2>1. CASE CbSignals(r)
    BY <2>1 DEF CbSignals, CbStep, CauseInv, TrackInv, Cause
  <2>2. CASE ~CbSignals(r)
    BY <2>2 DEF CancelIoEx, Callback, CbClaims, CbCompletes, CbStores, CbNotifies
  <2> QED
    BY <2>1, <2>2
<1>4. Causes'
  BY <1>1 DEF CauseInv, Causes, Suspending
<1>5. ASSUME NEW q \in Requests PROVE Abortable(q)'
  <2>1. /\ Abortable(q) /\ handled[q] <= generation /\ handled[q] \in Nat /\ generation \in Nat
    BY DEF CauseInv, FreshInv, AgeInv
  <2>2. Suspending' <=> Suspending
    BY <1>1 DEF Suspending
  <2> HIDE DEF Cause, Suspending
  <2> QED
    BY <1>1, <1>2, <1>3, <2>1, <2>2, CauseKept
<1> QED
  BY <1>4, <1>5

\* The invalidating jobs: a suspend outdates the generation before it sets the event.
LEMMA CauseInvalidate ==
  ASSUME CauseInv, NEW a \in Actors, Invalidate(a)
  PROVE  Causes' /\ \A q \in Requests : Abortable(q)'
<1>1. UNCHANGED <<pc, outcome, handled, back, purpose, answer, asked>>
  <2>1. UNCHANGED <<wdfVars, trackVars, workerVars, slot>>
    BY BesideUnchanged
  <2> QED
    BY <2>1 DEF wdfVars, workerVars
<1>2. UNCHANGED <<shuttingDown, ended>> /\ (resumeEvent' => resumeEvent)
  <2>1. UNCHANGED <<shuttingDown, ended>>
    BY DEF Invalidate, InvalidateResume, InvalidateGeneration, InvalidateCancel, NextStep,
           EndJob, gateVars
  <2>2. resumeEvent' = resumeEvent \/ resumeEvent' = (resumeEvent /\ ~ResetsResume(job[a]))
    BY DEF Invalidate, InvalidateResume, InvalidateGeneration, InvalidateCancel
  <2>3. resumeEvent' => resumeEvent
    BY <2>2, Zenon
  <2> QED
    BY <2>1, <2>3
<1>3. Cause' <=> Cause
  BY <1>1, <1>2 DEF Cause
<1>4. ActorShape
  BY DEF CauseInv, FreshInv
<1>5. Causes'
  <2>1. job[a] \in Jobs /\ (job' = job \/ job' = [job EXCEPT ![a] = "none"])
    BY <1>4 DEF Invalidate, InvalidateResume, InvalidateGeneration, InvalidateCancel, NextStep,
           EndJob, ActorShape
  <2>2. \A b \in Actors : job'[b] \in Invalidating \cup {"displayOff"} =>
          ended' \/ (b = "power" /\ job'[b] = "suspend")
    BY <1>2, <1>4, <2>1 DEF CauseInv, Causes, ActorShape, Invalidating
  <2>3. Suspending' /\ at'["power"] \in {"generation", "cancel"} => ~resumeEvent'
    <3>1. CASE InvalidateResume(a)
      BY <1>2, <1>4, <3>1 DEF CauseInv, Causes, ActorShape, InvalidateResume, NextStep,
         Suspending, ResetsResume, Actors
    <3>2. CASE InvalidateGeneration(a)
      BY <1>2, <1>4, <3>2 DEF CauseInv, Causes, ActorShape, InvalidateGeneration, NextStep,
         Suspending, Actors
    <3>3. CASE InvalidateCancel(a)
      BY <1>2, <1>4, <3>3 DEF CauseInv, Causes, ActorShape, InvalidateCancel, NextStep, EndJob,
         Suspending, Actors
    <3> QED
      BY <3>1, <3>2, <3>3 DEF Invalidate
  <2> QED
    BY <1>2, <2>2, <2>3 DEF CauseInv, Causes
<1>6. generation' = generation \/ generation' = generation + 1
  BY DEF Invalidate, InvalidateResume, InvalidateGeneration, InvalidateCancel
<1>7. cancelEvent' => \/ cancelEvent \/ Cause'
                      \/ Suspending /\ at["power"] = "cancel" /\ generation' = generation
  <2>1. CASE InvalidateCancel(a)
    BY <1>3, <2>1 DEF InvalidateCancel, CauseInv, Causes, Suspending, Cause
  <2>2. CASE ~InvalidateCancel(a)
    BY <2>2 DEF Invalidate, InvalidateResume, InvalidateGeneration
  <2> QED
    BY <2>1, <2>2
<1>8. Suspending' /\ at'["power"] = "cancel" =>
        (Suspending /\ at["power"] = "cancel") \/ generation' = generation + 1
  BY <1>4 DEF Invalidate, InvalidateResume, InvalidateGeneration, InvalidateCancel, NextStep,
     EndJob, Suspending, ActorShape, Actors
<1>9. ASSUME NEW q \in Requests PROVE Abortable(q)'
  <2>1. /\ Abortable(q) /\ handled[q] <= generation /\ handled[q] \in Nat /\ generation \in Nat
    BY DEF CauseInv, FreshInv, AgeInv
  <2> HIDE DEF Cause, Suspending
  <2> QED
    BY <1>1, <1>3, <1>6, <1>7, <1>8, <2>1, CauseKept
<1> QED
  BY <1>5, <1>9

\* A handler or an event of the surroundings: only the suspend begins without a cause, and
\* only the resume sets the resume event.
LEMMA CauseBeside ==
  ASSUME CauseInv, Handlers \/ Surroundings
  PROVE  Causes' /\ \A q \in Requests : Abortable(q)'
<1>1. UNCHANGED <<pc, outcome, handled, back, purpose, answer, asked>>
  <2>1. UNCHANGED <<wdfVars, trackVars, workerVars, slot>>
    BY BesideUnchanged
  <2> QED
    BY <2>1 DEF wdfVars, workerVars
<1>2. /\ ActorShape /\ generation \in Nat
      /\ \A b \in Actors : job[b] \in Invalidating \cup {"displayOff"} =>
           ended \/ (b = "power" /\ job[b] = "suspend")
      /\ shuttingDown => ended
      /\ Suspending /\ at["power"] \in {"generation", "cancel"} => ~resumeEvent
  BY DEF CauseInv, FreshInv, Causes, AgeInv
<1>3. /\ ended => ended'
      /\ generation' = generation \/ generation' = generation + 1
      /\ cancelEvent' => cancelEvent \/ ended'
      /\ shuttingDown' => shuttingDown \/ ended'
      /\ \A b \in Actors : job'[b] \in Invalidating \cup {"displayOff"} =>
           ended' \/ (b = "power" /\ job'[b] = "suspend")
      /\ Suspending' /\ at'["power"] \in {"generation", "cancel"} =>
           Suspending /\ at'["power"] = at["power"] /\ resumeEvent' = resumeEvent
  <2> USE <1>2 DEF ActorShape, Actors, Suspending, NextStep, EndJob, Begin, Invalidating,
                   StartsBoundary, EndsCaptures, actorVars, gateVars
  <2>1. CASE ResumeEnds
    BY <2>1 DEF ResumeEnds
  <2>2. CASE DisplayOffAborts
    BY <2>2 DEF DisplayOffAborts
  <2>3. CASE DisplayOffEnds
    BY <2>3 DEF DisplayOffEnds
  <2>4. CASE Join
    BY <2>4 DEF Join
  <2>5. CASE SuspendBegins
    BY <2>5 DEF SuspendBegins
  <2>6. CASE LockBegins
    BY <2>6 DEF LockBegins
  <2>7. CASE ShutdownBegins
    BY <2>7 DEF ShutdownBegins
  <2>8. CASE ResumeBegins
    BY <2>8 DEF ResumeBegins
  <2>9. CASE DisplayOffBegins
    BY <2>9 DEF DisplayOffBegins
  <2>10. CASE D0Entry
    BY <2>10 DEF D0Entry
  <2>11. CASE GraceEnds
    BY <2>11 DEF GraceEnds
  <2>12. CASE Veto
    BY <2>12 DEF Veto
  <2>13. CASE Reset
    BY <2>13 DEF Reset
  <2>14. CASE SepReports
    BY <2>14 DEF SepReports
  <2>15. CASE Network
    BY <2>15 DEF Network
  <2> QED
    BY <2>1, <2>2, <2>3, <2>4, <2>5, <2>6, <2>7, <2>8, <2>9, <2>10, <2>11, <2>12, <2>13,
       <2>14, <2>15 DEF Handlers, Surroundings
<1>4. Causes'
  BY <1>2, <1>3 DEF Causes
<1>5. (Cause => Cause') /\ (ended' => Cause')
  BY <1>1, <1>3 DEF Cause
<1>6. ASSUME NEW q \in Requests PROVE Abortable(q)'
  <2>1. /\ Abortable(q) /\ handled[q] <= generation /\ handled[q] \in Nat
    BY DEF CauseInv, FreshInv, AgeInv
  <2> HIDE DEF Cause, Suspending
  <2> QED
    BY <1>1, <1>2, <1>3, <1>5, <2>1, CauseKept
<1> QED
  BY <1>4, <1>6

LEMMA CauseStep == CauseInv /\ [Next]_vars => CauseInv'
<1> SUFFICES ASSUME CauseInv, [Next]_vars PROVE CauseInv'
  OBVIOUS
<1>0. TrackInv' /\ FreshInv'
  BY TrackStep, FreshStep DEF CauseInv
<1>1. ASSUME NEW r \in Requests, Dispatch(r) \/ Worker(r)
      PROVE  Causes' /\ \A q \in Requests : Abortable(q)'
  <2>1. Alone(r) /\ Abortable(r)'
    BY <1>1, CauseWorker
  <2>2. Causes'
    BY <2>1 DEF Alone, CauseInv, Causes, Suspending
  <2>3. (Cause => Cause') /\ (Suspending' <=> Suspending)
    BY <2>1 DEF Alone, Cause, Suspending
  <2>4. ASSUME NEW q \in Requests \ {r} PROVE Abortable(q)'
    <3>1. /\ Abortable(q) /\ handled[q] <= generation /\ handled[q] \in Nat
          /\ generation \in Nat
      BY DEF CauseInv, FreshInv, AgeInv
    <3>2. /\ pc'[q] = pc[q] /\ outcome'[q] = outcome[q] /\ handled'[q] = handled[q]
          /\ back'[q] = back[q] /\ answer'[q] = answer[q] /\ purpose'[q] = purpose[q]
          /\ generation' = generation /\ at' = at
          /\ cancelEvent' => cancelEvent \/ Cause
      BY <2>1 DEF Alone
    <3> HIDE DEF Cause, Suspending
    <3> QED
      BY <2>3, <3>1, <3>2, CauseKept
  <2> QED
    BY <2>1, <2>2, <2>4
<1>2. CASE UNCHANGED vars
  <2>1. Causes'
    BY <1>2 DEF CauseInv, Causes, Suspending, vars, gateVars, actorVars
  <2>2. \A q \in Requests : Abortable(q)'
    BY <1>2 DEF CauseInv, Abortable, Lives, Suspending, Cause, vars, wdfVars, workerVars, actorVars
  <2> QED
    BY <1>0, <2>1, <2>2 DEF CauseInv
<1> QED
  BY <1>0, <1>1, <1>2, CauseCallback, CauseInvalidate, CauseBeside DEF Next, CauseInv

\* Sleeping and waking, however often and by whatever order the generation, the resume and the
\* cancel event are written and read, never ends a capture: an aborted one was cancelled by
\* Windows, or a lock, the display or a shutdown ended it (Queue.cpp 365-371).
THEOREM EndsOnlyWhenAskedAlways == Spec => []EndsOnlyWhenAsked
<1>1. Init => CauseInv
  <2> SUFFICES ASSUME Init PROVE CauseInv
    OBVIOUS
  <2>1. TrackInv
    BY PairInit DEF PairInv
  <2>2. FreshInv
    BY FreshInit
  <2>3. Causes
    BY DEF Init, Causes, Actors, Suspending, Invalidating
  <2>4. \A r \in Requests : Abortable(r)
    BY DEF Init, Abortable, Lives
  <2> QED
    BY <2>1, <2>2, <2>3, <2>4 DEF CauseInv
<1>2. CauseInv => EndsOnlyWhenAsked
  BY DEF CauseInv, Abortable, Cause, EndsOnlyWhenAsked
<1> QED
  BY <1>1, <1>2, CauseStep, PTL DEF Spec

-----------------------------------------------------------------------------
(* Types, and the bound on the generation.                                 *)

\* A boundary that has begun and not yet changed the generation.
Due(a) ==
  IF \/ job[a] \in Invalidating /\ at[a] \in {"resume", "generation"}
     \/ job[a] = "displayOff" /\ at[a] \in {"abort", "generation"}
  THEN 1 ELSE 0

\* A boundary changes the generation once.
NumInv ==
  /\ boundaries \in 0 .. MaxBoundaries /\ generation \in Nat
  /\ generation + Due("power") + Due("window") + Due("pnp") <= boundaries

Flags ==
  /\ <<replay, cancelEvent, resumeEvent, sleepBarrier, grace, shuttingDown, ioSuspended,
       draining, staleReplay>> \in BOOLEAN \X BOOLEAN \X BOOLEAN \X BOOLEAN \X BOOLEAN
                                   \X BOOLEAN \X BOOLEAN \X BOOLEAN \X BOOLEAN
  /\ <<d0, queried, reachable>> \in BOOLEAN \X BOOLEAN \X BOOLEAN /\ ended \in BOOLEAN

Rest ==
  /\ mu \in MuHolders /\ sep \in {"unknown", "ok", "failed"} /\ staleTouch \subseteq Requests

LEMMA NumStep ==
  ASSUME ActorShape, NumInv, [Next]_vars
  PROVE  NumInv'
<1> USE DEF NumInv
<1>0. /\ Due("power") \in {0, 1} /\ Due("window") \in {0, 1} /\ Due("pnp") \in {0, 1}
      /\ Due("power")' \in {0, 1} /\ Due("window")' \in {0, 1} /\ Due("pnp")' \in {0, 1}
  BY DEF Due
<1>1. ASSUME UNCHANGED <<job, at, boundaries, generation>> PROVE NumInv'
  <2>1. Due("power")' = Due("power") /\ Due("window")' = Due("window") /\ Due("pnp")' = Due("pnp")
    BY <1>1 DEF Due
  <2> QED
    BY <1>1, <2>1
\* An actor begins a job.
<1>2. ASSUME NEW a \in Actors, NEW j \in Jobs, NEW step \in {"resume", "abort"},
             Begin(a, j, step), StartsBoundary, generation' = generation
      PROVE  NumInv'
  <2>1. /\ \A b \in Actors : b # a => Due(b)' = Due(b)
        /\ Due(a) = 0
    BY <1>2 DEF ActorShape, Begin, Due, Invalidating
  <2>2. boundaries < MaxBoundaries /\ boundaries' = boundaries + 1
    BY <1>2 DEF StartsBoundary
  <2>3. MaxBoundaries \in Nat
    BY BoundAssumption
  <2> HIDE DEF Due
  <2>4. CASE a = "power"
    BY <1>0, <1>2, <2>1, <2>2, <2>3, <2>4 DEF Actors
  <2>5. CASE a = "window"
    BY <1>0, <1>2, <2>1, <2>2, <2>3, <2>5 DEF Actors
  <2>6. CASE a = "pnp"
    BY <1>0, <1>2, <2>1, <2>2, <2>3, <2>6 DEF Actors
  <2> QED
    BY <2>4, <2>5, <2>6 DEF Actors
\* An actor goes on without changing the generation, or changes it.
<1>3. ASSUME NEW a \in Actors, UNCHANGED boundaries,
             \A b \in Actors : b # a => job'[b] = job[b] /\ at'[b] = at[b],
             \/ generation' = generation /\ Due(a)' <= Due(a)
             \/ generation' = generation + 1 /\ Due(a) = 1 /\ Due(a)' = 0
      PROVE  NumInv'
  <2>1. \A b \in Actors : b # a => Due(b)' = Due(b)
    BY <1>3 DEF Due
  <2> HIDE DEF Due
  <2>2. CASE a = "power"
    BY <1>0, <1>3, <2>1, <2>2 DEF Actors
  <2>3. CASE a = "window"
    BY <1>0, <1>3, <2>1, <2>3 DEF Actors
  <2>4. CASE a = "pnp"
    BY <1>0, <1>3, <2>1, <2>4 DEF Actors
  <2> QED
    BY <2>2, <2>3, <2>4 DEF Actors
<1>4. ASSUME NEW r \in Requests, Dispatch(r) \/ Worker(r) \/ CancelIoEx(r) \/ Callback(r)
      PROVE  UNCHANGED <<job, at, boundaries, generation>>
  <2>1. Dispatch(r) \/ CancelIoEx(r) \/ Callback(r) => UNCHANGED <<job, at, boundaries, generation>>
    BY DEF Dispatch, Arrive, Refuse, CancelIoEx, Callback, CbSignals, CbClaims, CbCompletes, CbStores, CbNotifies,
           actorVars
  <2>2. Worker(r) => UNCHANGED <<job, at, boundaries, generation>>
    BY DEF Worker, Admit, Arm, WaitSlot, ResetCancelEvent, Entry, SepWait, Snapshot, Display,
           DisplayWait, DisplayReset, DisplayClear, Resume, ResumeClear, Connect, Verify, Verdict,
           Lock, Check, CheckDisplay, Release, Unmark, WaitCancel, Answer, Leave, actorVars
  <2> QED
    BY <1>4, <2>1, <2>2
<1>5. ASSUME NEW a \in Actors, Invalidate(a) PROVE NumInv'
  <2>1. UNCHANGED boundaries /\ \A b \in Actors : b # a => job'[b] = job[b] /\ at'[b] = at[b]
    BY <1>5 DEF Invalidate, InvalidateResume, InvalidateGeneration, InvalidateCancel, NextStep,
       EndJob, ActorShape
  <2>2. CASE InvalidateResume(a)
    <3>1. generation' = generation /\ Due(a)' = Due(a) /\ Due(a) \in {0, 1}
      BY <2>2 DEF InvalidateResume, NextStep, Due, ActorShape, Invalidating
    <3> QED
      BY <1>3, <2>1, <3>1
  <2>3. CASE InvalidateGeneration(a)
    <3>1. generation' = generation + 1 /\ Due(a) = 1 /\ Due(a)' = 0
      BY <2>3 DEF InvalidateGeneration, NextStep, Due, ActorShape, Invalidating
    <3> QED
      BY <1>3, <2>1, <3>1
  <2>4. CASE InvalidateCancel(a)
    <3>1. generation' = generation /\ Due(a)' = 0 /\ Due(a) \in {0, 1}
      BY <2>4 DEF InvalidateCancel, NextStep, EndJob, Due, ActorShape, Invalidating
    <3> QED
      BY <1>3, <2>1, <3>1
  <2> QED
    BY <1>5, <2>2, <2>3, <2>4 DEF Invalidate
<1>6. CASE Handlers
  <2> USE DEF NextStep, EndJob, Due, ActorShape, Invalidating, Actors
  <2>1. CASE ResumeEnds
    <3>1. /\ generation' = generation /\ Due("power")' = 0 /\ Due("power") \in {0, 1}
          /\ UNCHANGED boundaries
          /\ \A b \in Actors : b # "power" => job'[b] = job[b] /\ at'[b] = at[b]
      BY <2>1 DEF ResumeEnds
    <3> QED
      BY <1>3, <3>1
  <2>2. CASE DisplayOffAborts
    <3>1. /\ generation' = generation /\ Due("window")' = 1 /\ Due("window") = 1
          /\ UNCHANGED boundaries
          /\ \A b \in Actors : b # "window" => job'[b] = job[b] /\ at'[b] = at[b]
      BY <2>2 DEF DisplayOffAborts
    <3> QED
      BY <1>3, <3>1
  <2>3. CASE DisplayOffEnds
    <3>1. /\ generation' = generation + 1 /\ Due("window")' = 0 /\ Due("window") = 1
          /\ UNCHANGED boundaries
          /\ \A b \in Actors : b # "window" => job'[b] = job[b] /\ at'[b] = at[b]
      BY <2>3 DEF DisplayOffEnds
    <3> QED
      BY <1>3, <3>1
  <2>4. CASE Join
    <3>1. /\ generation' = generation /\ Due("pnp")' = 0 /\ Due("pnp") = 0
          /\ UNCHANGED boundaries
          /\ \A b \in Actors : b # "pnp" => job'[b] = job[b] /\ at'[b] = at[b]
      BY <2>4 DEF Join
    <3> QED
      BY <1>3, <3>1
  <2> QED
    BY <1>6, <2>1, <2>2, <2>3, <2>4 DEF Handlers
<1>7. CASE Surroundings
  <2> USE DEF Actors, Jobs, Invalidating
  <2>1. CASE SuspendBegins
    BY <1>2, <2>1 DEF SuspendBegins
  <2>2. CASE LockBegins
    BY <1>2, <2>2 DEF LockBegins, EndsCaptures
  <2>3. CASE ShutdownBegins
    BY <1>2, <2>3 DEF ShutdownBegins, EndsCaptures
  <2>4. CASE ResumeBegins
    <3>1. /\ generation' = generation /\ Due("power")' = 0 /\ Due("power") = 0
          /\ UNCHANGED boundaries
          /\ \A b \in Actors : b # "power" => job'[b] = job[b] /\ at'[b] = at[b]
      BY <2>4 DEF ResumeBegins, Begin, Due, ActorShape
    <3> QED
      BY <1>3, <3>1
  <2>5. CASE DisplayOffBegins
    BY <1>2, <2>5 DEF DisplayOffBegins, EndsCaptures
  <2>6. CASE D0Entry \/ GraceEnds \/ Veto \/ Reset \/ SepReports \/ Network
    BY <1>1, <2>6 DEF D0Entry, GraceEnds, Veto, Reset, SepReports, Network, actorVars
  <2> QED
    BY <1>7, <2>1, <2>2, <2>3, <2>4, <2>5, <2>6 DEF Surroundings
<1>8. CASE UNCHANGED vars
  BY <1>1, <1>8 DEF vars, actorVars
<1> QED
  BY <1>1, <1>4, <1>5, <1>6, <1>7, <1>8 DEF Next

LEMMA FlagsStep ==
  ASSUME Flags, [Next]_vars
  PROVE  Flags'
<1> USE DEF Flags, gateVars, actorVars, staleVars
<1>1. ASSUME NEW r \in Requests, Dispatch(r) PROVE Flags'
  BY <1>1 DEF Dispatch, Arrive, Refuse
<1>2. ASSUME NEW r \in Requests, Worker(r) PROVE Flags'
  <2>1. /\ UNCHANGED <<resumeEvent, gateVars, ended>>
        /\ replay' \in BOOLEAN /\ cancelEvent' \in BOOLEAN /\ staleReplay' \in BOOLEAN
    <3>1. UNCHANGED <<resumeEvent, gateVars, ended>>
      BY <1>2 DEF Worker, Admit, Arm, WaitSlot, ResetCancelEvent, Entry, SepWait, Snapshot,
         Display, DisplayWait, DisplayReset, DisplayClear, Resume, ResumeClear, Connect, Verify,
         Verdict, Lock, Check, CheckDisplay, Release, Unmark, WaitCancel, Answer, Leave
    <3>2. cancelEvent' = cancelEvent \/ cancelEvent' = TRUE \/ cancelEvent' = FALSE
      BY <1>2 DEF Worker, Admit, Arm, WaitSlot, ResetCancelEvent, Entry, SepWait, Snapshot,
         Display, DisplayWait, DisplayReset, DisplayClear, Resume, ResumeClear, Connect, Verify,
         Verdict, Lock, Check, CheckDisplay, Release, Unmark, WaitCancel, Answer, Leave
    <3>3. staleReplay' \in BOOLEAN
      <4>0. staleReplay \in BOOLEAN
        OBVIOUS
      <4>1. CASE Answer(r)
        <5>1. staleReplay' = (r \in staleTouch) \/ staleReplay' = staleReplay
          BY <4>1 DEF Answer
        <5>2. CASE staleReplay' = (r \in staleTouch)
          BY ONLY <5>2
        <5>3. CASE staleReplay' = staleReplay
          BY ONLY <4>0, <5>3
        <5> QED
          BY <5>1, <5>2, <5>3
      <4>2. CASE ~Answer(r)
        BY <1>2, <4>2 DEF Worker, Admit, Arm, WaitSlot, ResetCancelEvent, Entry, SepWait,
           Snapshot, Display, DisplayWait, DisplayReset, DisplayClear, Resume, ResumeClear,
           Connect, Verify, Verdict, Lock, Check, CheckDisplay, Release, Unmark, WaitCancel, Leave
      <4> QED
        BY <4>1, <4>2
    <3>4. replay' \in BOOLEAN
      <4>1. CASE Answer(r)
        BY <4>1 DEF Answer, OfVerify
      <4>2. CASE WaitCancel(r)
        BY <4>2 DEF WaitCancel
      <4>3. CASE ~Answer(r) /\ ~WaitCancel(r)
        BY <1>2, <4>3 DEF Worker, Admit, Arm, WaitSlot, ResetCancelEvent, Entry, SepWait,
           Snapshot, Display, DisplayWait, DisplayReset, DisplayClear, Resume, ResumeClear,
           Connect, Verify, Verdict, Lock, Check, CheckDisplay, Release, Unmark, Leave, DropResult
      <4> QED
        BY <4>1, <4>2, <4>3
    <3> QED
      BY <3>1, <3>2, <3>3, <3>4
  <2> QED
    BY <2>1
<1>3. ASSUME NEW r \in Requests, CancelIoEx(r) \/ Callback(r) PROVE Flags'
  BY <1>3 DEF CancelIoEx, Callback, CbSignals, CbClaims, CbCompletes, CbStores, CbNotifies
<1>4. ASSUME NEW a \in Actors, Invalidate(a) PROVE Flags'
  BY <1>4 DEF Invalidate, InvalidateResume, InvalidateGeneration, InvalidateCancel, NextStep,
     EndJob, TakesCommitMu
<1>5. CASE Handlers
  BY <1>5 DEF Handlers, ResumeEnds, DisplayOffAborts, DisplayOffEnds, Join, NextStep, EndJob
<1>6. CASE Surroundings
  BY <1>6 DEF Surroundings, SuspendBegins, LockBegins, ShutdownBegins, ResumeBegins,
     DisplayOffBegins, D0Entry, GraceEnds, Veto, Reset, SepReports, Network, StartsBoundary, EndsCaptures
<1>7. CASE UNCHANGED vars
  BY <1>7 DEF vars
<1> QED
  BY <1>1, <1>2, <1>3, <1>4, <1>5, <1>6, <1>7 DEF Next

LEMMA RestStep ==
  ASSUME Rest, [Next]_vars
  PROVE  Rest'
<1> USE DEF Rest, MuHolders, gateVars, staleVars
<1>1. ASSUME NEW r \in Requests, Dispatch(r) PROVE Rest'
  BY <1>1 DEF Dispatch, Arrive, Refuse
<1>2. ASSUME NEW r \in Requests, Worker(r) PROVE Rest'
  BY <1>2 DEF Worker, Admit, Arm, WaitSlot, ResetCancelEvent, Entry, SepWait, Snapshot,
     Display, DisplayWait, DisplayReset, DisplayClear, Resume, ResumeClear, Connect, Verify,
     Verdict, Lock, Check, CheckDisplay, Release, Unmark, WaitCancel, Answer, Leave, DropResult
<1>3. ASSUME NEW r \in Requests, CancelIoEx(r) \/ Callback(r) PROVE Rest'
  BY <1>3 DEF CancelIoEx, Callback, CbSignals, CbClaims, CbCompletes, CbStores, CbNotifies
<1>4. ASSUME NEW a \in Actors, Invalidate(a) PROVE Rest'
  BY <1>4 DEF Invalidate, InvalidateResume, InvalidateGeneration, InvalidateCancel
<1>5. CASE Handlers
  BY <1>5 DEF Handlers, ResumeEnds, DisplayOffAborts, DisplayOffEnds, Join
<1>6. CASE Surroundings
  BY <1>6 DEF Surroundings, SuspendBegins, LockBegins, ShutdownBegins, ResumeBegins,
     DisplayOffBegins, D0Entry, GraceEnds, Veto, Reset, SepReports, Network
<1>7. CASE UNCHANGED vars
  BY <1>7 DEF vars
<1> QED
  BY <1>1, <1>2, <1>3, <1>4, <1>5, <1>6, <1>7 DEF Next

TypeInv == SlotInv /\ TrackInv /\ FreshInv /\ NumInv /\ Flags /\ Rest

LEMMA TypeInit == Init => TypeInv
<1> SUFFICES ASSUME Init PROVE TypeInv
  OBVIOUS
<1>1. SlotInv
  BY SlotInit
<1>2. TrackInv /\ FreshInv
  BY PairInit, FreshInit DEF PairInv
<1>3. NumInv
  BY BoundAssumption DEF Init, NumInv, Due, Actors, Invalidating
<1>4. Flags
  BY DEF Init, Flags
<1>5. Rest
  BY DEF Init, Rest, MuHolders
<1> QED
  BY <1>1, <1>2, <1>3, <1>4, <1>5 DEF TypeInv

\* Every variable has its type: the generation never outruns the boundaries that have begun,
\* and no request is completed more often than the type allows.
THEOREM TypeCorrect == Spec => []TypeOK
<1>1. TypeInv /\ [Next]_vars => TypeInv'
  BY SlotStep, TrackStep, FreshStep, NumStep, FlagsStep, RestStep DEF TypeInv, FreshInv
<1>2. TypeInv => TypeOK
  <2> SUFFICES ASSUME TypeInv PROVE TypeOK
    OBVIOUS
  <2>1. Shape /\ ActorShape /\ Flags /\ Rest
    BY DEF TypeInv, FreshInv, TrackInv
  <2>2. completions \in [Requests -> 0 .. 2]
    <3>1. \A r \in Requests : completions[r] \in 0 .. 1
      <4> TAKE r \in Requests
      <4>1. pc[r] \in Pcs /\ cb[r] \in CbPcs
        BY <2>1 DEF Shape
      <4> QED
        BY <4>1 DEF TypeInv, TrackInv, Tracked, CbPcs
    <3> QED
      BY <2>1, <3>1 DEF Shape
  <2>3. generation \in 0 .. MaxBoundaries /\ boundaries \in 0 .. MaxBoundaries
    <3>1. /\ Due("power") \in {0, 1} /\ Due("window") \in {0, 1} /\ Due("pnp") \in {0, 1}
      BY DEF Due
    <3> HIDE DEF Due
    <3> QED
      BY <3>1, BoundAssumption DEF TypeInv, NumInv
  <2>4. handled \in [Requests -> 0 .. MaxBoundaries]
    <3>1. /\ handled \in [Requests -> Nat]
          /\ \A r \in Requests : handled[r] <= generation
      BY DEF TypeInv, FreshInv, AgeInv
    <3>2. \A r \in Requests : handled[r] \in 0 .. MaxBoundaries
      BY <2>3, <3>1, BoundAssumption
    <3> QED
      BY <3>1, <3>2
  <2>5. slot \in Requests \cup {NoSlot}
    BY DEF TypeInv, SlotInv
  <2> QED
    BY <2>1, <2>2, <2>3, <2>4, <2>5 DEF Shape, ActorShape, Flags, Rest, TypeOK, CbPcs
<1> QED
  BY <1>1, <1>2, TypeInit, PTL DEF Spec
=============================================================================
