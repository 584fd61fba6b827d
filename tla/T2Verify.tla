------------------------------ MODULE T2Verify ------------------------------
(***************************************************************************)
(* One BiometricKit session: VerificationEngine::Verify on a BridgeXpc      *)
(* Connection, repeated by the capture loop of umdf/Queue.cpp with a new    *)
(* connection each time, against the T2 on the other end.                   *)
(*                                                                         *)
(* The verify worker is the only thread that touches its Connection         *)
(* (VerificationEngine.cpp 495), so it is one sequential process; what      *)
(* interleaves with it is the T2 - which answers, sends events when it      *)
(* likes, keeps the events nobody took and finishes the images it has - the *)
(* loss of the connection, the cancel event, changes of the enrolled        *)
(* identities, and time-outs, which may strike at any wait.                 *)
(*                                                                         *)
(* Time is the T2's own: the ordinal of the events it emits.  An image is   *)
(* known by the ordinal of its ImageCaptured event.                         *)
(***************************************************************************)
EXTENDS Integers, Sequences, FiniteSets

CONSTANTS
  Ids,          \* identity records that may be enrolled
  Foreign,      \* those of Ids that belong to another macOS user
  NoId,         \* "no identity": a finger that matches nothing
  MaxSessions,  \* bound on the calls of Verify
  MaxIncidents, \* bound on incidents of the identities and faults together
  MaxUnread,    \* bound on the frames that are on their way to us
  SetUp,        \* set-up commands of a session (a bound: all five in the code)
  ShortVerify,  \* the GUI setting: skip ResetSensor and LoadCalibration
  LiveChoices,  \* values VerifyConfig::requireLiveTouchEvidence may have
  ArmIsKept     \* may the T2 deliver to a later connection a status 90 of an earlier one?

ASSUME IdsAssumption == IsFiniteSet(Ids) /\ Foreign \subseteq Ids /\ NoId \notin Ids
ASSUME BoundsAssumption == {MaxSessions, MaxIncidents, MaxUnread} \subseteq Nat
ASSUME SetUpAssumption == SetUp \subseteq {"version", "client", "reset", "fdr", "calibrate"}
ASSUME FlagsAssumption == {ShortVerify, ArmIsKept} \subseteq BOOLEAN
ASSUME LiveAssumption == LiveChoices \subseteq BOOLEAN /\ LiveChoices # {}

VARIABLES
  \* Verify: where it is, the command it is at, its verdict so far and the
  \* event it is looking at; requireLiveTouchEvidence; the cancel event
  pc, cmd, outcome, got, live, cancel, sessions,
  \* its evidence: highestOrdinalSeen, barrierOrdinal, ordFingerOn,
  \* ordImageCaptured, imageCaptureTs (0 for std::nullopt)
  highest, barrier, finger, captured, imageTs,
  \* the identity lists it has read
  snap,
  \* Queue.cpp: g_lastObservedSepOrdinal, g_forceLongVerify
  mark, forceLong,
  \* the Connection: TCP state, pendingEvents_, frames on their way to us and
  \* requests on their way to the T2, the event taken off the wire last
  conn, pending, wire, reqs, last,
  \* the T2: its clock, is the sensor armed, the request it has acted on but
  \* not answered, is a finger down, images it still processes, the one of them
  \* whose ImageWasAccepted it has sent (0 for none), events it has not
  \* delivered, the enrolled identities
  clock, armed, serving, touching, images, noted, backlog, inv, incidents,
  \* ghosts: the ordinal at which this session's StartMatch armed the sensor, the
  \* last image taken since, the images that have been reported as a Match
  armedAt, shotAt, matched

control  == <<pc, cmd, outcome, got, live, cancel, sessions>>
evidence == <<highest, barrier, finger, captured, imageTs>>
queue    == <<mark, forceLong>>
link     == <<conn, pending, wire, reqs, last>>
t2       == <<clock, armed, serving, touching, images, noted, backlog, inv>>
device   == <<t2, incidents>>
ghosts   == <<armedAt, shotAt, matched>>
vars     == <<control, evidence, snap, queue, link, device, ghosts>>

Lists    == {"ids1", "glob1", "ids2", "glob2", "ids3", "glob3"}
Outcomes == {"Match", "NoMatch", "Timeout", "TransportError", "Rejected", "Malformed",
             "Cancelled", "Unstable"}
Codes    == {"armed", "fingerOn", "captured", "accepted", "match"}

Event(code, ord, cap, id) == [code |-> code, ord |-> ord, cap |-> cap, id |-> id]
NoEvent == Event("none", 0, 0, NoId)

\* A frame is an event or the reply to a request; a reply has a status and, for
\* the list commands, the list.
EventFrame(e)       == [event |-> TRUE, e |-> e, to |-> "none", ok |-> TRUE, list |-> {}]
Reply(to, ok, list) == [event |-> FALSE, e |-> NoEvent, to |-> to, ok |-> ok, list |-> list]

Greater(a, b) == IF a > b THEN a ELSE b

Init ==
  /\ pc = "idle" /\ cmd = "none" /\ outcome = "Timeout" /\ got = NoEvent
  /\ live = TRUE /\ cancel = FALSE /\ sessions = 0
  /\ highest = 0 /\ barrier = 0 /\ finger = 0 /\ captured = 0 /\ imageTs = 0
  /\ snap = [l \in Lists |-> {}]
  /\ mark = 0 /\ forceLong = FALSE
  /\ conn = "none" /\ pending = <<>> /\ wire = <<>> /\ reqs = <<>> /\ last = NoEvent
  /\ clock = 0 /\ armed = FALSE /\ serving = "none" /\ touching = FALSE
  /\ images = <<>> /\ noted = 0 /\ backlog = {} /\ inv = Ids /\ incidents = 0
  /\ armedAt = 0 /\ shotAt = 0 /\ matched = {}

(***************************************************************************)
(* The commands of a session.                                              *)
(***************************************************************************)
LongPlan == <<"version", "client", "reset", "cancel1", "fdr", "calibrate", "ids1",
              "glob1", "ids2", "glob2", "start">>

\* Short verify leaves out ResetSensor and LoadCalibration, unless the last
\* verdict was NoMatch.
Skipped(c) ==
  \/ c \in {"reset", "fdr", "calibrate"} /\ ShortVerify /\ ~forceLong
  \/ c \in {"version", "client", "reset", "fdr", "calibrate"} \ SetUp

\* The first command of this session after the n-th of the long plan.
FirstAfter(n) ==
  LongPlan[CHOOSE i \in 1..Len(LongPlan) :
             i > n /\ ~Skipped(LongPlan[i]) /\ \A j \in n + 1..i - 1 : Skipped(LongPlan[j])]

Follower(c) == FirstAfter(CHOOSE i \in 1..Len(LongPlan) : LongPlan[i] = c)

Call(c)  == pc' = "send" /\ cmd' = c

Leave(o) == pc' = "return" /\ outcome' = o /\ cmd' = "none"

\* Commands before which the cancel event is looked at.
Interruptible(c) == c \notin {"cancel2", "ids3", "glob3"}

\* After the match loop every way out looks at the cancel event once more.
Conclude(o) == Leave(IF cancel THEN "Cancelled" ELSE o)

\* After the last Cancel: attest the identities unless there is no point.
CancelSent ==
  IF cancel \/ outcome = "TransportError" THEN Conclude(outcome)
  ELSE Call("ids3") /\ UNCHANGED outcome

\* A command that was not answered, or not with success.
Fails ==
  CASE cmd = "cancel1"           -> Call(Follower(cmd)) /\ UNCHANGED outcome
    [] cmd = "cancel2"           -> CancelSent
    [] cmd = "start"             -> Leave("TransportError")
    [] OTHER                     -> Conclude("TransportError")

\* Both user lists and both global lists before StartMatch agree, leaving aside
\* the records of other users (SamePerUserSet, ConfiguredGlobalIdentities).
Configured(l) == snap[l] \ Foreign
Stable ==
  /\ Configured("glob1") = Configured("glob2")
  /\ Configured("glob1") = snap["ids1"]
  /\ Configured("glob2") = snap["ids2"]

\* Mutant: only the user's own list is read again.
AttestedByUserList(post) == snap["ids3"] = snap["ids1"]

\* The lists read after the match equal the first ones, other users' included
\* (SameGlobalInventory).
Attested(post) ==
  /\ snap["ids3"] = Configured("glob1")
  /\ snap["ids1"] = Configured("glob1")
  /\ post = snap["glob1"]

Succeeds(f) ==
  /\ snap' = IF cmd \in Lists THEN [snap EXCEPT ![cmd] = f.list] ELSE snap
  /\ CASE cmd = "ids1"    -> IF cancel THEN Leave("Cancelled")
                             ELSE IF f.list = {} THEN Leave("Malformed")
                             ELSE Call(Follower(cmd)) /\ UNCHANGED outcome
       [] cmd = "glob2"   -> IF cancel THEN Leave("Cancelled")
                             ELSE pc' = "compare" /\ UNCHANGED <<cmd, outcome>>
       [] cmd = "start"   -> pc' = "loop" /\ cmd' = "none" /\ outcome' = "Timeout"
       [] cmd = "cancel2" -> CancelSent
       [] cmd = "ids3"    -> Call("glob3") /\ UNCHANGED outcome
       [] cmd = "glob3"   -> Conclude(IF Attested(f.list) THEN outcome ELSE "Unstable")
       [] OTHER           -> Call(Follower(cmd)) /\ UNCHANGED outcome

\* Something from outside: a touch, a change of the identities or a fault.
Incident == incidents < MaxIncidents /\ incidents' = incidents + 1

(***************************************************************************)
(* The capture loop: a new connection and a new engine for each session.    *)
(***************************************************************************)
Begin ==
  /\ pc = "idle" /\ sessions < MaxSessions
  /\ sessions' = sessions + 1
  /\ Call(FirstAfter(0)) /\ conn' = "up"
  /\ UNCHANGED <<outcome, got, live, cancel, evidence, snap, queue, pending, wire, reqs,
                 last, device, ghosts>>

\* Mutant: the mark starts again with the session.
ObserveNothing == mark' = 0

\* ObserveSepOrdinal: everything this session has seen is old from now on.
ObserveSepOrdinal == mark' = Greater(mark, highest)

UnreadEvents == {wire[i].e : i \in {j \in 1..Len(wire) : wire[j].event}}

\* What the T2 still has for the next connection: what it has not delivered,
\* with or without the events whose acknowledgement it may not have received:
\* those still on the wire and the last one taken off it.
Redelivered(events) == {e \in events : ArmIsKept \/ e.code # "armed"}

Finish ==
  /\ pc = "return"
  /\ ObserveSepOrdinal
  /\ forceLong' = CASE outcome = "NoMatch" -> TRUE
                    [] outcome \in {"Match", "Timeout"} -> FALSE
                    [] OTHER -> forceLong
  /\ pc' = "idle" /\ cmd' = "none" /\ outcome' = "Timeout" /\ got' = NoEvent /\ cancel' = FALSE
  /\ highest' = 0 /\ barrier' = 0 /\ finger' = 0 /\ captured' = 0 /\ imageTs' = 0
  /\ snap' = [l \in Lists |-> {}]
  /\ conn' = "none" /\ pending' = <<>> /\ wire' = <<>> /\ reqs' = <<>> /\ last' = NoEvent
  /\ serving' = "none" /\ armedAt' = 0 /\ shotAt' = 0
  /\ \E kept \in {{}, UnreadEvents \cup ({last} \ {NoEvent})} :
       backlog' = Redelivered(kept \cup backlog)
  /\ matched' = IF outcome = "Match" THEN matched \cup {got.cap} ELSE matched
  /\ live' = TRUE
  /\ UNCHANGED <<sessions, clock, armed, touching, images, noted, inv, incidents>>

(***************************************************************************)
(* A command: discard, write, read until its reply.                         *)
(***************************************************************************)
Interrupted ==
  /\ pc = "send" /\ cancel /\ Interruptible(cmd)
  /\ Leave("Cancelled")
  /\ UNCHANGED <<got, live, cancel, sessions, evidence, snap, queue, link, device, ghosts>>

\* DiscardPendingEvents before StartMatch: their content is ignored, their
\* ordinals are not.
DiscardPendingEvents ==
  IF cmd = "start"
  THEN /\ pending' = <<>>
       /\ highest' = IF pending = <<>> THEN highest
                     ELSE CHOOSE o \in {highest} \cup {pending[i].ord : i \in 1..Len(pending)} :
                            /\ o >= highest
                            /\ \A i \in 1..Len(pending) : o >= pending[i].ord
  ELSE UNCHANGED <<pending, highest>>

Send ==
  /\ pc = "send" /\ ~(cancel /\ Interruptible(cmd))
  /\ DiscardPendingEvents
  /\ IF conn = "up"                           \* WriteFrame
     THEN reqs' = Append(reqs, cmd) /\ pc' = "read" /\ UNCHANGED <<cmd, outcome>>
     ELSE Fails /\ UNCHANGED reqs
  /\ UNCHANGED <<got, live, cancel, sessions, barrier, finger, captured, imageTs, snap,
                 queue, conn, wire, last, device, ghosts>>

Rest == UNCHANGED <<got, live, cancel, sessions, evidence, queue, conn, reqs, t2, ghosts>>

\* An event on the way to the reply is acknowledged and kept for WaitForEvent
\* (after the match loop there is no WaitForEvent to come).
ReadEvent ==
  /\ pc = "read" /\ wire # <<>> /\ Head(wire).event
  /\ wire' = Tail(wire) /\ last' = Head(wire).e
  /\ \/ /\ pending' = IF Interruptible(cmd) THEN Append(pending, Head(wire).e) ELSE pending
        /\ UNCHANGED <<pc, cmd, outcome, incidents>>
     \/ Incident /\ Fails /\ UNCHANGED pending            \* AcknowledgeEvent failed
  /\ UNCHANGED snap /\ Rest

\* A reply to an earlier command, which was given up, is skipped.
ReadStray ==
  /\ pc = "read" /\ wire # <<>> /\ ~Head(wire).event /\ Head(wire).to # cmd
  /\ wire' = Tail(wire)
  /\ UNCHANGED <<pc, cmd, outcome, snap, pending, last, incidents>> /\ Rest

ReadReply ==
  /\ pc = "read" /\ wire # <<>> /\ ~Head(wire).event /\ Head(wire).to = cmd
  /\ wire' = Tail(wire)
  /\ \/ Head(wire).ok /\ Succeeds(Head(wire))
     \/ /\ ~Head(wire).ok                     \* StatusBlob with a non-zero status
        /\ IF cmd = "start" THEN Leave("Rejected") ELSE Fails
        /\ UNCHANGED snap
  /\ UNCHANGED <<pending, last, incidents>> /\ Rest

\* Deadline, torn frame or closed connection: connectionLost_ is not set here.
\* A deadline that passes although a frame is there is left out: it is the same as
\* one that passes just before the frame comes.
ReadFails ==
  /\ pc = "read" /\ (wire = <<>> \/ conn = "dead") /\ Fails
  /\ UNCHANGED <<snap, pending, wire, last, incidents>> /\ Rest

Compare ==
  /\ pc = "compare"
  /\ IF Stable THEN Call("start") /\ UNCHANGED outcome ELSE Leave("Unstable")
  /\ UNCHANGED <<snap, pending, wire, last, incidents>> /\ Rest

(***************************************************************************)
(* The match loop: WaitForEvent and what Verify makes of an event.          *)
(***************************************************************************)
\* WaitForEvent returned false, or the window is over.
Ends(o) == outcome' = (IF cancel THEN "Cancelled" ELSE o) /\ Call("cancel2")

\* What nobody looks at after the loop is forgotten: the evidence, and the events
\* still waiting in pendingEvents_.
ForgetOrder == barrier' = 0 /\ finger' = 0 /\ captured' = 0 /\ pending' = <<>>

Forget == ForgetOrder /\ imageTs' = 0

\* An event that waits in pendingEvents_ comes before the socket.
DeliverPending ==
  /\ pc = "loop" /\ ~cancel /\ pending # <<>>
  /\ got' = Head(pending) /\ pending' = Tail(pending) /\ pc' = "handle"
  /\ UNCHANGED <<cmd, outcome, live, cancel, sessions, evidence, snap, queue, conn, wire,
                 reqs, last, device, ghosts>>

\* Mutant: the socket is read before the retained events are delivered.
SocketFirst == TRUE

NothingRetained == pending = <<>>

DeliverFromWire ==
  /\ pc = "loop" /\ ~cancel /\ NothingRetained
  /\ wire # <<>> /\ wire' = Tail(wire)
  /\ IF ~Head(wire).event                     \* a stray reply: wait again
     THEN UNCHANGED <<pc, cmd, outcome, got, last, evidence, pending, incidents>>
     ELSE /\ last' = Head(wire).e
          /\ \/ /\ got' = Head(wire).e /\ pc' = "handle"
                /\ UNCHANGED <<cmd, outcome, evidence, pending, incidents>>
             \/ /\ Incident                        \* AcknowledgeEvent failed
                /\ Ends("Timeout") /\ Forget
                /\ UNCHANGED <<got, highest>>
  /\ UNCHANGED <<live, cancel, sessions, snap, queue, conn, reqs, t2, ghosts>>

\* The window is over, the cancel event is set, or - connectionLost_ - the
\* connection is found closed.
LoopEnds ==
  /\ pc = "loop"
  /\ \/ (cancel \/ wire = <<>>) /\ Ends("Timeout")
     \/ conn = "dead" /\ NothingRetained /\ Ends("TransportError")
  /\ Forget
  /\ UNCHANGED <<got, live, cancel, sessions, highest, snap, queue, conn, wire, reqs, last,
                 device, ghosts>>

\* This session armed the sensor, then saw a finger, then captured an image,
\* then matched; and the matched image was captured after the arming.
Ordered ==
  /\ barrier # 0 /\ finger # 0 /\ captured # 0
  /\ barrier < finger /\ finger < captured /\ captured < got.ord

\* Mutant: the time of the image is not asked for.
ImageTaken == TRUE

ImageFresh == imageTs = 0 \/ (barrier # 0 /\ imageTs > barrier)

AlreadySeen == got.ord <= mark

\* A status event: the first 90 is the barrier, what is not younger is backlog.
Observe ==
  IF got.code = "armed" /\ barrier = 0
  THEN barrier' = got.ord /\ UNCHANGED <<finger, captured, imageTs>>
  ELSE /\ barrier' = barrier
       /\ finger'   = IF /\ got.code = "fingerOn" /\ finger = 0
                         /\ barrier # 0 /\ got.ord > barrier
                      THEN got.ord ELSE finger
       /\ captured' = IF /\ got.code = "captured" /\ finger # 0 /\ captured = 0
                         /\ got.ord > finger
                      THEN got.ord ELSE captured
       /\ imageTs'  = IF got.code = "accepted" /\ barrier # 0 /\ got.ord > barrier
                      THEN got.cap ELSE imageTs

HandleStatus ==
  /\ pc = "handle" /\ got.code # "match"
  /\ highest' = Greater(highest, got.ord)
  /\ Observe
  /\ pc' = "loop" /\ got' = NoEvent
  /\ UNCHANGED <<cmd, outcome, live, cancel, sessions, snap, queue, link, device, ghosts>>

\* ParseMatchResult looks for the identities sent with StartMatch; a Match of
\* an event already seen, or without live evidence, counts as NoMatch.  The flag
\* requireLiveTouchEvidence is read here only, so it is chosen here.
HandleMatchResult ==
  /\ pc = "handle" /\ got.code = "match"
  /\ highest' = Greater(highest, got.ord)
  /\ live' \in LiveChoices
  /\ outcome' = IF \/ got.id \notin snap["ids1"] \/ AlreadySeen
                   \/ live' /\ ~(Ordered /\ ImageFresh)
                THEN "NoMatch" ELSE "Match"
  /\ got' = IF outcome' = "Match" THEN got ELSE NoEvent
  /\ imageTs' = IF outcome' = "Match" THEN imageTs ELSE 0   \* kept for the properties
  /\ Call("cancel2") /\ ForgetOrder
  /\ UNCHANGED <<cancel, sessions, snap, queue, conn, wire, reqs, last, device, ghosts>>

\* The worker, without the capture loop's decision to start another session.
Worker ==
  \/ Interrupted \/ Send \/ ReadEvent \/ ReadStray \/ ReadReply \/ ReadFails \/ Compare
  \/ DeliverPending \/ DeliverFromWire \/ LoopEnds \/ HandleStatus \/ HandleMatchResult
  \/ Finish

(***************************************************************************)
(* The T2 (external), and what else happens around the worker.              *)
(***************************************************************************)
Room == Len(wire) < MaxUnread

\* New events go out at once, unless older ones are still to be delivered.
Emit(events) ==
  /\ Room /\ clock' = clock + Len(events)
  /\ IF conn = "up" /\ backlog = {}
     THEN /\ wire' = wire \o [i \in 1..Len(events) |-> EventFrame(events[i])]
          /\ UNCHANGED backlog
     ELSE /\ backlog' = backlog \cup {events[i] : i \in 1..Len(events)}
          /\ UNCHANGED wire

\* What the T2 has no part in.
ours == <<control, evidence, snap, queue, pending, last, matched>>

\* StartMatch is acted on, then answered; events may come in between.
StartArms ==
  /\ reqs # <<>> /\ Head(reqs) = "start" /\ serving = "none"
  /\ armed' = TRUE /\ serving' = "start" /\ touching' = FALSE
  /\ Emit(<<Event("armed", clock + 1, 0, NoId)>>) /\ armedAt' = clock + 1 /\ shotAt' = 0
  /\ UNCHANGED <<ours, conn, reqs, images, noted, inv, incidents>>

\* Reset and Cancel take effect on the sensor, but not on an image it has taken.
\* A refusal is to the worker what no answer is, so only StartMatch is refused.
Answers ==
  /\ Room /\ reqs # <<>> /\ (Head(reqs) = "start" => serving = "start")
  /\ reqs' = Tail(reqs) /\ serving' = "none"
  /\ wire' = Append(wire, Reply(Head(reqs), TRUE,
                CASE Head(reqs) \in {"ids1", "ids2", "ids3"}    -> inv \ Foreign
                  [] Head(reqs) \in {"glob1", "glob2", "glob3"} -> inv
                  [] OTHER -> {}))
  /\ armed' = (armed /\ Head(reqs) \notin {"reset", "cancel1", "cancel2"})
  /\ touching' = (touching /\ armed')
  /\ UNCHANGED <<ours, conn, clock, images, noted, backlog, inv, incidents, armedAt, shotAt>>

StartRejected ==
  /\ Room /\ reqs # <<>> /\ Head(reqs) = "start" /\ serving = "none" /\ Incident
  /\ reqs' = Tail(reqs) /\ wire' = Append(wire, Reply("start", FALSE, {}))
  /\ UNCHANGED <<ours, conn, t2, armedAt, shotAt>>

\* What waits is delivered in the order of emission.
Delivers ==
  /\ Room /\ conn = "up"
  /\ \E e \in backlog :
       /\ \A f \in backlog : e.ord <= f.ord
       /\ wire' = Append(wire, EventFrame(e)) /\ backlog' = backlog \ {e}
  /\ UNCHANGED <<ours, conn, reqs, clock, armed, serving, touching, images, noted, inv,
                 incidents, armedAt, shotAt>>

FingerOn ==
  /\ armed /\ ~touching /\ Incident
  /\ touching' = TRUE
  /\ Emit(<<Event("fingerOn", clock + 1, 0, NoId)>>)
  /\ UNCHANGED <<ours, conn, reqs, armed, serving, images, noted, inv, armedAt, shotAt>>

Captures ==
  /\ armed /\ touching
  /\ touching' = FALSE /\ images' = Append(images, clock + 1) /\ shotAt' = clock + 1
  /\ Emit(<<Event("captured", clock + 1, clock + 1, NoId)>>)
  /\ UNCHANGED <<ours, conn, reqs, armed, serving, noted, inv, incidents, armedAt>>

\* Images are processed one after the other, armed or not: ImageWasAccepted with
\* the time of capture - if it comes at all and its body is long enough to hold
\* that time - and later the match_result, for whichever finger it was.
Accepts ==
  /\ images # <<>> /\ noted # Head(images)
  /\ noted' = Head(images)
  /\ Emit(<<Event("accepted", clock + 1, Head(images), NoId)>>)
  /\ UNCHANGED <<ours, conn, reqs, armed, serving, touching, images, inv, incidents, armedAt,
                 shotAt>>

\* To Verify a finger of another user is no match: its identity was not sent.
Judges ==
  /\ images # <<>> /\ images' = Tail(images) /\ noted' = 0
  /\ \E id \in (Ids \ Foreign) \cup {NoId} :
       Emit(<<Event("match", clock + 1, Head(images), id)>>)
  /\ UNCHANGED <<ours, conn, reqs, armed, serving, touching, inv, incidents, armedAt, shotAt>>

\* The worker only notices where it reads or writes.
Drops ==
  /\ conn = "up" /\ Incident
  /\ conn' = "dead" /\ reqs' = <<>> /\ serving' = "none"
  /\ UNCHANGED <<ours, wire, clock, armed, touching, images, noted, backlog, inv, armedAt, shotAt>>

IdentitiesChange ==
  /\ Incident
  /\ \E i \in Ids : inv' = IF i \in inv THEN inv \ {i} ELSE inv \cup {i}
  /\ UNCHANGED <<ours, conn, wire, reqs, clock, armed, serving, touching, images, noted,
                 backlog, armedAt, shotAt>>

\* Windows cancels the request, or a suspend, lock or shutdown interrupts it.
SignalCancel ==
  /\ pc \notin {"idle", "return"} /\ ~cancel /\ Incident
  /\ cancel' = TRUE
  /\ UNCHANGED <<pc, cmd, outcome, got, live, sessions, evidence, snap, queue, link, t2,
                 ghosts>>

T2 == \/ StartArms \/ Answers \/ StartRejected \/ Delivers \/ FingerOn \/ Captures
      \/ Accepts \/ Judges \/ Drops \/ IdentitiesChange

\* What the T2 does between two waits of the worker is, to the worker, what it does
\* in the wait that follows.
Waiting == pc \in {"idle", "read", "loop"}

Next == Begin \/ Worker \/ (Waiting /\ T2) \/ SignalCancel

Spec == Init /\ [][Next]_vars

(***************************************************************************)
(* Properties.                                                             *)
(***************************************************************************)
Cmds == {LongPlan[i] : i \in 1..Len(LongPlan)} \cup {"cancel2", "ids3", "glob3"}
EventSet == [code : Codes \cup {"none"}, ord : Nat, cap : Nat, id : Ids \cup {NoId}]
FrameSet == [event : BOOLEAN, e : EventSet, to : Cmds \cup {"none"}, ok : BOOLEAN,
             list : SUBSET Ids]

\* There is a current command exactly while one is sent, read for or looked at.
ControlTypes ==
  /\ pc \in {"idle", "send", "read", "compare", "loop", "handle", "return"}
  /\ cmd \in Cmds \cup {"none"} /\ (pc \in {"send", "read", "compare"} <=> cmd \in Cmds)
  /\ outcome \in Outcomes
FlagTypes ==
  /\ {live, cancel, forceLong, armed, touching} \subseteq BOOLEAN
  /\ serving \in {"none", "start"} /\ conn \in {"none", "up", "dead"}
NumberTypes ==
  /\ {highest, barrier, finger, captured, imageTs, mark, clock, noted, armedAt, shotAt} \subseteq Nat
  /\ sessions \in 0..MaxSessions /\ incidents \in 0..MaxIncidents
EventTypes ==
  /\ {got, last} \cup backlog \subseteq EventSet
  /\ pending \in Seq(EventSet) /\ wire \in Seq(FrameSet)
DataTypes ==
  /\ snap \in [Lists -> SUBSET Ids] /\ inv \subseteq Ids
  /\ reqs \in Seq(Cmds) /\ images \in Seq(Nat) /\ matched \subseteq Nat

\* Every variable has its type.
TypeOK == ControlTypes /\ FlagTypes /\ NumberTypes /\ EventTypes /\ DataTypes

\* No Match without a touch of this session: an image was taken after this session's
\* StartMatch had armed the sensor, whatever older images and results the T2 still
\* delivers; and if an ImageWasAccepted with a time has come after the barrier, the
\* matched image itself was taken after the arming (VerificationEngine.cpp 681-712).
OnlyLiveTouchMatches ==
  live /\ pc = "return" /\ outcome = "Match" =>
    /\ armedAt # 0 /\ shotAt > armedAt
    /\ imageTs # 0 => got.cap > armedAt

\* "and the matched image itself was captured after the barrier"
\* (VerificationEngine.cpp 685): also when no ImageWasAccepted told its time.
MatchedImageIsLive ==
  live /\ pc = "return" /\ outcome = "Match" => got.cap > armedAt

\* One touch unlocks once: no image is reported as a Match a second time, not even
\* if the T2 delivers its result again (VerificationEngine.cpp 658-679).
EachTouchOnce ==
  pc = "return" /\ outcome = "Match" => got.cap \notin matched

\* The match loop sees events in the order the T2 emitted them, those retained
\* while a command waited included: each is younger than all before it
\* (Connection.cpp 1014-1028).
InOrder == pc = "handle" => got.ord > highest

\* A Match is for an identity that every list of the session names, so it was
\* enrolled before StartMatch and still was when the match had been reported
\* (VerificationEngine.cpp 734-761).
MatchIsEnrolled ==
  pc = "return" /\ outcome = "Match" =>
    \A l \in Lists : got.id \in snap[l]

\* What this session takes for its barrier is the status 90 of its own StartMatch
\* (VerificationEngine.cpp 537-539).
BarrierIsOwn == pc = "loop" /\ barrier # 0 => barrier = armedAt

\* highestOrdinalSeen covers every event that was acknowledged
\* (VerificationEngine.h 215-219).
HighestCoversAcked == pc = "return" => last.ord <= highest
=============================================================================
