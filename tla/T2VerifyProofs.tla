---------------------------- MODULE T2VerifyProofs ----------------------------
(***************************************************************************)
(* What holds of T2Verify for any set of identities, any number of sessions *)
(* and incidents and any set-up: a Match is for an identity that every list *)
(* of the session names; the worker sees the events in the order in which   *)
(* the T2 emitted them; no image is reported as a Match twice; and, if the  *)
(* T2 keeps no status 90 for a later connection, a Match is for an image    *)
(* taken after this session's StartMatch.                                   *)
(***************************************************************************)
EXTENDS T2Verify, SequenceTheorems, TLAPS

\* The commands before the comparison of the lists, and those after the match loop.
Before == {"version", "client", "reset", "cancel1", "fdr", "calibrate", "ids1", "glob1",
           "ids2", "glob2"}
After  == {"cancel2", "ids3", "glob3"}

Calling == pc \in {"send", "read"}

\* Lists are compared before StartMatch, and nothing reads one of them again until the
\* match loop is over.
Compared ==
  /\ snap = [l \in Lists |-> snap[l]]
  /\ Calling => cmd \in Before \cup {"start"} \cup After
  /\ pc \in {"loop", "handle"} \/ (Calling /\ cmd \notin Before) => Stable

\* A Match is concluded in the match loop alone, for an identity of the first list; then
\* the lists are read again.
Concluded ==
  /\ outcome = "Match" => pc = "return" \/ (Calling /\ cmd \in After)
  /\ Calling /\ outcome = "Match" => got.id \in snap["ids1"]

IInv == Compared /\ Concluded /\ MatchIsEnrolled

\* Of the commands before the comparison none is followed by StartMatch.
LEMMA FirstCommand ==
  ASSUME NEW n \in 0..9
  PROVE  FirstAfter(n) \in Before
  <1> DEFINE Next1(i) == /\ i > n /\ ~Skipped(LongPlan[i])
                         /\ \A j \in n + 1..i - 1 : Skipped(LongPlan[j])
  <1>1. /\ Len(LongPlan) = 11
        /\ LongPlan[1] = "version" /\ LongPlan[2] = "client" /\ LongPlan[3] = "reset"
        /\ LongPlan[4] = "cancel1" /\ LongPlan[5] = "fdr" /\ LongPlan[6] = "calibrate"
        /\ LongPlan[7] = "ids1" /\ LongPlan[8] = "glob1" /\ LongPlan[9] = "ids2"
        /\ LongPlan[10] = "glob2" /\ LongPlan[11] = "start"
    BY DEF LongPlan
  <1>2. /\ ~Skipped("cancel1") /\ ~Skipped("ids1") /\ ~Skipped("glob1") /\ ~Skipped("ids2")
        /\ ~Skipped("glob2")
    BY DEF Skipped
  <1>3. \E i \in 1..11 : Next1(i)
    <2>1. CASE n \in {6, 7, 8, 9}
      <3>1. Next1(n + 1)
        BY <1>1, <1>2, <2>1
      <3> QED
        BY <3>1, <2>1
    <2>2. CASE n = 5
      BY <1>1, <1>2, <2>2
    <2>3. CASE n = 4
      BY <1>1, <1>2, <2>3
    <2>4. CASE n = 3
      BY <1>1, <1>2, <2>4
    <2>5. CASE n = 2
      BY <1>1, <1>2, <2>5
    <2>6. CASE n = 1
      BY <1>1, <1>2, <2>6
    <2>7. CASE n = 0
      BY <1>1, <1>2, <2>7
    <2> QED
      BY <2>1, <2>2, <2>3, <2>4, <2>5, <2>6, <2>7
  <1>4. PICK i \in 1..11 : Next1(i) /\ FirstAfter(n) = LongPlan[i]
    <2> DEFINE i == CHOOSE k \in 1..11 : Next1(k)
    <2>1. i \in 1..11 /\ Next1(i)
      BY <1>3
    <2>2. FirstAfter(n) = LongPlan[i]
      BY <1>1 DEF FirstAfter
    <2> QED
      BY <2>1, <2>2
  <1>5. i # 11
    BY <1>1, <1>2, <1>4
  <1> QED
    BY <1>1, <1>4, <1>5 DEF Before

LEMMA NextCommand ==
  ASSUME NEW c \in Before \ {"glob2"}
  PROVE  Follower(c) \in Before
  <1>1. \E i \in 1..9 : LongPlan[i] = c
    BY DEF LongPlan, Before
  <1>2. \A i \in 1..Len(LongPlan) : LongPlan[i] = c => i \in 0..9
    BY DEF LongPlan, Before
  <1>3. Len(LongPlan) = 11
    BY DEF LongPlan
  <1> DEFINE p == CHOOSE i \in 1..Len(LongPlan) : LongPlan[i] = c
  <1>4. p \in 0..9
    BY <1>1, <1>2, <1>3
  <1>5. Follower(c) = FirstAfter(p)
    BY DEF Follower
  <1> HIDE DEF p
  <1> QED
    BY <1>4, <1>5, FirstCommand

-----------------------------------------------------------------------------
(* What the ways on from a state do to the invariant. *)

LEMMA InitIInv == Init => IInv
  BY DEF Init, IInv, Compared, Concluded, MatchIsEnrolled, Calling, Lists

\* Stable looks at the four lists read before StartMatch, and at nothing else.
LEMMA StableKept ==
  ASSUME Stable, \A l \in {"ids1", "glob1", "ids2", "glob2"} : snap'[l] = snap[l]
  PROVE  Stable'
  BY DEF Stable, Configured

LEMMA Idle ==
  ASSUME IInv, UNCHANGED <<pc, cmd, outcome, got, snap>>
  PROVE  IInv'
  BY DEF IInv, Compared, Concluded, MatchIsEnrolled, Calling, Stable, Configured

\* The next frame of the same command.
LEMMA ReadOn ==
  ASSUME IInv, Calling, Calling', UNCHANGED <<cmd, outcome, got, snap>>
  PROVE  IInv'
  <1>1. Stable => Stable'
    BY DEF Stable, Configured
  <1> QED
    BY <1>1 DEF IInv, Compared, Concluded, MatchIsEnrolled, Calling

\* Verify returns anything but a Match.
LEMMA LeaveWithout ==
  ASSUME IInv, NEW o, o # "Match", Leave(o),
         snap' = [l \in Lists |-> snap'[l]]
  PROVE  IInv'
  BY DEF IInv, Compared, Concluded, MatchIsEnrolled, Calling, Leave

\* The next command before the comparison: nothing is concluded yet.
LEMMA GoOnBefore ==
  ASSUME IInv, Calling, cmd \in Before, NEW c \in Before, Call(c), UNCHANGED outcome,
         snap' = [l \in Lists |-> snap'[l]]
  PROVE  IInv'
  <1>1. outcome # "Match"
    BY DEF IInv, Concluded, Calling, Before, After
  <1> QED
    BY <1>1 DEF IInv, Compared, Concluded, MatchIsEnrolled, Calling, Call, Before, After

\* The next command after the match loop: the first lists are as they were.
LEMMA GoOnAfter ==
  ASSUME IInv, Calling, cmd \in After, NEW c \in After, Call(c), UNCHANGED <<outcome, got>>,
         snap' = [l \in Lists |-> snap'[l]],
         \A l \in {"ids1", "glob1", "ids2", "glob2"} : snap'[l] = snap[l]
  PROVE  IInv'
  <1>1. Stable'
    BY StableKept DEF IInv, Compared, Calling, Before, After
  <1>2. outcome = "Match" => got.id \in snap["ids1"]
    BY DEF IInv, Concluded
  <1> QED
    BY <1>1, <1>2 DEF IInv, Compared, Concluded, MatchIsEnrolled, Calling, Call, After

\* The match loop ends with the last Cancel, and a Match only with an identity of the
\* first list.
LEMMA LeaveLoop ==
  ASSUME IInv, pc \in {"loop", "handle"}, Call("cancel2"), UNCHANGED snap,
         outcome' = "Match" => got'.id \in snap["ids1"]
  PROVE  IInv'
  <1>1. Stable'
    BY StableKept DEF IInv, Compared
  <1> QED
    BY <1>1 DEF IInv, Compared, Concluded, MatchIsEnrolled, Calling, Call, After

LEMMA CancelSentKeeps ==
  ASSUME IInv, Calling, cmd = "cancel2", CancelSent, UNCHANGED <<got, snap>>
  PROVE  IInv'
  <1>0. snap' = [l \in Lists |-> snap'[l]]
    BY DEF IInv, Compared
  <1>1. CASE cancel
    BY <1>0, <1>1, LeaveWithout DEF CancelSent, Conclude
  <1>2. CASE ~cancel /\ outcome = "TransportError"
    BY <1>0, <1>2, LeaveWithout DEF CancelSent, Conclude
  <1>3. CASE ~cancel /\ outcome # "TransportError"
    <2>1. Call("ids3") /\ UNCHANGED outcome
      BY <1>3 DEF CancelSent
    <2> QED
      BY <1>0, <2>1, GoOnAfter DEF After
  <1> QED
    BY <1>1, <1>2, <1>3

LEMMA FailsKeeps ==
  ASSUME IInv, Calling, Fails, UNCHANGED <<got, snap>>
  PROVE  IInv'
  <1>0. snap' = [l \in Lists |-> snap'[l]]
    BY DEF IInv, Compared
  <1>1. CASE cmd = "cancel1"
    <2>1. Call(Follower(cmd)) /\ UNCHANGED outcome
      BY <1>1 DEF Fails
    <2>2. cmd \in Before /\ Follower(cmd) \in Before
      BY <1>1, NextCommand DEF Before
    <2> QED
      BY <1>0, <2>1, <2>2, GoOnBefore
  <1>2. CASE cmd = "cancel2"
    BY <1>2, CancelSentKeeps DEF Fails
  <1>3. CASE cmd = "start"
    BY <1>0, <1>3, LeaveWithout DEF Fails
  <1>4. CASE cmd \notin {"cancel1", "cancel2", "start"}
    <2>1. Conclude("TransportError")
      BY <1>4 DEF Fails
    <2> QED
      BY <1>0, <2>1, LeaveWithout DEF Conclude
  <1> QED
    BY <1>1, <1>2, <1>3, <1>4

\* The last list was read and the identities are attested: every list has what the
\* first one has.
LEMMA AttestedKeeps ==
  ASSUME IInv, Calling, cmd = "glob3", NEW f, Succeeds(f), UNCHANGED got
  PROVE  IInv'
  <1>1. snap' = [snap EXCEPT !["glob3"] = f.list] /\ "glob3" \in Lists
    BY DEF Succeeds, Lists
  <1>2. snap = [l \in Lists |-> snap[l]]
    BY DEF IInv, Compared
  <1>3. snap' = [l \in Lists |-> snap'[l]]
    BY <1>1, <1>2
  <1>4. snap'["glob3"] = f.list /\ \A l \in Lists \ {"glob3"} : snap'[l] = snap[l]
    BY <1>1, <1>2
  <1>5. Conclude(IF Attested(f.list) THEN outcome ELSE "Unstable")
    BY DEF Succeeds
  <1>6. CASE cancel
    BY <1>3, <1>5, <1>6, LeaveWithout DEF Conclude
  <1>7. CASE ~cancel /\ ~Attested(f.list)
    BY <1>3, <1>5, <1>7, LeaveWithout DEF Conclude
  <1>8. CASE ~cancel /\ Attested(f.list)
    <2>1. Leave(outcome)
      BY <1>5, <1>8 DEF Conclude
    <2>2. CASE outcome # "Match"
      BY <1>3, <2>1, <2>2, LeaveWithout
    <2>3. CASE outcome = "Match"
      <3>1. got.id \in snap["ids1"] /\ Stable
        BY <2>3 DEF IInv, Compared, Concluded, Calling, Before
      <3>2. /\ got.id \in snap["glob1"] /\ got.id \notin Foreign
            /\ got.id \in snap["ids2"] /\ got.id \in snap["glob2"]
        BY <3>1 DEF Stable, Configured
      <3>3. got.id \in snap["ids3"] /\ got.id \in f.list
        BY <1>8, <3>2 DEF Attested, Configured
      <3>4. \A l \in Lists : got.id \in snap'[l]
        BY <1>4, <3>1, <3>2, <3>3 DEF Lists
      <3> QED
        BY <1>3, <2>1, <3>4 DEF IInv, Compared, Concluded, MatchIsEnrolled, Calling, Leave
    <2> QED
      BY <2>2, <2>3
  <1> QED
    BY <1>6, <1>7, <1>8

LEMMA SucceedsKeeps ==
  ASSUME IInv, Calling, NEW f, Succeeds(f), UNCHANGED got
  PROVE  IInv'
  <1>1. snap' = IF cmd \in Lists THEN [snap EXCEPT ![cmd] = f.list] ELSE snap
    BY DEF Succeeds
  <1>2. snap = [l \in Lists |-> snap[l]] /\ cmd \in Before \cup {"start"} \cup After
    BY DEF IInv, Compared
  <1>3. snap' = [l \in Lists |-> snap'[l]]
    BY <1>1, <1>2
  <1>4. CASE cmd = "ids1"
    <2>1. cmd \in Before /\ Follower(cmd) \in Before
      BY <1>4, NextCommand DEF Before
    <2>2. \/ Leave("Cancelled")
          \/ Leave("Malformed")
          \/ Call(Follower(cmd)) /\ UNCHANGED outcome
      BY <1>4 DEF Succeeds
    <2> QED
      BY <1>3, <2>1, <2>2, LeaveWithout, GoOnBefore
  <1>5. CASE cmd = "glob2"
    <2>1. Leave("Cancelled") \/ (pc' = "compare" /\ UNCHANGED <<cmd, outcome>>)
      BY <1>5 DEF Succeeds
    <2>2. outcome # "Match"
      BY <1>5 DEF IInv, Concluded, Calling, After
    <2>3. CASE Leave("Cancelled")
      BY <1>3, <2>3, LeaveWithout
    <2>4. CASE pc' = "compare" /\ UNCHANGED <<cmd, outcome>>
      BY <1>3, <2>2, <2>4 DEF IInv, Compared, Concluded, MatchIsEnrolled, Calling
    <2> QED
      BY <2>1, <2>3, <2>4
  <1>6. CASE cmd = "start"
    <2>1. pc' = "loop" /\ outcome' = "Timeout"
      BY <1>6 DEF Succeeds
    <2>2. snap' = snap
      BY <1>1, <1>6 DEF Lists
    <2>3. Stable'
      BY <1>6, <2>2, StableKept DEF IInv, Compared, Before
    <2> QED
      BY <1>3, <2>1, <2>3 DEF IInv, Compared, Concluded, MatchIsEnrolled, Calling
  <1>7. CASE cmd = "cancel2"
    <2>1. CancelSent
      BY <1>7 DEF Succeeds
    <2>2. snap' = snap
      BY <1>1, <1>7 DEF Lists
    <2> QED
      BY <1>7, <2>1, <2>2, CancelSentKeeps
  <1>8. CASE cmd = "ids3"
    <2>1. Call("glob3") /\ UNCHANGED outcome
      BY <1>8 DEF Succeeds
    <2>2. \A l \in {"ids1", "glob1", "ids2", "glob2"} : snap'[l] = snap[l]
      BY <1>1, <1>2, <1>8 DEF Lists
    <2>3. cmd \in After /\ "glob3" \in After
      BY <1>8 DEF After
    <2> QED
      BY <1>3, <2>1, <2>2, <2>3, GoOnAfter
  <1>9. CASE cmd = "glob3"
    BY <1>9, AttestedKeeps
  <1>10. CASE cmd \in Before \ {"ids1", "glob2"}
    <2>1. Call(Follower(cmd)) /\ UNCHANGED outcome
      BY <1>10 DEF Succeeds, Before
    <2>2. cmd \in Before /\ Follower(cmd) \in Before
      BY <1>10, NextCommand
    <2> QED
      BY <1>3, <2>1, <2>2, GoOnBefore
  <1> QED
    BY <1>2, <1>4, <1>5, <1>6, <1>7, <1>8, <1>9, <1>10 DEF After

-----------------------------------------------------------------------------
(* One step of the worker, of the T2 or of what is around them. *)

LEMMA NextIInv == IInv /\ [Next]_vars => IInv'
  <1> SUFFICES ASSUME IInv, [Next]_vars PROVE IInv'
    OBVIOUS
  <1>0. snap = [l \in Lists |-> snap[l]]
    BY DEF IInv, Compared
  <1>1. CASE Begin
    <2>1. FirstAfter(0) \in Before
      BY FirstCommand
    <2>2. /\ pc = "idle" /\ pc' = "send" /\ cmd' = FirstAfter(0)
          /\ UNCHANGED <<outcome, got, snap>>
      BY <1>1 DEF Begin, Call
    <2> QED
      BY <2>1, <2>2 DEF IInv, Compared, Concluded, MatchIsEnrolled, Calling
  <1>2. CASE Interrupted
    <2>1. Leave("Cancelled") /\ UNCHANGED snap
      BY <1>2 DEF Interrupted
    <2> QED
      BY <1>0, <2>1, LeaveWithout
  <1>3. CASE Send
    <2>1. pc = "send" /\ UNCHANGED <<got, snap>>
      BY <1>3 DEF Send
    <2>2. Fails \/ (pc' = "read" /\ UNCHANGED <<cmd, outcome>>)
      BY <1>3 DEF Send
    <2> QED
      BY <2>1, <2>2, FailsKeeps, ReadOn DEF Calling
  <1>4. CASE ReadEvent
    <2>1. pc = "read" /\ UNCHANGED <<got, snap>>
      BY <1>4 DEF ReadEvent, Rest
    <2>2. Fails \/ UNCHANGED <<pc, cmd, outcome>>
      BY <1>4 DEF ReadEvent
    <2> QED
      BY <2>1, <2>2, FailsKeeps, ReadOn DEF Calling
  <1>5. CASE ReadStray
    BY <1>5, Idle DEF ReadStray, Rest
  <1>6. CASE ReadReply
    <2>1. pc = "read" /\ UNCHANGED got
      BY <1>6 DEF ReadReply, Rest
    <2>2. \/ Succeeds(Head(wire))
          \/ (IF cmd = "start" THEN Leave("Rejected") ELSE Fails) /\ UNCHANGED snap
      BY <1>6 DEF ReadReply
    <2>3. CASE Succeeds(Head(wire))
      BY <2>1, <2>3, SucceedsKeeps DEF Calling
    <2>4. CASE Leave("Rejected") /\ UNCHANGED snap
      BY <1>0, <2>4, LeaveWithout
    <2>5. CASE Fails /\ UNCHANGED snap
      BY <2>1, <2>5, FailsKeeps DEF Calling
    <2> QED
      BY <2>2, <2>3, <2>4, <2>5
  <1>7. CASE ReadFails
    <2>1. pc = "read" /\ Fails /\ UNCHANGED <<got, snap>>
      BY <1>7 DEF ReadFails, Rest
    <2> QED
      BY <2>1, FailsKeeps DEF Calling
  <1>8. CASE Compare
    <2>1. pc = "compare" /\ UNCHANGED <<got, snap>>
      BY <1>8 DEF Compare, Rest
    <2>2. \/ Stable /\ Call("start") /\ UNCHANGED outcome
          \/ Leave("Unstable")
      BY <1>8 DEF Compare
    <2>3. CASE Stable /\ Call("start") /\ UNCHANGED outcome
      <3>1. Stable'
        BY <2>1, <2>3, StableKept
      <3>2. outcome # "Match"
        BY <2>1 DEF IInv, Concluded, Calling
      <3> QED
        BY <1>0, <2>1, <2>3, <3>1, <3>2
           DEF IInv, Compared, Concluded, MatchIsEnrolled, Calling, Call
    <2>4. CASE Leave("Unstable")
      BY <1>0, <2>1, <2>4, LeaveWithout
    <2> QED
      BY <2>2, <2>3, <2>4
  <1>9. CASE DeliverPending \/ DeliverFromWire \/ LoopEnds
    <2>1. pc = "loop" /\ UNCHANGED snap
      BY <1>9 DEF DeliverPending, DeliverFromWire, LoopEnds
    <2>2. \/ pc' \in {"loop", "handle"} /\ UNCHANGED outcome
          \/ \E o \in {"Timeout", "TransportError"} : Ends(o)
      BY <1>9, <2>1 DEF DeliverPending, DeliverFromWire, LoopEnds
    <2>3. CASE pc' \in {"loop", "handle"} /\ UNCHANGED outcome
      <3>1. Stable'
        BY <2>1, StableKept DEF IInv, Compared
      <3>2. outcome # "Match"
        BY <2>1 DEF IInv, Concluded, Calling
      <3> QED
        BY <1>0, <2>1, <2>3, <3>1, <3>2 DEF IInv, Compared, Concluded, MatchIsEnrolled, Calling
    <2>4. CASE \E o \in {"Timeout", "TransportError"} : Ends(o)
      <3>1. Call("cancel2") /\ outcome' # "Match"
        BY <2>4 DEF Ends
      <3> QED
        BY <2>1, <3>1, LeaveLoop
    <2> QED
      BY <2>2, <2>3, <2>4
  <1>10. CASE HandleStatus
    <2>1. pc = "handle" /\ pc' = "loop" /\ UNCHANGED <<outcome, snap>>
      BY <1>10 DEF HandleStatus
    <2>2. Stable'
      BY <2>1, StableKept DEF IInv, Compared
    <2> QED
      BY <1>0, <2>1, <2>2 DEF IInv, Compared, Concluded, MatchIsEnrolled, Calling
  <1>11. CASE HandleMatchResult
    <2>1. pc = "handle" /\ Call("cancel2") /\ UNCHANGED snap
      BY <1>11 DEF HandleMatchResult
    <2>2. outcome' = "Match" => got' = got /\ got.id \in snap["ids1"]
      BY <1>11 DEF HandleMatchResult
    <2> QED
      BY <2>1, <2>2, LeaveLoop
  <1>12. CASE Finish
    <2>1. pc' = "idle" /\ outcome' = "Timeout" /\ snap' = [l \in Lists |-> {}]
      BY <1>12 DEF Finish
    <2>2. snap' = [l \in Lists |-> snap'[l]]
      BY <2>1
    <2> QED
      BY <2>1, <2>2 DEF IInv, Compared, Concluded, MatchIsEnrolled, Calling
  <1>13. CASE T2
    BY <1>13, Idle DEF T2, StartArms, Answers, StartRejected, Delivers, FingerOn, Captures,
                       Accepts, Judges, Drops, IdentitiesChange, ours, control
  <1>14. CASE SignalCancel
    BY <1>14, Idle DEF SignalCancel
  <1>15. CASE UNCHANGED vars
    BY <1>15, Idle DEF vars, control
  <1> QED
    BY <1>1, <1>2, <1>3, <1>4, <1>5, <1>6, <1>7, <1>8, <1>9, <1>10, <1>11, <1>12, <1>13,
       <1>14, <1>15 DEF Next, Worker

\* A Match is for an identity that every list of the session names, those read before
\* StartMatch and those read after the match, whatever the T2 sends, loses or delivers
\* late and however the identities change meanwhile (VerificationEngine.cpp 734-761).
THEOREM MatchIsEnrolledAlways == Spec => []MatchIsEnrolled
  <1>1. IInv => MatchIsEnrolled
    BY DEF IInv
  <1> QED
    BY <1>1, InitIInv, NextIInv, PTL DEF Spec

-----------------------------------------------------------------------------
(* Types. *)

LEMMA CmdsAre == Cmds = Before \cup {"start"} \cup After /\ "none" \notin Cmds
  <1>1. Len(LongPlan) = 11 /\ 1..11 = {1, 2, 3, 4, 5, 6, 7, 8, 9, 10, 11}
    BY DEF LongPlan
  <1>2. \A c \in Before \cup {"start"} : \E i \in 1..11 : LongPlan[i] = c
    BY DEF LongPlan, Before
  <1>3. \A i \in 1..11 : LongPlan[i] \in Before \cup {"start"}
    BY DEF LongPlan, Before
  <1> QED
    BY <1>1, <1>2, <1>3 DEF Cmds, Before, After

LEMMA InitTypeOK == Init => TypeOK
  <1> SUFFICES ASSUME Init PROVE TypeOK
    OBVIOUS
  <1>1. ControlTypes
    BY CmdsAre DEF Init, ControlTypes, Outcomes
  <1>2. FlagTypes
    BY DEF Init, FlagTypes
  <1>3. NumberTypes
    BY BoundsAssumption DEF Init, NumberTypes
  <1>4. EventTypes
    <2>1. NoEvent \in EventSet
      BY DEF NoEvent, Event, EventSet
    <2> QED
      BY <2>1, EmptySeq DEF Init, EventTypes
  <1>5. DataTypes
    BY EmptySeq DEF Init, DataTypes
  <1> QED
    BY <1>1, <1>2, <1>3, <1>4, <1>5 DEF TypeOK

\* Where a command, or the end of one, leads.
Positions == {"idle", "send", "read", "compare", "loop", "handle", "return"}
Moves ==
  /\ pc' \in Positions /\ outcome' \in Outcomes
  /\ \/ pc' \in {"send", "read", "compare"} /\ cmd' \in Cmds
     \/ pc' \notin {"send", "read", "compare"} /\ cmd' = "none"

LEMMA LeaveMoves ==
  ASSUME NEW o \in Outcomes, Leave(o)
  PROVE  Moves
  BY DEF Leave, Moves, Positions

LEMMA CallMoves ==
  ASSUME NEW c \in Cmds, Call(c), outcome' \in Outcomes
  PROVE  Moves
  BY DEF Call, Moves, Positions

LEMMA CancelSentMoves ==
  ASSUME TypeOK, CancelSent
  PROVE  Moves
  <1>1. outcome \in Outcomes /\ "Cancelled" \in Outcomes
    BY DEF TypeOK, ControlTypes, Outcomes
  <1>2. \/ Leave("Cancelled") \/ Leave(outcome)
        \/ Call("ids3") /\ UNCHANGED outcome
    BY DEF CancelSent, Conclude
  <1>3. "ids3" \in Cmds
    BY CmdsAre DEF After
  <1> QED
    BY <1>1, <1>2, <1>3, LeaveMoves, CallMoves

LEMMA FailsMoves ==
  ASSUME TypeOK, Fails
  PROVE  Moves
  <1>1. outcome \in Outcomes /\ {"Cancelled", "TransportError"} \subseteq Outcomes
    BY DEF TypeOK, ControlTypes, Outcomes
  <1>2. \/ cmd = "cancel1" /\ Call(Follower(cmd)) /\ UNCHANGED outcome
        \/ CancelSent
        \/ Leave("TransportError") \/ Leave("Cancelled")
    BY DEF Fails, Conclude
  <1>3. cmd = "cancel1" => Follower(cmd) \in Cmds
    BY NextCommand, CmdsAre DEF Before
  <1> QED
    BY <1>1, <1>2, <1>3, LeaveMoves, CallMoves, CancelSentMoves

LEMMA SucceedsMoves ==
  ASSUME TypeOK, IInv, Calling, NEW f, Succeeds(f)
  PROVE  Moves
  <1>1. {outcome, "Cancelled", "Malformed", "Timeout", "Unstable"} \subseteq Outcomes
    BY DEF TypeOK, ControlTypes, Outcomes
  <1>2. cmd \in Before \cup {"start"} \cup After
    BY DEF IInv, Compared
  <1>3. cmd \in Before \ {"glob2"} => Follower(cmd) \in Cmds
    BY NextCommand, CmdsAre
  <1>4. CASE cmd \in Before \ {"ids1", "glob2"}
    <2>1. Call(Follower(cmd)) /\ UNCHANGED outcome
      BY <1>4 DEF Succeeds, Before
    <2> QED
      BY <1>1, <1>3, <1>4, <2>1, CallMoves
  <1>5. CASE cmd = "ids1"
    <2>1. \/ Leave("Cancelled") \/ Leave("Malformed")
          \/ Call(Follower(cmd)) /\ UNCHANGED outcome
      BY <1>5 DEF Succeeds
    <2>2. Follower(cmd) \in Cmds
      BY <1>3, <1>5 DEF Before
    <2> QED
      BY <1>1, <2>1, <2>2, CallMoves, LeaveMoves
  <1>6. CASE cmd = "glob2"
    <2>1. Leave("Cancelled") \/ (pc' = "compare" /\ UNCHANGED <<cmd, outcome>>)
      BY <1>6 DEF Succeeds
    <2>2. "glob2" \in Cmds
      BY CmdsAre DEF Before
    <2> QED
      BY <1>1, <1>6, <2>1, <2>2, LeaveMoves DEF Moves, Positions
  <1>7. CASE cmd = "start"
    <2>1. pc' = "loop" /\ cmd' = "none" /\ outcome' = "Timeout"
      BY <1>7 DEF Succeeds
    <2> QED
      BY <1>1, <2>1 DEF Moves, Positions
  <1>8. CASE cmd = "cancel2"
    <2>1. CancelSent
      BY <1>8 DEF Succeeds
    <2> QED
      BY <2>1, CancelSentMoves
  <1>9. CASE cmd = "ids3"
    <2>1. Call("glob3") /\ UNCHANGED outcome
      BY <1>9 DEF Succeeds
    <2>2. "glob3" \in Cmds
      BY CmdsAre DEF After
    <2> QED
      BY <1>1, <2>1, <2>2, CallMoves
  <1>10. CASE cmd = "glob3"
    <2>1. \/ Leave("Cancelled") \/ Leave(outcome) \/ Leave("Unstable")
      BY <1>10 DEF Succeeds, Conclude
    <2> QED
      BY <1>1, <2>1, LeaveMoves
  <1> QED
    BY <1>2, <1>4, <1>5, <1>6, <1>7, <1>8, <1>9, <1>10 DEF After

\* The frame at the head of the wire, and what is left.
LEMMA HeadOfWire ==
  ASSUME TypeOK, wire # <<>>
  PROVE  /\ Head(wire) \in FrameSet /\ Tail(wire) \in Seq(FrameSet)
         /\ Len(wire) \in Nat /\ Len(wire) > 0 /\ Head(wire) = wire[1]
         /\ Len(Tail(wire)) = Len(wire) - 1
         /\ \A i \in 1..Len(Tail(wire)) : Tail(wire)[i] = wire[i + 1]
  <1>1. wire \in Seq(FrameSet)
    BY DEF TypeOK, EventTypes
  <1>2. Len(wire) \in Nat /\ Len(wire) > 0
    BY <1>1, EmptySeq
  <1>3. Head(wire) = wire[1]
    BY <1>1
  <1> QED
    BY <1>1, <1>2, <1>3, HeadTailProperties

LEMMA Numbers == TypeOK => /\ highest \in Nat /\ barrier \in Nat /\ finger \in Nat
                           /\ captured \in Nat /\ imageTs \in Nat /\ mark \in Nat
                           /\ clock \in Nat /\ armedAt \in Nat /\ noted \in Nat
                           /\ shotAt \in Nat
  BY DEF TypeOK, NumberTypes

-----------------------------------------------------------------------------
(* The order of the events. *)

OfWire == {i \in 1..Len(wire) : wire[i].event}
Retained == {pending[i] : i \in 1..Len(pending)}
Coming == UnreadEvents \cup backlog

\* pendingEvents_ and the wire keep the order of emission.
PendingSorted ==
  \A i, j \in 1..Len(pending) : i < j => pending[i].ord < pending[j].ord
WireSorted ==
  \A i, j \in OfWire : i < j => wire[i].e.ord < wire[j].e.ord

\* What waits in pendingEvents_ is older than what is on the wire, and that older than
\* what the T2 has not sent.
Layers ==
  /\ \A a \in Retained : \A b \in Coming : a.ord < b.ord
  /\ \A a \in UnreadEvents : \A b \in backlog : a.ord < b.ord
  /\ \A a, b \in backlog : a.ord = b.ord => a = b

\* All of it is younger than what the worker has seen, and no younger than the T2's clock.
Younger ==
  /\ last = NoEvent \/ 0 < last.ord
  /\ \A b \in Coming : last.ord < b.ord
  /\ \A b \in Retained \cup Coming :
       /\ highest < b.ord
       /\ (pc = "handle" => got.ord < b.ord)
  /\ pc = "handle" => highest < got.ord
  /\ \A b \in Retained \cup Coming \cup {got, last} : b.ord <= clock
  /\ highest <= clock

OrderInv == PendingSorted /\ WireSorted /\ Layers /\ Younger

\* DiscardPendingEvents takes the ordinal of the youngest event it drops.
LEMMA DiscardTakesYoungest ==
  ASSUME TypeOK, OrderInv, DiscardPendingEvents
  PROVE  /\ highest' \in Nat /\ highest <= highest' /\ pending' \in Seq(EventSet)
         /\ \/ pending' = pending /\ highest' = highest
            \/ /\ cmd = "start" /\ pending' = <<>>
               /\ highest' = highest \/ \E a \in Retained : highest' = a.ord
  <1>1. /\ highest \in Nat /\ pending \in Seq(EventSet) /\ Len(pending) \in Nat
        /\ \A i \in 1..Len(pending) : pending[i].ord \in Nat /\ pending[i] \in Retained
    <2>1. highest \in Nat /\ pending \in Seq(EventSet)
      BY Numbers DEF TypeOK, EventTypes
    <2>2. \A i \in 1..Len(pending) : pending[i] \in EventSet
      BY <2>1, ElementOfSeq
    <2> QED
      BY <2>1, <2>2, LenProperties DEF EventSet, Retained
  <1>2. CASE cmd # "start" \/ pending = <<>>
    BY <1>1, <1>2, EmptySeq DEF DiscardPendingEvents
  <1>3. CASE cmd = "start" /\ pending # <<>>
    <2> DEFINE Ords == {highest} \cup {pending[i].ord : i \in 1..Len(pending)}
               Largest(o) == /\ o >= highest
                             /\ \A i \in 1..Len(pending) : o >= pending[i].ord
               top == pending[Len(pending)].ord
    <2>1. Len(pending) \in 1..Len(pending)
      BY <1>1, <1>3, EmptySeq
    <2>2. \A i \in 1..Len(pending) : i = Len(pending) \/ i < Len(pending)
      BY <1>1
    <2>3. top \in Ords /\ top \in Nat /\ highest < top
      BY <1>1, <2>1 DEF OrderInv, Younger
    <2>4. \A i \in 1..Len(pending) : i = Len(pending) \/ pending[i].ord < top
      BY <2>1, <2>2 DEF OrderInv, PendingSorted
    <2>5. Largest(top)
      BY <1>1, <2>3, <2>4
    <2>6. highest' = CHOOSE o \in Ords : Largest(o)
      BY <1>3 DEF DiscardPendingEvents
    <2>7. highest' \in Ords /\ Largest(highest')
      BY <2>3, <2>5, <2>6
    <2>8. pending' = <<>>
      BY <1>3 DEF DiscardPendingEvents
    <2>9. highest' = highest \/ \E i \in 1..Len(pending) : highest' = pending[i].ord
      BY <2>7
    <2>10. highest' \in Nat /\ highest <= highest'
      BY <1>1, <2>7, <2>9
    <2> QED
      BY <1>1, <1>3, <2>8, <2>9, <2>10, EmptySeq
  <1> QED
    BY <1>2, <1>3

LEMMA AllEvents ==
  ASSUME TypeOK
  PROVE  /\ \A b \in Retained \cup Coming \cup {got, last} : b \in EventSet /\ b.ord \in Nat
         /\ \A i \in OfWire : wire[i].e \in UnreadEvents /\ wire[i] \in FrameSet
         /\ UnreadEvents = {wire[i].e : i \in OfWire}
         /\ Len(wire) \in Nat /\ Len(pending) \in Nat
  <1>1. /\ pending \in Seq(EventSet) /\ wire \in Seq(FrameSet)
        /\ {got, last} \cup backlog \subseteq EventSet
    BY DEF TypeOK, EventTypes
  <1>2. \A i \in 1..Len(pending) : pending[i] \in EventSet
    BY <1>1, ElementOfSeq
  <1>3. \A i \in 1..Len(wire) : wire[i] \in FrameSet
    BY <1>1, ElementOfSeq
  <1>4. \A f \in FrameSet : f.e \in EventSet
    BY DEF FrameSet
  <1>5. UnreadEvents = {wire[i].e : i \in OfWire}
    BY DEF UnreadEvents, OfWire
  <1>6. \A i \in OfWire : wire[i].e \in UnreadEvents /\ wire[i] \in FrameSet
    BY <1>3, <1>5 DEF OfWire
  <1>7. \A b \in UnreadEvents : b \in EventSet
    BY <1>3, <1>4, <1>5 DEF OfWire
  <1>8. \A b \in Retained : b \in EventSet
    BY <1>2 DEF Retained
  <1>9. \A b \in EventSet : b.ord \in Nat
    BY DEF EventSet
  <1> QED
    BY <1>1, <1>5, <1>6, <1>7, <1>8, <1>9, LenProperties DEF Coming

\* Events that go away disturb no order.
LEMMA FewerEvents ==
  ASSUME Layers, Younger, UNCHANGED <<got, last, highest, clock>>, pc' # "handle",
         Retained' \subseteq Retained, UnreadEvents' \subseteq UnreadEvents,
         backlog' \subseteq backlog
  PROVE  Layers' /\ Younger'
  <1>1. Coming' \subseteq Coming
    BY DEF Coming
  <1>2. Layers'
    BY <1>1 DEF Layers
  <1>3. Younger'
    BY <1>1 DEF Younger
  <1> QED
    BY <1>2, <1>3

\* The frame at the head of the wire is taken off it.
LEMMA TakeFrame ==
  ASSUME TypeOK, OrderInv, wire # <<>>, wire' = Tail(wire), UNCHANGED backlog
  PROVE  /\ Head(wire) \in FrameSet /\ wire' \in Seq(FrameSet) /\ WireSorted'
         /\ UnreadEvents' \subseteq UnreadEvents
         /\ ~Head(wire).event => UnreadEvents' = UnreadEvents
         /\ Head(wire).event =>
              /\ Head(wire).e \in UnreadEvents
              /\ UnreadEvents = UnreadEvents' \cup {Head(wire).e}
              /\ \A b \in UnreadEvents' \cup backlog : Head(wire).e.ord < b.ord
  <1>1. /\ Head(wire) \in FrameSet /\ Tail(wire) \in Seq(FrameSet)
        /\ Len(wire) \in Nat /\ Len(wire) > 0 /\ Head(wire) = wire[1]
        /\ Len(wire') = Len(wire) - 1
        /\ \A i \in 1..Len(wire') : wire'[i] = wire[i + 1]
    BY HeadOfWire
  <1>2. \A i \in OfWire' : i + 1 \in OfWire /\ wire'[i] = wire[i + 1] /\ 1 < i + 1
    BY <1>1 DEF OfWire
  <1>3. \A i \in OfWire : i = 1 \/ (i - 1 \in OfWire' /\ wire'[i - 1] = wire[i])
    BY <1>1 DEF OfWire
  <1>4. UnreadEvents = {wire[i].e : i \in OfWire} /\ UnreadEvents' = {wire'[i].e : i \in OfWire'}
    BY DEF UnreadEvents, OfWire
  <1>5. WireSorted'
    <2> SUFFICES ASSUME NEW i \in OfWire', NEW j \in OfWire', i < j
                 PROVE  wire'[i].e.ord < wire'[j].e.ord
      BY DEF WireSorted
    <2>1. i + 1 < j + 1
      BY <1>1 DEF OfWire
    <2>2. /\ i + 1 \in OfWire /\ j + 1 \in OfWire
          /\ wire'[i] = wire[i + 1] /\ wire'[j] = wire[j + 1]
      BY <1>2
    <2>3. wire[i + 1].e.ord < wire[j + 1].e.ord
      BY <2>1, <2>2 DEF OrderInv, WireSorted
    <2> QED
      BY <2>2, <2>3
  <1>6. UnreadEvents' \subseteq UnreadEvents
    BY <1>2, <1>4
  <1>7. ASSUME ~Head(wire).event PROVE UnreadEvents' = UnreadEvents
    <2>1. 1 \notin OfWire
      BY <1>1, <1>7 DEF OfWire
    <2>2. ASSUME NEW u \in UnreadEvents PROVE u \in UnreadEvents'
      <3>1. PICK i \in OfWire : u = wire[i].e
        BY <1>4
      <3>2. i - 1 \in OfWire' /\ wire'[i - 1] = wire[i]
        BY <1>3, <2>1
      <3> QED
        BY <1>4, <3>1, <3>2
    <2> QED
      BY <1>6, <2>2
  <1>8. ASSUME Head(wire).event
        PROVE  /\ Head(wire).e \in UnreadEvents
               /\ UnreadEvents = UnreadEvents' \cup {Head(wire).e}
               /\ \A b \in UnreadEvents' \cup backlog : Head(wire).e.ord < b.ord
    <2>1. 1 \in OfWire
      BY <1>1, <1>8 DEF OfWire
    <2>2. Head(wire).e \in UnreadEvents
      BY <1>1, <1>4, <2>1
    <2>3. UnreadEvents = UnreadEvents' \cup {Head(wire).e}
      <3>1. ASSUME NEW u \in UnreadEvents, u # Head(wire).e PROVE u \in UnreadEvents'
        <4>1. PICK i \in OfWire : u = wire[i].e
          BY <1>4
        <4>2. i - 1 \in OfWire' /\ wire'[i - 1] = wire[i]
          BY <1>1, <1>3, <3>1, <4>1
        <4> QED
          BY <1>4, <4>1, <4>2
      <3> QED
        BY <1>6, <2>2, <3>1
    <2>4. ASSUME NEW b \in UnreadEvents' PROVE Head(wire).e.ord < b.ord
      <3>1. PICK i \in OfWire' : b = wire'[i].e
        BY <1>4
      <3>2. i + 1 \in OfWire /\ wire'[i] = wire[i + 1] /\ 1 < i + 1
        BY <1>2
      <3>3. wire[1].e.ord < wire[i + 1].e.ord
        BY <2>1, <3>2 DEF OrderInv, WireSorted
      <3> QED
        BY <1>1, <3>1, <3>2, <3>3
    <2>5. \A b \in backlog : Head(wire).e.ord < b.ord
      BY <2>2 DEF OrderInv, Layers
    <2> QED
      BY <2>2, <2>3, <2>4, <2>5
  <1> QED
    BY <1>1, <1>5, <1>6, <1>7, <1>8

\* An event comes to the end of the wire.
LEMMA AddFrame ==
  ASSUME TypeOK, OrderInv, NEW f \in FrameSet, wire' = Append(wire, f),
         f.event => \A a \in UnreadEvents : a.ord < f.e.ord
  PROVE  /\ wire' \in Seq(FrameSet) /\ WireSorted'
         /\ f.event => UnreadEvents' = UnreadEvents \cup {f.e}
         /\ ~f.event => UnreadEvents' = UnreadEvents
         /\ Len(wire') = Len(wire) + 1 /\ wire'[Len(wire) + 1] = f
         /\ \A i \in 1..Len(wire) : wire'[i] = wire[i]
  <1>1. wire \in Seq(FrameSet) /\ Len(wire) \in Nat
    BY AllEvents DEF TypeOK, EventTypes
  <1>2. /\ wire' \in Seq(FrameSet) /\ Len(wire') = Len(wire) + 1 /\ wire'[Len(wire) + 1] = f
        /\ \A i \in 1..Len(wire) : wire'[i] = wire[i]
    BY <1>1
  <1>3. /\ \A i \in OfWire : i \in OfWire' /\ wire'[i] = wire[i]
        /\ \A i \in OfWire' : i \in OfWire \/ (i = Len(wire) + 1 /\ f.event)
        /\ f.event => Len(wire) + 1 \in OfWire'
    BY <1>1, <1>2 DEF OfWire
  <1>4. UnreadEvents = {wire[i].e : i \in OfWire} /\ UnreadEvents' = {wire'[i].e : i \in OfWire'}
    BY DEF UnreadEvents, OfWire
  <1>5. WireSorted'
    <2> SUFFICES ASSUME NEW i \in OfWire', NEW j \in OfWire', i < j
                 PROVE  wire'[i].e.ord < wire'[j].e.ord
      BY DEF WireSorted
    <2>1. i \in OfWire
      BY <1>1, <1>2, <1>3 DEF OfWire
    <2>2. CASE j \in OfWire
      BY <1>3, <2>1, <2>2 DEF OrderInv, WireSorted
    <2>3. CASE j = Len(wire) + 1 /\ f.event
      BY <1>2, <1>3, <1>4, <2>1, <2>3
    <2> QED
      BY <1>3, <2>2, <2>3
  <1>6. ASSUME f.event PROVE UnreadEvents' = UnreadEvents \cup {f.e}
    <2>1. f.e \in UnreadEvents'
      BY <1>2, <1>3, <1>4, <1>6
    <2>2. UnreadEvents \subseteq UnreadEvents'
      BY <1>3, <1>4
    <2>3. ASSUME NEW u \in UnreadEvents' PROVE u \in UnreadEvents \/ u = f.e
      <3>1. PICK i \in OfWire' : u = wire'[i].e
        BY <1>4
      <3>2. (i \in OfWire /\ wire'[i] = wire[i]) \/ wire'[i] = f
        BY <1>2, <1>3
      <3> QED
        BY <1>4, <3>1, <3>2
    <2> QED
      BY <2>1, <2>2, <2>3
  <1>7. ~f.event => UnreadEvents' = UnreadEvents
    BY <1>2, <1>3, <1>4
  <1> QED
    BY <1>2, <1>5, <1>6, <1>7

Sent(events) == {events[k] : k \in 1..Len(events)}

\* The frames of a concatenation, at their places.
LEMMA ConcatFacts ==
  ASSUME NEW f \in Seq(FrameSet), NEW g \in Seq(FrameSet)
  PROVE  /\ f \o g \in Seq(FrameSet) /\ Len(f \o g) = Len(f) + Len(g)
         /\ \A i \in 1..Len(f) + Len(g) :
              (f \o g)[i] = IF i <= Len(f) THEN f[i] ELSE g[i - Len(f)]
<1>1. f \o g \in Seq(FrameSet) /\ Len(f \o g) = Len(f) + Len(g)
  BY ConcatProperties
<1>2. \A i \in 1..Len(f) + Len(g) :
        (f \o g)[i] = IF i <= Len(f) THEN f[i] ELSE g[i - Len(f)]
  BY ConcatProperties
<1> QED
  BY <1>1, <1>2

\* The T2 emits: the new events are the youngest of all.
LEMMA EmitOrder ==
  ASSUME TypeOK, OrderInv, NEW events \in Seq(EventSet), Emit(events),
         \A k \in 1..Len(events) : events[k].ord = clock + k,
         UNCHANGED <<pc, got, last, highest, pending>>
  PROVE  /\ OrderInv' /\ clock' \in Nat /\ clock <= clock'
         /\ wire' \in Seq(FrameSet) /\ backlog' \subseteq EventSet
         /\ Coming' = Coming \cup Sent(events)
         /\ \A i \in 1..Len(wire') : (i \in 1..Len(wire) /\ wire'[i] = wire[i]) \/ wire'[i].event
         /\ Len(wire) <= Len(wire') /\ \A i \in 1..Len(wire) : wire'[i] = wire[i]
  <1> DEFINE n == Len(events)
             frames == [i \in 1..Len(events) |-> EventFrame(events[i])]
  <1>1. /\ n \in Nat /\ clock \in Nat /\ clock' = clock + n /\ Len(wire) \in Nat
        /\ wire \in Seq(FrameSet) /\ backlog \subseteq EventSet
        /\ \A k \in 1..n : events[k] \in EventSet
    BY Numbers, AllEvents, ElementOfSeq, LenProperties DEF Emit, TypeOK, EventTypes
  <1>2. \A e \in EventSet : EventFrame(e) \in FrameSet /\ EventFrame(e).event /\ EventFrame(e).e = e
    BY DEF EventFrame, FrameSet
  <1>3. /\ frames \in Seq(FrameSet) /\ Len(frames) = n
        /\ \A k \in 1..n : frames[k] = EventFrame(events[k])
    BY <1>1, <1>2
  <1> HIDE DEF frames
  <1>4. \A b \in Sent(events) : b \in EventSet /\ clock < b.ord /\ b.ord <= clock'
    BY <1>1 DEF Sent
  <1>5. \A a, b \in Sent(events) : a.ord = b.ord => a = b
    <2> SUFFICES ASSUME NEW k \in 1..n, NEW l \in 1..n, events[k].ord = events[l].ord
                 PROVE  events[k] = events[l]
      BY DEF Sent
    <2>1. k = l
      BY <1>1
    <2> QED
      BY <2>1
  <1>6. \A b \in Retained \cup Coming \cup {got, last} : b.ord \in Nat /\ b.ord <= clock
    BY AllEvents DEF OrderInv, Younger
  <1>7. Retained' = Retained
    BY DEF Retained
  <1>8. PendingSorted'
    BY DEF OrderInv, PendingSorted
  <1>9. ASSUME Layers', Coming' = Coming \cup Sent(events) PROVE Younger'
    <2>1. highest \in Nat /\ highest <= clock
      BY Numbers DEF OrderInv, Younger
    <2>2. \A b \in Sent(events) : b.ord \in Nat
      BY <1>4 DEF EventSet
    <2>3. \A b \in Coming' : last.ord < b.ord
      BY <1>1, <1>4, <1>6, <1>9, <2>2 DEF OrderInv, Younger
    <2>4. \A b \in Retained \cup Coming' : highest < b.ord
      BY <1>1, <1>4, <1>9, <2>1, <2>2 DEF OrderInv, Younger
    <2>5. pc = "handle" => \A b \in Retained \cup Coming' : got.ord < b.ord
      BY <1>1, <1>4, <1>6, <1>9, <2>2 DEF OrderInv, Younger
    <2>6. \A b \in Retained \cup Coming' \cup {got, last} : b.ord <= clock'
      BY <1>1, <1>4, <1>6, <1>9
    <2>7. highest <= clock'
      BY <1>1, <2>1
    <2> QED
      BY <1>7, <2>3, <2>4, <2>5, <2>6, <2>7 DEF OrderInv, Younger
  <1>10. CASE conn = "up" /\ backlog = {}
    <2>1. wire' = wire \o frames /\ backlog' = {}
      BY <1>10 DEF Emit, frames
    <2>2. /\ wire' \in Seq(FrameSet) /\ Len(wire') = Len(wire) + n
          /\ \A i \in 1..Len(wire) + n :
               wire'[i] = IF i <= Len(wire) THEN wire[i] ELSE frames[i - Len(wire)]
      <3>1. /\ wire \o frames \in Seq(FrameSet) /\ Len(wire \o frames) = Len(wire) + Len(frames)
            /\ \A i \in 1..Len(wire) + Len(frames) :
                 (wire \o frames)[i] = IF i <= Len(wire) THEN wire[i] ELSE frames[i - Len(wire)]
        <4>1. wire \in Seq(FrameSet) /\ frames \in Seq(FrameSet)
          BY <1>1, <1>3
        <4> QED
          BY <4>1, ConcatFacts
      <3> QED
        BY <1>3, <2>1, <3>1
    <2>3. \A i \in 1..Len(wire) : wire'[i] = wire[i]
      <3> TAKE i \in 1..Len(wire)
      <3>1. i \in 1..Len(wire) + n /\ i <= Len(wire)
        BY <1>1
      <3>2. wire'[i] = IF i <= Len(wire) THEN wire[i] ELSE frames[i - Len(wire)]
        BY <2>2, <3>1
      <3> QED
        BY <3>1, <3>2
    <2>4. \A k \in 1..n : Len(wire) + k \in OfWire' /\ wire'[Len(wire) + k] = EventFrame(events[k])
      <3> TAKE k \in 1..n
      <3>1. /\ Len(wire) + k \in 1..Len(wire) + n /\ ~(Len(wire) + k <= Len(wire))
            /\ (Len(wire) + k) - Len(wire) = k
        BY <1>1
      <3>2. wire'[Len(wire) + k] = EventFrame(events[k])
        BY <1>3, <2>2, <3>1
      <3> QED
        BY <1>1, <1>2, <2>2, <3>1, <3>2 DEF OfWire
    <2>5. \A i \in OfWire : i \in OfWire'
      BY <1>1, <2>2, <2>3 DEF OfWire
    <2>6. \A i \in OfWire' : i \in OfWire \/ \E k \in 1..n : i = Len(wire) + k
      <3> TAKE i \in OfWire'
      <3>1. i \in 1..Len(wire) + n /\ wire'[i].event
        BY <2>2 DEF OfWire
      <3>2. CASE i <= Len(wire)
        BY <1>1, <2>3, <3>1, <3>2 DEF OfWire
      <3>3. CASE ~(i <= Len(wire))
        <4>1. i - Len(wire) \in 1..n /\ i = Len(wire) + (i - Len(wire))
          BY <1>1, <3>1, <3>3
        <4> QED
          BY <4>1
      <3> QED
        BY <3>2, <3>3
    <2>7. UnreadEvents = {wire[i].e : i \in OfWire} /\ UnreadEvents' = {wire'[i].e : i \in OfWire'}
      BY DEF UnreadEvents, OfWire
    <2>8. WireSorted'
      <3> SUFFICES ASSUME NEW i \in OfWire', NEW j \in OfWire', i < j
                   PROVE  wire'[i].e.ord < wire'[j].e.ord
        BY DEF WireSorted
      <3>1. CASE i \in OfWire /\ j \in OfWire
        BY <2>3, <3>1 DEF OrderInv, WireSorted, OfWire
      <3>2. ASSUME i \in OfWire, NEW k \in 1..n, j = Len(wire) + k
            PROVE  wire'[i].e.ord < wire'[j].e.ord
        <4>1. wire'[i] = wire[i] /\ wire[i].e \in Coming
          BY <2>3, <2>7, <3>2 DEF OfWire, Coming
        <4>2. wire'[j].e = events[k] /\ events[k] \in Sent(events)
          BY <1>1, <1>2, <2>4, <3>2 DEF Sent
        <4>3. events[k].ord \in Nat
          BY <1>4, <4>2 DEF EventSet
        <4> QED
          BY <1>1, <1>4, <1>6, <4>1, <4>2, <4>3
      <3>3. ASSUME NEW l \in 1..n, i = Len(wire) + l, NEW k \in 1..n, j = Len(wire) + k
            PROVE  wire'[i].e.ord < wire'[j].e.ord
        <4>1. wire'[i].e = events[l] /\ wire'[j].e = events[k]
          BY <1>1, <1>2, <2>4, <3>3
        <4>2. events[l].ord = clock + l /\ events[k].ord = clock + k
          OBVIOUS
        <4> QED
          BY <1>1, <3>3, <4>1, <4>2
      <3>4. i \in OfWire \/ ~(j \in OfWire)
        BY <1>1, <2>6 DEF OfWire
      <3> QED
        BY <2>6, <3>1, <3>2, <3>3, <3>4
    <2>9. UnreadEvents' = UnreadEvents \cup Sent(events)
      <3>1. ASSUME NEW u \in UnreadEvents PROVE u \in UnreadEvents'
        <4>1. PICK i \in OfWire : u = wire[i].e
          BY <2>7
        <4> QED
          BY <2>3, <2>5, <2>7, <4>1 DEF OfWire
      <3>2. ASSUME NEW u \in Sent(events) PROVE u \in UnreadEvents'
        <4>1. PICK k \in 1..n : u = events[k]
          BY DEF Sent
        <4>2. Len(wire) + k \in OfWire' /\ wire'[Len(wire) + k].e = u
          BY <1>1, <1>2, <2>4, <4>1
        <4> QED
          BY <2>7, <4>2
      <3>3. ASSUME NEW u \in UnreadEvents' PROVE u \in UnreadEvents \/ u \in Sent(events)
        <4>1. PICK i \in OfWire' : u = wire'[i].e
          BY <2>7
        <4>2. CASE i \in OfWire
          BY <2>3, <2>7, <4>1, <4>2 DEF OfWire
        <4>3. ASSUME NEW k \in 1..n, i = Len(wire) + k PROVE u \in Sent(events)
          <5>1. wire'[i].e = events[k]
            BY <1>1, <1>2, <2>4, <4>3
          <5> QED
            BY <4>1, <5>1 DEF Sent
        <4> QED
          BY <2>6, <4>2, <4>3
      <3> QED
        BY <3>1, <3>2, <3>3
    <2>10. Coming' = Coming \cup Sent(events)
      BY <1>10, <2>1, <2>9 DEF Coming
    <2>11. Layers'
      <3>1. \A a \in Retained' : \A b \in Coming' : a.ord < b.ord
        <4> TAKE a \in Retained'
        <4> TAKE b \in Coming'
        <4>1. CASE b \in Coming
          BY <1>7, <4>1 DEF OrderInv, Layers
        <4>2. CASE b \in Sent(events)
          <5>1. b.ord \in Nat
            BY <1>4, <4>2 DEF EventSet
          <5> QED
            BY <1>1, <1>4, <1>6, <1>7, <4>2, <5>1
        <4> QED
          BY <2>10, <4>1, <4>2
      <3> QED
        BY <2>1, <3>1 DEF Layers
    <2>12. \A i \in 1..Len(wire') : (i \in 1..Len(wire) /\ wire'[i] = wire[i]) \/ wire'[i].event
      <3> TAKE i \in 1..Len(wire')
      <3>1. CASE i <= Len(wire)
        BY <1>1, <2>3, <3>1
      <3>2. CASE ~(i <= Len(wire))
        <4>1. i - Len(wire) \in 1..n /\ wire'[i] = frames[i - Len(wire)]
          BY <1>1, <2>2, <3>2
        <4> QED
          BY <1>1, <1>2, <1>3, <4>1
      <3> QED
        BY <3>1, <3>2
    <2> QED
      BY <1>1, <1>8, <1>9, <2>1, <2>2, <2>3, <2>8, <2>10, <2>11, <2>12 DEF OrderInv
  <1>11. CASE ~(conn = "up" /\ backlog = {})
    <2>1. wire' = wire /\ backlog' = backlog \cup Sent(events)
      BY <1>11 DEF Emit, Sent
    <2>2. OfWire' = OfWire /\ UnreadEvents' = UnreadEvents /\ WireSorted'
      BY <2>1 DEF OfWire, UnreadEvents, OrderInv, WireSorted
    <2>3. /\ Coming' = Coming \cup Sent(events)
          /\ UnreadEvents \subseteq Coming /\ backlog \subseteq Coming
      BY <2>1, <2>2 DEF Coming
    <2>4. \A a \in Retained \cup Coming : \A b \in Sent(events) : a.ord < b.ord
      <3> TAKE a \in Retained \cup Coming
      <3> TAKE b \in Sent(events)
      <3>1. b.ord \in Nat /\ a.ord \in Nat
        BY <1>4, <1>6 DEF EventSet
      <3> QED
        BY <1>1, <1>4, <1>6, <3>1
    <2>5. Layers'
      <3>1. \A a \in Retained' : \A b \in Coming' : a.ord < b.ord
        BY <1>7, <2>3, <2>4 DEF OrderInv, Layers
      <3>2. \A a \in UnreadEvents' : \A b \in backlog' : a.ord < b.ord
        BY <2>1, <2>2, <2>3, <2>4 DEF OrderInv, Layers
      <3>3. \A a, b \in backlog' : a.ord = b.ord => a = b
        <4> TAKE a \in backlog', b \in backlog'
        <4>1. \A c, d \in backlog : c.ord = d.ord => c = d
          BY DEF OrderInv, Layers
        <4>2. \A c \in backlog : \A d \in Sent(events) : c.ord # d.ord
          <5> TAKE c \in backlog
          <5> TAKE d \in Sent(events)
          <5>1. c.ord \in Nat /\ d.ord \in Nat /\ c.ord < d.ord
            BY <1>4, <1>6, <2>3, <2>4 DEF EventSet
          <5> QED
            BY <5>1
        <4> QED
          BY <1>5, <2>1, <4>1, <4>2
      <3> QED
        BY <3>1, <3>2, <3>3 DEF Layers
    <2>6. backlog' \subseteq EventSet
      BY <1>1, <1>4, <2>1
    <2> QED
      BY <1>1, <1>8, <1>9, <2>1, <2>2, <2>3, <2>5, <2>6 DEF OrderInv
  <1> QED
    BY <1>10, <1>11

-----------------------------------------------------------------------------
(* The events in the model: those the worker has yet to see or is looking at, and with *)
(* them the one it acknowledged last.                                                   *)

Queue == Retained \cup Coming \cup {got}
Seen  == Queue \cup {last}

EventsInv == EventTypes /\ highest \in Nat /\ OrderInv

NothingNew ==
  Queue' \subseteq Queue \cup {NoEvent} /\ Seen' \subseteq Seen \cup {NoEvent}

Untouched == UNCHANGED <<got, last, pending, wire, backlog>>

LEMMA NoEventType == NoEvent \in EventSet /\ NoEvent.ord = 0 /\ NoEvent.code = "none"
  BY DEF NoEvent, Event, EventSet

LEMMA FewerRetained ==
  ASSUME pending' \in {pending, <<>>}, pending \in Seq(EventSet)
  PROVE  /\ Retained' \subseteq Retained /\ pending' \in Seq(EventSet)
         /\ PendingSorted => PendingSorted'
  <1>1. CASE pending' = <<>>
    <2>1. Len(pending') = 0 /\ pending' \in Seq(EventSet)
      BY <1>1, EmptySeq
    <2> QED
      BY <2>1 DEF Retained, PendingSorted
  <1>2. CASE pending' = pending
    BY <1>2 DEF Retained, PendingSorted
  <1> QED
    BY <1>1, <1>2

LEMMA OneMore ==
  ASSUME pending \in Seq(EventSet), NEW e \in EventSet, pending' = Append(pending, e)
  PROVE  /\ pending' \in Seq(EventSet) /\ Len(pending') = Len(pending) + 1
         /\ pending'[Len(pending) + 1] = e
         /\ \A i \in 1..Len(pending) : pending'[i] = pending[i] /\ pending[i] \in Retained
         /\ Retained' = Retained \cup {e}
  <1>1. /\ pending' \in Seq(EventSet) /\ Len(pending') = Len(pending) + 1
        /\ pending'[Len(pending) + 1] = e
        /\ \A i \in 1..Len(pending) : pending'[i] = pending[i] /\ pending[i] \in Retained
    BY DEF Retained
  <1>2. 1..Len(pending') = (1..Len(pending)) \cup {Len(pending) + 1}
    BY <1>1, LenProperties
  <1>3. Retained' = {pending'[i] : i \in 1..Len(pending')}
    BY DEF Retained
  <1>4. \A x \in Retained' : x \in Retained \cup {e}
    BY <1>1, <1>2, <1>3
  <1>5. ASSUME NEW x \in Retained PROVE x \in Retained'
    <2>1. PICK i \in 1..Len(pending) : x = pending[i]
      BY DEF Retained
    <2>2. i \in 1..Len(pending') /\ pending'[i] = x
      BY <1>1, <1>2, <2>1
    <2> QED
      BY <1>3, <2>2
  <1>6. e \in Retained'
    <2>1. Len(pending) + 1 \in 1..Len(pending')
      BY <1>2
    <2> QED
      BY <1>1, <1>3, <2>1
  <1> QED
    BY <1>1, <1>4, <1>5, <1>6

LEMMA UntouchedKeeps ==
  ASSUME TypeOK, OrderInv, Untouched, UNCHANGED <<highest, clock>>,
         pc' # "handle" \/ pc' = pc
  PROVE  EventsInv' /\ NothingNew /\ Queue' = Queue
  <1>1. /\ Retained' = Retained /\ OfWire' = OfWire /\ UnreadEvents' = UnreadEvents
        /\ Coming' = Coming
    BY DEF Untouched, Retained, OfWire, UnreadEvents, Coming
  <1>2. Queue' = Queue /\ Seen' = Seen
    BY <1>1 DEF Queue, Seen, Untouched
  <1>3. PendingSorted' /\ WireSorted'
    BY <1>1 DEF Untouched, OrderInv, PendingSorted, WireSorted
  <1>4. Layers' /\ Younger'
    BY <1>1 DEF Untouched, OrderInv, Layers, Younger
  <1>5. EventTypes' /\ highest' \in Nat
    BY Numbers DEF Untouched, TypeOK, EventTypes
  <1> QED
    BY <1>2, <1>3, <1>4, <1>5 DEF EventsInv, OrderInv, NothingNew

LEMMA SendEvents ==
  ASSUME TypeOK, OrderInv, pc # "handle", pc' # "handle", DiscardPendingEvents,
         UNCHANGED <<got, last, wire, backlog, clock>>
  PROVE  EventsInv' /\ NothingNew /\ highest <= highest'
  <1>1. /\ highest' \in Nat /\ highest <= highest' /\ pending' \in Seq(EventSet)
        /\ \/ pending' = pending /\ highest' = highest
           \/ /\ cmd = "start" /\ pending' = <<>>
              /\ highest' = highest \/ \E a \in Retained : highest' = a.ord
    BY DiscardTakesYoungest
  <1>2. CASE pending' = pending /\ highest' = highest
    BY <1>1, <1>2, UntouchedKeeps DEF Untouched
  <1>3. CASE pending' = <<>> /\ (highest' = highest \/ \E a \in Retained : highest' = a.ord)
    <2>1. /\ Retained' = {} /\ OfWire' = OfWire /\ UnreadEvents' = UnreadEvents
          /\ Coming' = Coming
      BY <1>3 DEF Retained, OfWire, UnreadEvents, Coming
    <2>2. Queue' \subseteq Queue /\ Seen' \subseteq Seen
      BY <2>1 DEF Queue, Seen
    <2>3. PendingSorted' /\ WireSorted' /\ Layers'
      BY <1>3, <2>1 DEF OrderInv, PendingSorted, WireSorted, Layers
    <2>4. \A b \in Coming' : highest' < b.ord
      BY <1>3, <2>1 DEF OrderInv, Layers, Younger
    <2>5. highest' <= clock'
      BY <1>3 DEF OrderInv, Younger
    <2>6. Younger'
      BY <2>1, <2>4, <2>5 DEF OrderInv, Younger
    <2>7. EventTypes'
      BY <1>1 DEF TypeOK, EventTypes
    <2> QED
      BY <1>1, <2>2, <2>3, <2>6, <2>7 DEF EventsInv, OrderInv, NothingNew
  <1> QED
    BY <1>1, <1>2, <1>3

\* A reply is read, or skipped.
LEMMA ReplyTaken ==
  ASSUME TypeOK, OrderInv, wire # <<>>, ~Head(wire).event, wire' = Tail(wire),
         pc' # "handle", UNCHANGED <<got, last, highest, clock, pending, backlog>>
  PROVE  EventsInv' /\ NothingNew /\ Queue' = Queue
  <1>1. wire' \in Seq(FrameSet) /\ WireSorted' /\ UnreadEvents' = UnreadEvents
    BY TakeFrame
  <1>2. Retained' = Retained /\ Coming' = Coming
    BY <1>1 DEF Retained, Coming
  <1>3. PendingSorted'
    BY DEF OrderInv, PendingSorted
  <1>4. Layers' /\ Younger'
    BY <1>1, <1>2, FewerEvents DEF OrderInv
  <1>5. EventTypes'
    BY <1>1 DEF TypeOK, EventTypes
  <1> QED
    BY <1>1, <1>2, <1>3, <1>4, <1>5, Numbers DEF EventsInv, OrderInv, NothingNew, Queue, Seen

\* An event comes off the wire, and is acknowledged; it is retained, looked at or dropped.
LEMMA EventTaken ==
  ASSUME TypeOK, OrderInv, wire # <<>>, Head(wire).event, wire' = Tail(wire),
         last' = Head(wire).e, UNCHANGED <<highest, clock, backlog>>,
         \/ pending' = Append(pending, Head(wire).e) /\ pc' # "handle" /\ got' = got
         \/ pending' = pending /\ pc' # "handle" /\ got' = got
         \/ pending' = <<>> /\ pc' # "handle" /\ got' = got
         \/ pending = <<>> /\ pending' = <<>> /\ got' = Head(wire).e
  PROVE  EventsInv' /\ NothingNew /\ Seen' \subseteq Seen
  <1> DEFINE e == Head(wire).e
  <1>1. /\ Head(wire) \in FrameSet /\ wire' \in Seq(FrameSet) /\ WireSorted'
        /\ UnreadEvents' \subseteq UnreadEvents /\ e \in UnreadEvents
        /\ UnreadEvents = UnreadEvents' \cup {e}
        /\ \A b \in UnreadEvents' \cup backlog : e.ord < b.ord
    BY TakeFrame
  <1> HIDE DEF e
  <1>2. e \in Coming /\ e \in EventSet /\ e.ord \in Nat /\ e.ord <= clock /\ highest < e.ord
    BY <1>1, AllEvents DEF Coming, OrderInv, Younger
  <1>3. Coming' = UnreadEvents' \cup backlog /\ Coming' \subseteq Coming
    BY <1>1 DEF Coming
  <1>4. last' = e
    BY DEF e
  <1>5. /\ \A a \in UnreadEvents' : \A b \in backlog' : a.ord < b.ord
        /\ \A a, b \in backlog' : a.ord = b.ord => a = b
        /\ \A a \in Retained : \A b \in Coming' : a.ord < b.ord
        /\ \A a \in Retained : a.ord < e.ord
    BY <1>1, <1>2, <1>3 DEF OrderInv, Layers
  <1>6. /\ 0 < last'.ord
        /\ \A b \in Coming' : last'.ord < b.ord /\ highest < b.ord /\ b.ord <= clock
        /\ \A b \in Retained : highest < b.ord /\ b.ord <= clock
        /\ got.ord <= clock /\ last'.ord <= clock /\ highest <= clock
    BY <1>1, <1>2, <1>3, <1>4, Numbers DEF OrderInv, Younger
  <1>7. /\ pending \in Seq(EventSet) /\ Len(pending) \in Nat
        /\ got \in EventSet /\ backlog \subseteq EventSet
    BY AllEvents DEF TypeOK, EventTypes
  <1>8. CASE pending' = Append(pending, e) /\ pc' # "handle" /\ got' = got
    <2>1. /\ pending' \in Seq(EventSet) /\ Len(pending') = Len(pending) + 1
          /\ pending'[Len(pending) + 1] = e
          /\ \A i \in 1..Len(pending) : pending'[i] = pending[i] /\ pending[i] \in Retained
          /\ Retained' = Retained \cup {e}
      BY <1>2, <1>7, <1>8, OneMore
    <2>2. Retained' = Retained \cup {e}
      BY <2>1
    <2>3. PendingSorted'
      <3> SUFFICES ASSUME NEW i \in 1..Len(pending'), NEW j \in 1..Len(pending'), i < j
                   PROVE  pending'[i].ord < pending'[j].ord
        BY DEF PendingSorted
      <3>1. i \in 1..Len(pending) /\ (j \in 1..Len(pending) \/ j = Len(pending) + 1)
        BY <1>7, <2>1
      <3>2. CASE j \in 1..Len(pending)
        BY <2>1, <3>1, <3>2 DEF OrderInv, PendingSorted
      <3>3. CASE j = Len(pending) + 1
        BY <1>5, <2>1, <3>1, <3>3
      <3> QED
        BY <3>1, <3>2, <3>3
    <2>4. Layers'
      BY <1>1, <1>3, <1>5, <2>2 DEF Layers
    <2>5. Younger'
      <3>1. /\ \A b \in Retained' \cup Coming' : highest < b.ord /\ b.ord <= clock
        BY <1>2, <1>6, <2>2
      <3> QED
        BY <1>6, <1>8, <3>1 DEF Younger
    <2>6. Queue' \subseteq Queue /\ Seen' \subseteq Seen
      BY <1>2, <1>3, <1>4, <1>8, <2>2 DEF Queue, Seen
    <2>7. EventTypes'
      BY <1>1, <1>2, <1>4, <1>7, <1>8, <2>1 DEF EventTypes
    <2> QED
      BY <1>1, <2>3, <2>4, <2>5, <2>6, <2>7, Numbers DEF EventsInv, OrderInv, NothingNew
  <1>9. CASE (pending' = pending \/ pending' = <<>>) /\ pc' # "handle" /\ got' = got
    <2>1. Retained' \subseteq Retained /\ pending' \in Seq(EventSet)
      BY <1>7, <1>9, FewerRetained
    <2>2. PendingSorted'
      BY <1>9 DEF OrderInv, PendingSorted
    <2>3. Layers'
      BY <1>5, <2>1 DEF Layers
    <2>4. Younger'
      BY <1>6, <1>9, <2>1 DEF Younger
    <2>5. Queue' \subseteq Queue /\ Seen' \subseteq Seen
      BY <1>2, <1>3, <1>4, <1>9, <2>1 DEF Queue, Seen
    <2>6. EventTypes'
      BY <1>1, <1>2, <1>4, <1>7, <1>9, <2>1 DEF EventTypes
    <2> QED
      BY <1>1, <2>2, <2>3, <2>4, <2>5, <2>6, Numbers DEF EventsInv, OrderInv, NothingNew
  <1>10. CASE pending = <<>> /\ pending' = <<>> /\ got' = e
    <2>1. Retained' = {} /\ pending' \in Seq(EventSet)
      <3>1. Len(pending') = 0 /\ pending' \in Seq(EventSet)
        BY <1>10, EmptySeq
      <3> QED
        BY <3>1 DEF Retained
    <2>2. PendingSorted'
      BY <1>10 DEF PendingSorted
    <2>3. Layers'
      BY <1>5, <2>1 DEF Layers
    <2>4. Younger'
      <3>1. \A b \in Coming' : e.ord < b.ord
        BY <1>1, <1>3
      <3>2. got' = e /\ last' = e /\ UNCHANGED <<highest, clock>>
        BY <1>4, <1>10
      <3> QED
        BY <1>2, <1>6, <2>1, <3>1, <3>2 DEF Younger
    <2>5. Queue' \subseteq Queue /\ Seen' \subseteq Seen
      BY <1>2, <1>3, <1>4, <1>10, <2>1 DEF Queue, Seen
    <2>6. EventTypes'
      BY <1>1, <1>2, <1>4, <1>7, <1>10, <2>1 DEF EventTypes
    <2> QED
      BY <1>1, <2>2, <2>3, <2>4, <2>5, <2>6, Numbers DEF EventsInv, OrderInv, NothingNew
  <1> QED
    BY <1>8, <1>9, <1>10 DEF e

\* An event that waited in pendingEvents_ is looked at.
LEMMA PendingTaken ==
  ASSUME TypeOK, OrderInv, pending # <<>>, got' = Head(pending), pending' = Tail(pending),
         UNCHANGED <<last, wire, backlog, highest, clock>>
  PROVE  EventsInv' /\ NothingNew
  <1> DEFINE e == Head(pending)
  <1>1. /\ pending \in Seq(EventSet) /\ Len(pending) \in Nat /\ Len(pending) > 0
        /\ e = pending[1] /\ e \in EventSet /\ pending' \in Seq(EventSet)
        /\ Len(pending') = Len(pending) - 1
        /\ \A i \in 1..Len(pending') : pending'[i] = pending[i + 1]
    <2>1. pending \in Seq(EventSet)
      BY DEF TypeOK, EventTypes
    <2>2. Len(pending) \in Nat /\ Len(pending) > 0
      BY <2>1, EmptySeq
    <2> QED
      BY <2>1, <2>2, HeadTailProperties
  <1> HIDE DEF e
  <1>2. \A i \in 1..Len(pending') : i + 1 \in 1..Len(pending) /\ 1 < i + 1
    BY <1>1
  <1>3. 1 \in 1..Len(pending)
    BY <1>1
  <1>4. e \in Retained
    BY <1>1, <1>3 DEF Retained
  <1>5. ASSUME NEW b \in Retained' PROVE b \in Retained /\ e.ord < b.ord
    <2>1. PICK i \in 1..Len(pending') : b = pending'[i]
      BY DEF Retained
    <2>2. i + 1 \in 1..Len(pending) /\ 1 < i + 1 /\ b = pending[i + 1]
      BY <1>1, <1>2, <2>1
    <2>3. pending[1].ord < pending[i + 1].ord
      BY <1>3, <2>2 DEF OrderInv, PendingSorted
    <2> QED
      BY <1>1, <2>2, <2>3 DEF Retained
  <1>6. OfWire' = OfWire /\ UnreadEvents' = UnreadEvents /\ Coming' = Coming
    BY DEF OfWire, UnreadEvents, Coming
  <1>7. WireSorted'
    BY <1>6 DEF OrderInv, WireSorted
  <1>8. PendingSorted'
    <2> SUFFICES ASSUME NEW i \in 1..Len(pending'), NEW j \in 1..Len(pending'), i < j
                 PROVE  pending'[i].ord < pending'[j].ord
      BY DEF PendingSorted
    <2>1. i + 1 < j + 1
      BY <1>1
    <2>2. pending[i + 1].ord < pending[j + 1].ord
      BY <1>2, <2>1 DEF OrderInv, PendingSorted
    <2> QED
      BY <1>1, <2>2
  <1>9. Layers'
    BY <1>5, <1>6 DEF OrderInv, Layers
  <1>10. got' = e
    BY DEF e
  <1>11. Younger'
    <2>1. \A b \in Coming : e.ord < b.ord
      BY <1>4 DEF OrderInv, Layers
    <2>2. e.ord <= clock /\ highest < e.ord
      BY <1>4 DEF OrderInv, Younger
    <2> QED
      BY <1>5, <1>6, <1>10, <2>1, <2>2 DEF OrderInv, Younger
  <1>12. Queue' \subseteq Queue /\ Seen' \subseteq Seen
    BY <1>4, <1>5, <1>6, <1>10 DEF Queue, Seen
  <1>13. EventTypes'
    BY <1>1, <1>10 DEF TypeOK, EventTypes
  <1> QED
    BY <1>7, <1>8, <1>9, <1>11, <1>12, <1>13, Numbers DEF EventsInv, OrderInv, NothingNew

\* The event was looked at: highestOrdinalSeen follows it.
LEMMA EventSeen ==
  ASSUME TypeOK, OrderInv, pc' # "handle", pending' \in {pending, <<>>},
         got' \in {got, NoEvent}, UNCHANGED <<last, wire, backlog, clock>>,
         \/ highest' = highest
         \/ pc = "handle" /\ highest' = Greater(highest, got.ord)
  PROVE  /\ EventsInv' /\ NothingNew /\ highest <= highest'
         /\ pc = "handle" => highest < got.ord
         /\ pc = "handle" /\ highest' # highest => highest' = got.ord
  <1>1. /\ highest \in Nat /\ clock \in Nat /\ got \in EventSet /\ got.ord \in Nat
        /\ highest <= clock /\ got.ord <= clock
    BY Numbers, AllEvents DEF OrderInv, Younger
  <1>2. pc = "handle" => highest < got.ord
    BY DEF OrderInv, Younger
  <1>3. \/ highest' = highest
        \/ pc = "handle" /\ highest' = got.ord
    BY <1>1, <1>2 DEF Greater
  <1>4. pending \in Seq(EventSet)
    BY DEF TypeOK, EventTypes
  <1>5. Retained' \subseteq Retained /\ pending' \in Seq(EventSet) /\ PendingSorted'
    BY <1>4, FewerRetained DEF OrderInv
  <1>6. OfWire' = OfWire /\ UnreadEvents' = UnreadEvents /\ Coming' = Coming
    BY DEF OfWire, UnreadEvents, Coming
  <1>7. WireSorted'
    BY <1>6 DEF OrderInv, WireSorted
  <1>8. Layers'
    BY <1>5, <1>6 DEF OrderInv, Layers
  <1>9. highest' \in Nat /\ highest <= highest' /\ highest' <= clock
    BY <1>1, <1>2, <1>3
  <1>10. \A b \in Retained' \cup Coming' : highest' < b.ord
    BY <1>3, <1>5, <1>6 DEF OrderInv, Younger
  <1>11. got'.ord <= clock
    BY <1>1, NoEventType
  <1>12. Younger'
    BY <1>5, <1>6, <1>9, <1>10, <1>11 DEF OrderInv, Younger
  <1>13. Queue' \subseteq Queue \cup {NoEvent} /\ Seen' \subseteq Seen \cup {NoEvent}
    BY <1>5, <1>6 DEF Queue, Seen
  <1>14. wire' \in Seq(FrameSet) /\ {got', last'} \cup backlog' \subseteq EventSet
    BY NoEventType DEF TypeOK, EventTypes
  <1>15. EventTypes'
    BY <1>5, <1>14 DEF EventTypes
  <1> QED
    BY <1>2, <1>3, <1>5, <1>7, <1>8, <1>9, <1>12, <1>13, <1>15
       DEF EventsInv, OrderInv, NothingNew

\* The T2 answers a request.
LEMMA ReplySent ==
  ASSUME TypeOK, OrderInv, NEW f \in FrameSet, ~f.event, wire' = Append(wire, f),
         UNCHANGED <<pc, got, last, highest, clock, pending, backlog>>
  PROVE  EventsInv' /\ NothingNew /\ Queue' = Queue
  <1>1. wire' \in Seq(FrameSet) /\ WireSorted' /\ UnreadEvents' = UnreadEvents
    BY AddFrame
  <1>2. Retained' = Retained /\ Coming' = Coming
    BY <1>1 DEF Retained, Coming
  <1>3. PendingSorted'
    BY DEF OrderInv, PendingSorted
  <1>4. Layers' /\ Younger'
    BY <1>1, <1>2 DEF OrderInv, Layers, Younger
  <1>5. EventTypes'
    BY <1>1 DEF TypeOK, EventTypes
  <1> QED
    BY <1>1, <1>2, <1>3, <1>4, <1>5, Numbers DEF EventsInv, OrderInv, NothingNew, Queue, Seen

\* The T2 sends the oldest event it has kept.
LEMMA DeliversEvents ==
  ASSUME TypeOK, OrderInv, Delivers
  PROVE  EventsInv' /\ NothingNew /\ Queue' = Queue
  <1>1. PICK e \in backlog :
          /\ \A f \in backlog : e.ord <= f.ord
          /\ wire' = Append(wire, EventFrame(e)) /\ backlog' = backlog \ {e}
    BY DEF Delivers
  <1>2. UNCHANGED <<pc, got, last, highest, clock, pending>>
    BY DEF Delivers, ours, control, evidence
  <1>3. e \in EventSet /\ e \in Coming /\ backlog \subseteq EventSet
    BY DEF TypeOK, EventTypes, Coming
  <1>4. EventFrame(e) \in FrameSet /\ EventFrame(e).event /\ EventFrame(e).e = e
    BY <1>3 DEF EventFrame, FrameSet
  <1>5. \A a \in UnreadEvents : a.ord < e.ord
    BY DEF OrderInv, Layers
  <1>6. wire' \in Seq(FrameSet) /\ WireSorted' /\ UnreadEvents' = UnreadEvents \cup {e}
    BY <1>1, <1>4, <1>5, AddFrame
  <1>7. Retained' = Retained /\ Coming' = Coming
    BY <1>1, <1>2, <1>6 DEF Retained, Coming
  <1>8. PendingSorted'
    BY <1>2 DEF OrderInv, PendingSorted
  <1>9. \A f \in backlog' : e.ord < f.ord
    <2> TAKE f \in backlog'
    <2>1. f \in backlog /\ f # e /\ e.ord <= f.ord /\ e.ord # f.ord
      BY <1>1 DEF OrderInv, Layers
    <2>2. e.ord \in Nat /\ f.ord \in Nat
      BY <1>3, <2>1 DEF EventSet
    <2> QED
      BY <2>1, <2>2
  <1>10. Layers'
    BY <1>1, <1>6, <1>7, <1>9 DEF OrderInv, Layers
  <1>11. Younger'
    BY <1>2, <1>7 DEF OrderInv, Younger
  <1>12. EventTypes'
    BY <1>1, <1>2, <1>6 DEF TypeOK, EventTypes
  <1> QED
    BY <1>2, <1>6, <1>7, <1>8, <1>10, <1>11, <1>12, Numbers
       DEF EventsInv, OrderInv, NothingNew, Queue, Seen

\* The connection is gone; what the T2 could not deliver it keeps.
LEMMA FinishEvents ==
  ASSUME TypeOK, OrderInv, Finish
  PROVE  /\ EventsInv' /\ Seen' \subseteq Seen \cup {NoEvent}
         /\ \A e \in Queue' : e.code = "armed" => ArmIsKept
  <1>1. PICK kept \in {{}, UnreadEvents \cup ({last} \ {NoEvent})} :
          backlog' = Redelivered(kept \cup backlog)
    BY DEF Finish
  <1>2. /\ pc' = "idle" /\ got' = NoEvent /\ last' = NoEvent /\ highest' = 0
        /\ pending' = <<>> /\ wire' = <<>> /\ clock' = clock
    BY DEF Finish
  <1>3. /\ Len(pending') = 0 /\ Len(wire') = 0
        /\ pending' \in Seq(EventSet) /\ wire' \in Seq(FrameSet)
    BY <1>2, EmptySeq
  <1>4. Retained' = {} /\ OfWire' = {} /\ UnreadEvents' = {} /\ Coming' = backlog'
    BY <1>3 DEF Retained, OfWire, UnreadEvents, Coming
  <1>5. /\ backlog' \subseteq UnreadEvents \cup ({last} \ {NoEvent}) \cup backlog
        /\ \A e \in backlog' : ArmIsKept \/ e.code # "armed"
    BY <1>1 DEF Redelivered
  <1>6. backlog' \subseteq Seen /\ backlog' \subseteq Coming \cup {last}
    BY <1>5 DEF Seen, Queue, Coming
  <1>7. \A b \in backlog' : b \in EventSet /\ b.ord \in Nat /\ b.ord <= clock /\ 0 < b.ord
    <2> TAKE b \in backlog'
    <2>1. b \in EventSet /\ b.ord \in Nat /\ b.ord <= clock
      BY <1>6, AllEvents DEF OrderInv, Younger
    <2>2. CASE b \in Coming
      <3>1. highest < b.ord /\ highest \in Nat
        BY <2>2, Numbers DEF OrderInv, Younger
      <3> QED
        BY <2>1, <3>1
    <2>3. CASE b = last /\ last # NoEvent
      BY <2>1, <2>3 DEF OrderInv, Younger
    <2> QED
      BY <1>5, <2>1, <2>2, <2>3 DEF Coming
  <1>8. \A a, b \in backlog' : a.ord = b.ord => a = b
    <2>1. \A a, b \in Coming : a.ord = b.ord => a = b
      <3> SUFFICES ASSUME NEW a \in Coming, NEW b \in Coming, a.ord = b.ord
                   PROVE  a = b
        OBVIOUS
      <3>1. a.ord \in Nat /\ b.ord \in Nat
        BY AllEvents
      <3>2. a \in UnreadEvents <=> b \in UnreadEvents
        BY <3>1 DEF Coming, OrderInv, Layers
      <3>3. CASE a \in UnreadEvents /\ b \in UnreadEvents
        <4>1. PICK i \in OfWire : a = wire[i].e
          BY <3>3, AllEvents
        <4>2. PICK j \in OfWire : b = wire[j].e
          BY <3>3, AllEvents
        <4>3. ~(i < j) /\ ~(j < i)
          BY <3>1, <4>1, <4>2 DEF OrderInv, WireSorted
        <4>4. i = j
          BY <4>3, AllEvents DEF OfWire
        <4> QED
          BY <4>1, <4>2, <4>4
      <3>4. CASE a \in backlog /\ b \in backlog
        BY <3>4 DEF OrderInv, Layers
      <3> QED
        BY <3>2, <3>3, <3>4 DEF Coming
    <2>2. \A b \in Coming : last.ord < b.ord /\ b.ord \in Nat /\ last.ord \in Nat
      BY AllEvents DEF OrderInv, Younger
    <2>3. \A b \in Coming : last.ord # b.ord
      BY <2>2
    <2> QED
      BY <1>6, <2>1, <2>3
  <1>9. PendingSorted' /\ WireSorted'
    BY <1>3, <1>4 DEF PendingSorted, WireSorted
  <1>10. Layers'
    BY <1>4, <1>8 DEF Layers
  <1>11. Younger'
    BY <1>2, <1>4, <1>7, NoEventType, Numbers DEF Younger
  <1>12. EventTypes'
    <2>1. {got', last'} \cup backlog' \subseteq EventSet
      BY <1>2, <1>7, NoEventType
    <2> QED
      BY <1>3, <2>1 DEF EventTypes
  <1>13. Seen' \subseteq Seen \cup {NoEvent} /\ Queue' = backlog' \cup {NoEvent}
    BY <1>2, <1>4, <1>6 DEF Seen, Queue
  <1>14. \A e \in Queue' : e.code = "armed" => ArmIsKept
    BY <1>5, <1>13, NoEventType
  <1> QED
    BY <1>2, <1>9, <1>10, <1>11, <1>12, <1>13, <1>14 DEF EventsInv, OrderInv

LEMMA Goes ==
  /\ \A o : Leave(o) => pc' = "return"
  /\ \A c : Call(c) => pc' = "send"
  /\ CancelSent => pc' \in {"send", "return"}
  /\ Fails => pc' \in {"send", "return"}
  /\ \A f : Succeeds(f) => pc' \in {"send", "return", "compare", "loop"}
  <1>1. /\ \A o : Leave(o) => pc' = "return"
        /\ \A c : Call(c) => pc' = "send"
    BY DEF Leave, Call
  <1>2. CancelSent => pc' \in {"send", "return"}
    BY <1>1 DEF CancelSent, Conclude
  <1>3. Fails => pc' \in {"send", "return"}
    <2> SUFFICES ASSUME Fails PROVE pc' \in {"send", "return"}
      OBVIOUS
    <2>1. CancelSent \/ Call(Follower(cmd)) \/ Leave("TransportError") \/ Conclude("TransportError")
      BY DEF Fails
    <2> QED
      BY <1>1, <1>2, <2>1 DEF Conclude
  <1>4. ASSUME NEW f, Succeeds(f) PROVE pc' \in {"send", "return", "compare", "loop"}
    <2>1. \/ \E o : Leave(o)
          \/ \E c : Call(c)
          \/ CancelSent
          \/ pc' = "compare" \/ pc' = "loop"
      BY <1>4 DEF Succeeds, Conclude
    <2> QED
      BY <1>1, <1>2, <2>1
  <1> QED
    BY <1>1, <1>2, <1>3, <1>4

\* The steps that bring no new event.
Quiet == \/ Begin \/ Interrupted \/ Send \/ ReadEvent \/ ReadStray \/ ReadReply \/ ReadFails
         \/ Compare \/ DeliverPending \/ DeliverFromWire \/ LoopEnds \/ HandleStatus
         \/ HandleMatchResult \/ Answers \/ StartRejected \/ Delivers \/ Drops
         \/ IdentitiesChange \/ SignalCancel \/ UNCHANGED vars

LEMMA ReplyType ==
  ASSUME NEW c \in Cmds, NEW ok \in BOOLEAN, NEW l \in SUBSET Ids
  PROVE  Reply(c, ok, l) \in FrameSet /\ ~Reply(c, ok, l).event /\ Reply(c, ok, l).to = c
  BY NoEventType DEF Reply, FrameSet

LEMMA QuietEvents ==
  ASSUME TypeOK, OrderInv, Quiet
  PROVE  EventsInv' /\ NothingNew /\ highest <= highest' /\ clock' = clock
  <1>0. highest \in Nat /\ highest <= highest
    BY Numbers
  <1>1. CASE Begin
    <2>1. Untouched /\ UNCHANGED <<highest, clock>> /\ pc' # "handle"
      BY <1>1, Goes DEF Begin, Untouched, evidence, device, t2
    <2> QED
      BY <1>0, <2>1, UntouchedKeeps
  <1>2. CASE Interrupted \/ Compare \/ ReadFails
    <2>1. Untouched /\ UNCHANGED <<highest, clock>>
      BY <1>2 DEF Interrupted, Compare, ReadFails, Rest, Untouched, evidence, link, device, t2
    <2>2. pc' # "handle"
      BY <1>2, Goes DEF Interrupted, Compare, ReadFails
    <2> QED
      BY <1>0, <2>1, <2>2, UntouchedKeeps
  <1>3. CASE Drops \/ IdentitiesChange \/ SignalCancel \/ UNCHANGED vars
    <2>1. Untouched /\ UNCHANGED <<highest, clock, pc>>
      BY <1>3 DEF Drops, IdentitiesChange, SignalCancel, vars, Untouched, ours, control,
                  evidence, link, device, t2
    <2> QED
      BY <1>0, <2>1, UntouchedKeeps
  <1>4. CASE Send
    <2>1. pc # "handle" /\ DiscardPendingEvents /\ UNCHANGED <<got, last, wire, backlog, clock>>
      BY <1>4 DEF Send, device, t2
    <2>2. pc' # "handle"
      BY <1>4, Goes DEF Send
    <2> QED
      BY <2>1, <2>2, SendEvents
  <1>5. CASE ReadEvent
    <2>1. /\ wire # <<>> /\ Head(wire).event /\ wire' = Tail(wire) /\ last' = Head(wire).e
          /\ UNCHANGED <<highest, clock, backlog, got>>
          /\ pending' = Append(pending, Head(wire).e) \/ pending' = pending
      BY <1>5 DEF ReadEvent, Rest, evidence, t2
    <2>2. pc' # "handle"
      BY <1>5, Goes DEF ReadEvent
    <2> QED
      BY <1>0, <2>1, <2>2, EventTaken
  <1>6. CASE ReadStray \/ ReadReply
    <2>1. /\ wire # <<>> /\ ~Head(wire).event /\ wire' = Tail(wire)
          /\ UNCHANGED <<got, last, highest, clock, pending, backlog>>
      BY <1>6 DEF ReadStray, ReadReply, Rest, evidence, t2
    <2>2. pc' # "handle"
      BY <1>6, Goes DEF ReadStray, ReadReply
    <2> QED
      BY <1>0, <2>1, <2>2, ReplyTaken
  <1>7. CASE DeliverPending
    <2>1. /\ pending # <<>> /\ got' = Head(pending) /\ pending' = Tail(pending)
          /\ UNCHANGED <<last, wire, backlog, highest, clock>>
      BY <1>7 DEF DeliverPending, evidence, device, t2
    <2> QED
      BY <1>0, <2>1, PendingTaken
  <1>8. CASE DeliverFromWire
    <2>1. /\ pc = "loop" /\ pending = <<>> /\ wire # <<>> /\ wire' = Tail(wire)
          /\ UNCHANGED <<highest, clock, backlog>>
      BY <1>8 DEF DeliverFromWire, NothingRetained, evidence, t2
    <2>2. CASE ~Head(wire).event
      <3>1. UNCHANGED <<pc, got, last, pending>>
        BY <1>8, <2>2 DEF DeliverFromWire
      <3> QED
        BY <1>0, <2>1, <2>2, <3>1, ReplyTaken
    <2>3. CASE Head(wire).event
      <3>1. last' = Head(wire).e
        BY <1>8, <2>3 DEF DeliverFromWire
      <3>2. \/ got' = Head(wire).e /\ pending' = pending
            \/ pc' # "handle" /\ pending' = <<>> /\ got' = got
        BY <1>8, <2>3, Goes DEF DeliverFromWire, Ends, Forget, ForgetOrder
      <3> QED
        BY <1>0, <2>1, <2>3, <3>1, <3>2, EventTaken
    <2> QED
      BY <2>2, <2>3
  <1>9. CASE LoopEnds \/ HandleStatus \/ HandleMatchResult
    <2>1. /\ pending' \in {pending, <<>>} /\ got' \in {got, NoEvent}
          /\ UNCHANGED <<last, wire, backlog, clock>>
          /\ \/ highest' = highest
             \/ pc = "handle" /\ highest' = Greater(highest, got.ord)
      BY <1>9 DEF LoopEnds, HandleStatus, HandleMatchResult, Forget, ForgetOrder, device, t2, link
    <2>2. pc' # "handle"
      BY <1>9, Goes DEF LoopEnds, HandleStatus, HandleMatchResult, Ends
    <2> QED
      BY <2>1, <2>2, EventSeen
  <1>10. CASE Answers
    <2>1. PICK l \in SUBSET Ids : wire' = Append(wire, Reply(Head(reqs), TRUE, l))
      <3> DEFINE l == CASE Head(reqs) \in {"ids1", "ids2", "ids3"}    -> inv \ Foreign
                        [] Head(reqs) \in {"glob1", "glob2", "glob3"} -> inv
                        [] OTHER -> {}
      <3>1. wire' = Append(wire, Reply(Head(reqs), TRUE, l))
        BY <1>10 DEF Answers
      <3>2. inv \subseteq Ids
        BY DEF TypeOK, DataTypes
      <3>3. l \in SUBSET Ids
        BY <3>2
      <3> QED
        BY <3>1, <3>3
    <2>2. Head(reqs) \in Cmds
      BY <1>10, HeadTailProperties DEF Answers, TypeOK, DataTypes
    <2>3. UNCHANGED <<pc, got, last, highest, clock, pending, backlog>>
      BY <1>10 DEF Answers, ours, control, evidence
    <2> QED
      BY <1>0, <2>1, <2>2, <2>3, ReplyType, ReplySent
  <1>11. CASE StartRejected
    <2>1. wire' = Append(wire, Reply("start", FALSE, {})) /\ "start" \in Cmds
      BY <1>11, CmdsAre DEF StartRejected
    <2>2. UNCHANGED <<pc, got, last, highest, clock, pending, backlog>>
      BY <1>11 DEF StartRejected, ours, control, evidence, t2
    <2> QED
      BY <1>0, <2>1, <2>2, ReplyType, ReplySent
  <1>12. CASE Delivers
    <2>1. clock' = clock /\ highest' = highest
      BY <1>12 DEF Delivers, ours, evidence
    <2> QED
      BY <1>0, <1>12, <2>1, DeliversEvents
  <1> QED
    BY <1>1, <1>2, <1>3, <1>4, <1>5, <1>6, <1>7, <1>8, <1>9, <1>10, <1>11, <1>12 DEF Quiet

\* The steps in which the T2 emits events.
Emits(events) ==
  /\ events \in Seq(EventSet) /\ Emit(events)
  /\ \A k \in 1..Len(events) : events[k].ord = clock + k
  /\ UNCHANGED <<ours>>

LEMMA HeadOfImages ==
  ASSUME TypeOK, images # <<>>
  PROVE  /\ Head(images) \in Nat /\ Tail(images) \in Seq(Nat) /\ Head(images) = images[1]
         /\ Len(images) \in Nat /\ Len(images) > 0 /\ Len(Tail(images)) = Len(images) - 1
         /\ \A i \in 1..Len(Tail(images)) : Tail(images)[i] = images[i + 1]
  <1>1. images \in Seq(Nat)
    BY DEF TypeOK, DataTypes
  <1>2. Len(images) \in Nat /\ Len(images) > 0 /\ Head(images) = images[1]
    BY <1>1, EmptySeq
  <1> QED
    BY <1>1, <1>2, HeadTailProperties

LEMMA OneEvent ==
  ASSUME TypeOK, NEW code \in Codes, NEW cap \in Nat,
         Emit(<<Event(code, clock + 1, cap, NoId)>>), UNCHANGED ours
  PROVE  /\ Emits(<<Event(code, clock + 1, cap, NoId)>>)
         /\ Sent(<<Event(code, clock + 1, cap, NoId)>>) = {Event(code, clock + 1, cap, NoId)}
  <1>1. clock \in Nat
    BY Numbers
  <1>2. Event(code, clock + 1, cap, NoId) \in EventSet
    BY <1>1 DEF Event, EventSet
  <1>3. Event(code, clock + 1, cap, NoId).ord = clock + 1
    BY DEF Event
  <1> QED
    BY <1>2, <1>3 DEF Emits, Sent

LEMMA EmitsEvents ==
  ASSUME TypeOK, OrderInv, NEW events, Emits(events)
  PROVE  /\ EventsInv' /\ clock' \in Nat /\ clock <= clock'
         /\ Queue' = Queue \cup Sent(events) /\ Seen' = Seen \cup Sent(events)
         /\ \A e \in Sent(events) : clock < e.ord
         /\ \A i \in 1..Len(wire') : (i \in 1..Len(wire) /\ wire'[i] = wire[i]) \/ wire'[i].event
  <1>1. UNCHANGED <<pc, got, last, highest, pending>>
    BY DEF Emits, ours, control, evidence
  <1>2. /\ OrderInv' /\ clock' \in Nat /\ clock <= clock'
        /\ wire' \in Seq(FrameSet) /\ backlog' \subseteq EventSet
        /\ Coming' = Coming \cup Sent(events)
        /\ \A i \in 1..Len(wire') : (i \in 1..Len(wire) /\ wire'[i] = wire[i]) \/ wire'[i].event
    BY <1>1, EmitOrder DEF Emits
  <1>3. Retained' = Retained
    BY <1>1 DEF Retained
  <1>4. Queue' = Queue \cup Sent(events) /\ Seen' = Seen \cup Sent(events)
    BY <1>1, <1>2, <1>3 DEF Queue, Seen
  <1>5. EventTypes'
    BY <1>1, <1>2 DEF TypeOK, EventTypes
  <1>6. ASSUME NEW e \in Sent(events) PROVE clock < e.ord
    <2>1. PICK k \in 1..Len(events) : e = events[k]
      BY DEF Sent
    <2>2. k \in Nat /\ k > 0 /\ e.ord = clock + k
      BY <2>1, LenProperties DEF Emits
    <2> QED
      BY <2>2, Numbers
  <1> QED
    BY <1>1, <1>2, <1>4, <1>5, <1>6, Numbers DEF EventsInv

LEMMA NextParts ==
  ASSUME [Next]_vars
  PROVE  Quiet \/ Finish \/ StartArms \/ FingerOn \/ Captures \/ Accepts \/ Judges
  BY DEF Next, Worker, T2, Quiet

LEMMA JudgesOne ==
  ASSUME TypeOK, Judges
  PROVE  \E events : \E id \in Ids \cup {NoId} :
           /\ Emits(events) /\ clock' = clock + 1
           /\ Sent(events) = {Event("match", clock + 1, Head(images), id)}
  <1>1. PICK id \in (Ids \ Foreign) \cup {NoId} :
          Emit(<<Event("match", clock + 1, Head(images), id)>>)
    BY DEF Judges
  <1>2. Head(images) \in Nat /\ clock \in Nat /\ UNCHANGED ours
    BY HeadOfImages, Numbers DEF Judges
  <1> DEFINE m == Event("match", clock + 1, Head(images), id)
  <1>3. m \in EventSet /\ m.ord = clock + 1
    BY <1>2 DEF Event, EventSet, Codes
  <1> HIDE DEF m
  <1>4. Emit(<<m>>)
    BY <1>1 DEF m
  <1>5. Emits(<<m>>) /\ Sent(<<m>>) = {m} /\ clock' = clock + 1
    BY <1>2, <1>3, <1>4 DEF Emits, Sent, Emit
  <1>6. id \in Ids \cup {NoId}
    OBVIOUS
  <1> QED
    BY <1>5, <1>6 DEF m

\* Arming, a finger, an image and its acceptance are one event each.
LEMMA StatusEmitted ==
  ASSUME TypeOK, StartArms \/ FingerOn \/ Captures \/ Accepts
  PROVE  \E code \in Codes : \E cap \in Nat :
           Emit(<<Event(code, clock + 1, cap, NoId)>>) /\ UNCHANGED ours
  <1>0. /\ {"armed", "fingerOn", "captured", "accepted"} \subseteq Codes
        /\ 0 \in Nat /\ clock + 1 \in Nat
    BY Numbers DEF Codes
  <1>1. CASE StartArms
    BY <1>0, <1>1 DEF StartArms
  <1>2. CASE FingerOn
    BY <1>0, <1>2 DEF FingerOn
  <1>3. CASE Captures
    BY <1>0, <1>3 DEF Captures
  <1>4. CASE Accepts
    BY <1>0, <1>4, HeadOfImages DEF Accepts
  <1> QED
    BY <1>1, <1>2, <1>3, <1>4

LEMMA NextEvents ==
  ASSUME TypeOK, OrderInv, [Next]_vars
  PROVE  EventsInv'
  <1>1. CASE Quiet
    BY <1>1, QuietEvents
  <1>2. CASE Finish
    BY <1>2, FinishEvents
  <1>3. CASE StartArms \/ FingerOn \/ Captures \/ Accepts
    <2>1. \E code \in Codes : \E cap \in Nat :
            Emit(<<Event(code, clock + 1, cap, NoId)>>) /\ UNCHANGED ours
      BY <1>3, StatusEmitted
    <2> QED
      BY <2>1, OneEvent, EmitsEvents
  <1>4. CASE Judges
    BY <1>4, JudgesOne, EmitsEvents
  <1> QED
    BY <1>1, <1>2, <1>3, <1>4, NextParts

LEMMA InitOrder == Init => OrderInv
  <1> SUFFICES ASSUME Init PROVE OrderInv
    OBVIOUS
  <1>1. Len(pending) = 0 /\ Len(wire) = 0
    BY EmptySeq DEF Init
  <1>2. Retained = {} /\ OfWire = {} /\ UnreadEvents = {} /\ Coming = {}
    BY <1>1 DEF Init, Retained, OfWire, UnreadEvents, Coming
  <1>3. PendingSorted /\ WireSorted /\ Layers
    BY <1>1, <1>2 DEF Init, PendingSorted, WireSorted, Layers
  <1>4. Younger
    BY <1>2, NoEventType DEF Init, Younger
  <1> QED
    BY <1>3, <1>4 DEF OrderInv

-----------------------------------------------------------------------------
(* Every step keeps the types. *)

LEMMA Still ==
  ASSUME TypeOK, UNCHANGED <<pc, cmd, outcome>>
  PROVE  ControlTypes'
  BY DEF TypeOK, ControlTypes

LEMMA MovesType ==
  ASSUME Moves
  PROVE  ControlTypes'
  BY CmdsAre DEF Moves, Positions, ControlTypes

LEMMA NextControl ==
  ASSUME TypeOK, IInv, [Next]_vars
  PROVE  ControlTypes'
  <1>0. /\ outcome \in Outcomes /\ "none" \notin Cmds
        /\ {"Match", "NoMatch", "Timeout", "TransportError", "Rejected", "Malformed", "Cancelled",
            "Unstable"} \subseteq Outcomes
    BY CmdsAre DEF TypeOK, ControlTypes, Outcomes
  <1>1. CASE Begin
    <2>1. Call(FirstAfter(0)) /\ outcome' = outcome /\ FirstAfter(0) \in Cmds
      BY <1>1, FirstCommand, CmdsAre DEF Begin
    <2> QED
      BY <1>0, <2>1, CallMoves, MovesType
  <1>2. CASE Interrupted \/ Compare
    <2>1. \/ Leave("Cancelled") \/ Leave("Unstable")
          \/ Call("start") /\ outcome' = outcome
      BY <1>2 DEF Interrupted, Compare
    <2>2. "start" \in Cmds
      BY CmdsAre
    <2> QED
      BY <1>0, <2>1, <2>2, CallMoves, LeaveMoves, MovesType
  <1>3. CASE Send
    <2>1. Fails \/ (pc = "send" /\ pc' = "read" /\ UNCHANGED <<cmd, outcome>>)
      BY <1>3 DEF Send
    <2>2. pc = "send" /\ pc' = "read" /\ UNCHANGED <<cmd, outcome>> => ControlTypes'
      BY DEF TypeOK, ControlTypes
    <2> QED
      BY <2>1, <2>2, FailsMoves, MovesType
  <1>4. CASE ReadEvent \/ ReadStray \/ ReadFails
    <2>1. Fails \/ UNCHANGED <<pc, cmd, outcome>>
      BY <1>4 DEF ReadEvent, ReadStray, ReadFails
    <2> QED
      BY <2>1, FailsMoves, MovesType, Still
  <1>5. CASE ReadReply
    <2>1. Calling
      BY <1>5 DEF ReadReply, Calling
    <2>2. Succeeds(Head(wire)) \/ Fails \/ Leave("Rejected")
      BY <1>5 DEF ReadReply
    <2> QED
      BY <1>0, <2>1, <2>2, SucceedsMoves, FailsMoves, LeaveMoves, MovesType
  <1>6. CASE DeliverPending \/ HandleStatus
    <2>1. pc \in {"loop", "handle"} /\ pc' \in {"loop", "handle"} /\ UNCHANGED <<cmd, outcome>>
      BY <1>6 DEF DeliverPending, HandleStatus
    <2> QED
      BY <2>1 DEF TypeOK, ControlTypes
  <1>7. CASE DeliverFromWire \/ LoopEnds
    <2>1. pc = "loop"
      BY <1>7 DEF DeliverFromWire, LoopEnds
    <2>2. \/ pc' \in {"loop", "handle"} /\ UNCHANGED <<cmd, outcome>>
          \/ Call("cancel2") /\ outcome' \in {"Cancelled", "Timeout", "TransportError"}
      BY <1>7, <2>1 DEF DeliverFromWire, LoopEnds, Ends
    <2>3. pc' \in {"loop", "handle"} /\ UNCHANGED <<cmd, outcome>> => ControlTypes'
      BY <2>1 DEF TypeOK, ControlTypes
    <2>4. "cancel2" \in Cmds
      BY CmdsAre DEF After
    <2> QED
      BY <1>0, <2>2, <2>3, <2>4, CallMoves, MovesType
  <1>8. CASE HandleMatchResult
    <2>1. Call("cancel2") /\ outcome' \in {"Match", "NoMatch"}
      BY <1>8 DEF HandleMatchResult
    <2>2. "cancel2" \in Cmds
      BY CmdsAre DEF After
    <2> QED
      BY <1>0, <2>1, <2>2, CallMoves, MovesType
  <1>9. CASE Finish
    <2>1. pc' = "idle" /\ cmd' = "none" /\ outcome' = "Timeout"
      BY <1>9 DEF Finish
    <2> QED
      BY <1>0, <2>1 DEF ControlTypes
  <1>10. CASE T2 \/ SignalCancel \/ UNCHANGED vars
    <2>1. UNCHANGED <<pc, cmd, outcome>>
      BY <1>10 DEF T2, StartArms, Answers, StartRejected, Delivers, FingerOn, Captures, Accepts,
             Judges,
                   Drops, IdentitiesChange, SignalCancel, vars, ours, control
    <2> QED
      BY <2>1, Still
  <1> QED
    BY <1>1, <1>2, <1>3, <1>4, <1>5, <1>6, <1>7, <1>8, <1>9, <1>10 DEF Next, Worker

LEMMA NextFlags ==
  ASSUME TypeOK, [Next]_vars
  PROVE  FlagTypes'
  <1>0. FlagTypes
    BY DEF TypeOK
  <1>1. CASE Begin \/ Interrupted \/ Send \/ ReadEvent \/ ReadStray \/ ReadReply \/ ReadFails
    <2>1. UNCHANGED <<live, cancel, forceLong, armed, touching, serving>> /\ conn' \in {conn,
           "up"}
      BY <1>1 DEF Begin, Interrupted, Send, ReadEvent, ReadStray, ReadReply, ReadFails, Rest,
                  queue, device, t2, link
    <2> QED
      BY <1>0, <2>1 DEF FlagTypes
  <1>2. CASE Compare \/ DeliverPending \/ DeliverFromWire \/ LoopEnds \/ HandleStatus
    <2>1. UNCHANGED <<live, cancel, forceLong, armed, touching, serving, conn>>
      BY <1>2 DEF Compare, DeliverPending, DeliverFromWire, LoopEnds, HandleStatus, Rest,
                  queue, device, t2, link
    <2> QED
      BY <1>0, <2>1 DEF FlagTypes
  <1>3. CASE HandleMatchResult
    <2>1. UNCHANGED <<cancel, forceLong, armed, touching, serving, conn>> /\ live' \in BOOLEAN
      BY <1>3, LiveAssumption DEF HandleMatchResult, queue, device, t2
    <2> QED
      BY <1>0, <2>1 DEF FlagTypes
  <1>4. CASE Finish
    <2>1. /\ live' = TRUE /\ cancel' = FALSE /\ conn' = "none" /\ serving' = "none"
          /\ UNCHANGED <<armed, touching>> /\ forceLong' \in {TRUE, FALSE, forceLong}
      BY <1>4 DEF Finish
    <2> QED
      BY <1>0, <2>1 DEF FlagTypes
  <1>5. CASE \/ StartArms \/ StartRejected \/ Delivers \/ FingerOn \/ Captures \/ Accepts
             \/ Judges
    <2>1. /\ UNCHANGED <<live, cancel, forceLong, conn>> /\ armed' \in {armed, TRUE}
          /\ touching' \in {touching, TRUE, FALSE} /\ serving' \in {serving, "start"}
      BY <1>5 DEF StartArms, StartRejected, Delivers, FingerOn, Captures, Accepts, Judges, ours,
             control,
                  queue, t2
    <2> QED
      BY <1>0, <2>1 DEF FlagTypes
  <1>6. CASE Answers
    <2>1. UNCHANGED <<live, cancel, forceLong, conn>> /\ serving' = "none"
      BY <1>6 DEF Answers, ours, control, queue
    <2>2. armed' \in BOOLEAN
      BY <1>6 DEF Answers
    <2>3. touching' \in BOOLEAN
      BY <1>6 DEF Answers
    <2> QED
      BY <1>0, <2>1, <2>2, <2>3 DEF FlagTypes
  <1>7. CASE Drops \/ IdentitiesChange \/ SignalCancel \/ UNCHANGED vars
    <2>1. /\ UNCHANGED <<live, forceLong, armed, touching>> /\ serving' \in {serving, "none"}
          /\ conn' \in {conn, "dead"} /\ cancel' \in {cancel, TRUE}
      BY <1>7 DEF Drops, IdentitiesChange, SignalCancel, vars, ours, control, queue, device, t2,
                  link
    <2> QED
      BY <1>0, <2>1 DEF FlagTypes
  <1> QED
    BY <1>1, <1>2, <1>3, <1>4, <1>5, <1>6, <1>7 DEF Next, Worker, T2

LEMMA NextCounts ==
  ASSUME TypeOK, [Next]_vars
  PROVE  sessions' \in 0..MaxSessions /\ incidents' \in 0..MaxIncidents
  <1>1. sessions \in 0..MaxSessions /\ incidents \in 0..MaxIncidents
    BY DEF TypeOK, NumberTypes
  <1>2. \/ sessions' = sessions
        \/ sessions < MaxSessions /\ sessions' = sessions + 1
    BY DEF Next, Worker, T2, Begin, Interrupted, Send, ReadEvent, ReadStray, ReadReply, ReadFails,
           Rest, Compare, DeliverPending, DeliverFromWire, LoopEnds, HandleStatus,
           HandleMatchResult, Finish, StartArms, Answers, StartRejected, Delivers, FingerOn,
           Captures, Accepts, Judges, Drops, IdentitiesChange, SignalCancel, vars, ours, control
  <1>3. incidents' = incidents \/ Incident
    BY DEF Next, Worker, T2, Begin, Interrupted, Send, ReadEvent, ReadStray, ReadReply, ReadFails,
           Rest, Compare, DeliverPending, DeliverFromWire, LoopEnds, HandleStatus,
           HandleMatchResult, Finish, StartArms, Answers, StartRejected, Delivers, FingerOn,
           Captures, Accepts, Judges, Drops, IdentitiesChange, SignalCancel, vars, device
  <1> QED
    BY <1>1, <1>2, <1>3, BoundsAssumption DEF Incident

LEMMA NextNumbers ==
  ASSUME TypeOK, EventsInv', clock' \in Nat, [Next]_vars
  PROVE  NumberTypes'
  <1>0. /\ highest \in Nat /\ barrier \in Nat /\ finger \in Nat /\ captured \in Nat
        /\ imageTs \in Nat /\ mark \in Nat /\ clock \in Nat /\ armedAt \in Nat
        /\ noted \in Nat /\ shotAt \in Nat /\ got.ord \in Nat /\ got.cap \in Nat /\ highest' \in Nat
    BY Numbers DEF TypeOK, EventTypes, EventSet, EventsInv
  <1>1. \/ UNCHANGED <<barrier, finger, captured, imageTs>>
        \/ barrier' = 0 /\ finger' = 0 /\ captured' = 0 /\ imageTs' \in {imageTs, 0}
        \/ Observe
    BY DEF Next, Worker, T2, Begin, Interrupted, Send, ReadEvent, ReadStray, ReadReply, ReadFails,
           Rest, Compare, DeliverPending, DeliverFromWire, LoopEnds, HandleStatus,
           HandleMatchResult, Finish, StartArms, Answers, StartRejected, Delivers, FingerOn,
           Captures, Accepts, Judges, Drops, IdentitiesChange, SignalCancel, vars, ours,
                  evidence, Forget, ForgetOrder
  <1>2. barrier' \in Nat /\ finger' \in Nat /\ captured' \in Nat /\ imageTs' \in Nat
    <2>1. CASE Observe
      BY <1>0, <2>1 DEF Observe
    <2>2. CASE ~Observe
      BY <1>0, <1>1, <2>2
    <2> QED
      BY <2>1, <2>2
  <1>3. mark' = mark \/ ObserveSepOrdinal
    BY DEF Next, Worker, T2, Begin, Interrupted, Send, ReadEvent, ReadStray, ReadReply, ReadFails,
           Rest, Compare, DeliverPending, DeliverFromWire, LoopEnds, HandleStatus,
           HandleMatchResult, Finish, StartArms, Answers, StartRejected, Delivers, FingerOn,
           Captures, Accepts, Judges, Drops, IdentitiesChange, SignalCancel, vars, ours, queue
  <1>4. mark' \in Nat
    BY <1>0, <1>3 DEF ObserveSepOrdinal, Greater
  <1>5. armedAt' \in {armedAt, clock + 1, 0} /\ shotAt' \in {shotAt, clock + 1, 0}
    BY DEF Next, Worker, T2, Begin, Interrupted, Send, ReadEvent, ReadStray, ReadReply, ReadFails,
           Rest, Compare, DeliverPending, DeliverFromWire, LoopEnds, HandleStatus,
           HandleMatchResult, Finish, StartArms, Answers, StartRejected, Delivers, FingerOn,
           Captures, Accepts, Judges, Drops, IdentitiesChange, SignalCancel, vars, ghosts
  <1>6. noted' \in {noted, 0} \/ (images # <<>> /\ noted' = Head(images))
    BY DEF Next, Worker, T2, Begin, Interrupted, Send, ReadEvent, ReadStray, ReadReply, ReadFails,
           Rest, Compare, DeliverPending, DeliverFromWire, LoopEnds, HandleStatus,
           HandleMatchResult, Finish, StartArms, Answers, StartRejected, Delivers, FingerOn,
           Captures, Accepts, Judges, Drops, IdentitiesChange, SignalCancel, vars, device, t2
  <1>7. noted' \in Nat
    BY <1>0, <1>6, HeadOfImages
  <1> QED
    BY <1>0, <1>2, <1>4, <1>5, <1>7, NextCounts DEF NumberTypes

LEMMA NextClock ==
  ASSUME TypeOK, OrderInv, [Next]_vars
  PROVE  clock' \in Nat /\ clock <= clock'
  <1>0. clock \in Nat
    BY Numbers
  <1>1. CASE Quiet
    BY <1>0, <1>1, QuietEvents
  <1>2. CASE Finish
    BY <1>0, <1>2 DEF Finish
  <1>3. CASE StartArms \/ FingerOn \/ Captures \/ Accepts
    <2>1. PICK code \in Codes, cap \in Nat :
            Emit(<<Event(code, clock + 1, cap, NoId)>>) /\ UNCHANGED ours
      BY <1>3, StatusEmitted
    <2>2. Emits(<<Event(code, clock + 1, cap, NoId)>>)
      BY <2>1, OneEvent
    <2> QED
      BY <2>2, EmitsEvents
  <1>4. CASE Judges
    BY <1>4, JudgesOne, EmitsEvents
  <1> QED
    BY <1>1, <1>2, <1>3, <1>4, NextParts

LEMMA NextLists ==
  ASSUME TypeOK, [Next]_vars
  PROVE  snap' \in [Lists -> SUBSET Ids] /\ inv' \subseteq Ids
  <1>0. snap \in [Lists -> SUBSET Ids] /\ inv \subseteq Ids
    BY DEF TypeOK, DataTypes
  <1>1. inv' = inv \/ \E i \in Ids : inv' = IF i \in inv THEN inv \ {i} ELSE inv \cup {i}
    BY DEF Next, Worker, T2, Begin, Interrupted, Send, ReadEvent, ReadStray, ReadReply, ReadFails,
           Rest, Compare, DeliverPending, DeliverFromWire, LoopEnds, HandleStatus,
           HandleMatchResult, Finish, StartArms, Answers, StartRejected, Delivers, FingerOn,
           Captures, Accepts, Judges, Drops, IdentitiesChange, SignalCancel, vars, device, t2
  <1>2. \/ snap' = snap
        \/ snap' = [l \in Lists |-> {}]
        \/ /\ wire # <<>> /\ cmd \in Lists
           /\ snap' = [snap EXCEPT ![cmd] = Head(wire).list]
    BY DEF Next, Worker, T2, Begin, Interrupted, Send, ReadEvent, ReadStray, ReadReply, Succeeds,
           ReadFails, Compare, DeliverPending, DeliverFromWire, LoopEnds, HandleStatus,
           HandleMatchResult, Finish, StartArms, Answers, StartRejected, Delivers, FingerOn,
           Captures, Accepts, Judges, Drops, IdentitiesChange, SignalCancel, vars, ours
  <1>3. wire # <<>> => Head(wire).list \in SUBSET Ids
    BY HeadOfWire DEF FrameSet
  <1>4. [l \in Lists |-> {}] \in [Lists -> SUBSET Ids]
    OBVIOUS
  <1> QED
    BY <1>0, <1>1, <1>2, <1>3, <1>4

LEMMA NextRequests ==
  ASSUME TypeOK, [Next]_vars
  PROVE  reqs' \in Seq(Cmds)
  <1>1. reqs \in Seq(Cmds) /\ (pc = "send" => cmd \in Cmds)
    BY DEF TypeOK, DataTypes, ControlTypes
  <1>2. \/ reqs' = reqs
        \/ reqs' = <<>>
        \/ pc = "send" /\ reqs' = Append(reqs, cmd)
        \/ reqs # <<>> /\ reqs' = Tail(reqs)
    BY DEF Next, Worker, T2, Begin, Interrupted, Send, ReadEvent, ReadStray, ReadReply,
           ReadFails, Rest, Compare, DeliverPending, DeliverFromWire, LoopEnds, HandleStatus,
           HandleMatchResult, Finish, StartArms, Answers, StartRejected, Delivers, FingerOn,
           Captures, Accepts, Judges, Drops, IdentitiesChange, SignalCancel, vars, link
  <1>3. CASE reqs' = reqs \/ reqs' = <<>>
    BY <1>1, <1>3, EmptySeq
  <1>4. CASE pc = "send" /\ reqs' = Append(reqs, cmd)
    BY <1>1, <1>4
  <1>5. CASE reqs # <<>> /\ reqs' = Tail(reqs)
    BY <1>1, <1>5, HeadTailProperties
  <1> QED
    BY <1>2, <1>3, <1>4, <1>5

LEMMA ImageSteps ==
  ASSUME [Next]_vars
  PROVE  /\ \/ images' = images
            \/ Captures /\ images' = Append(images, clock + 1)
            \/ Judges /\ images # <<>> /\ images' = Tail(images)
         /\ \/ matched' = matched
            \/ Finish /\ outcome = "Match" /\ matched' = matched \cup {got.cap}
  <1>1. CASE Quiet
    BY <1>1 DEF Quiet, Begin, Interrupted, Send, ReadEvent, ReadStray, ReadReply,
           ReadFails, Rest, Compare, DeliverPending, DeliverFromWire, LoopEnds, HandleStatus,
           HandleMatchResult, Answers, StartRejected, Delivers,
           Drops, IdentitiesChange, SignalCancel, vars, device, t2, ours, ghosts
  <1>2. CASE Finish
    BY <1>2 DEF Finish
  <1>3. CASE StartArms \/ FingerOn \/ Captures \/ Accepts \/ Judges
    BY <1>3 DEF StartArms, FingerOn, Captures, Accepts, Judges, ours
  <1> QED
    BY <1>1, <1>2, <1>3, NextParts

LEMMA NextTypes ==
  ASSUME TypeOK, IInv, OrderInv, [Next]_vars
  PROVE  TypeOK' /\ OrderInv'
  <1>1. EventsInv' /\ clock' \in Nat
    BY NextEvents, NextClock
  <1>2. images \in Seq(Nat) /\ clock \in Nat /\ got.cap \in Nat /\ matched \subseteq Nat
    BY Numbers DEF TypeOK, EventTypes, DataTypes, EventSet
  <1>3. images' \in Seq(Nat) /\ matched' \subseteq Nat
    <2>1. \/ images' = images
          \/ images' = Append(images, clock + 1)
          \/ images # <<>> /\ images' = Tail(images)
      BY ImageSteps
    <2>2. images' = images \/ images' = Append(images, clock + 1) => images' \in Seq(Nat)
      BY <1>2
    <2>3. images # <<>> /\ images' = Tail(images) => images' \in Seq(Nat)
      BY HeadOfImages
    <2>4. images' \in Seq(Nat)
      BY <2>1, <2>2, <2>3
    <2>5. matched' = matched \/ matched' = matched \cup {got.cap}
      BY ImageSteps
    <2>6. matched' \subseteq Nat
      BY <1>2, <2>5
    <2> QED
      BY <2>4, <2>6
  <1>4. DataTypes'
    BY <1>3, NextLists, NextRequests DEF DataTypes
  <1>5. ControlTypes' /\ FlagTypes' /\ NumberTypes'
    BY <1>1, NextControl, NextFlags, NextNumbers
  <1> QED
    BY <1>1, <1>4, <1>5 DEF TypeOK, EventsInv

\* Types, and the order of the events.
EInv == IInv /\ TypeOK /\ OrderInv

LEMMA InitEInv == Init => EInv
  BY InitIInv, InitTypeOK, InitOrder DEF EInv

LEMMA NextEInv == EInv /\ [Next]_vars => EInv'
  BY NextIInv, NextTypes DEF EInv

\* Every variable has its type: the ordinals are natural numbers, a command is current
\* exactly while one is sent, read for or compared (VerificationEngine.cpp 226-262).
THEOREM TypeOKAlways == Spec => []TypeOK
  <1>1. EInv => TypeOK
    BY DEF EInv
  <1> QED
    BY <1>1, InitEInv, NextEInv, PTL DEF Spec

\* The match loop sees the events in the order of their emission, those that a command
\* retained while it waited and those that the T2 kept for this connection included
\* (Connection.cpp 1014-1028).
THEOREM InOrderAlways == Spec => []InOrder
  <1>1. EInv => InOrder
    <2> SUFFICES ASSUME EInv, pc = "handle" PROVE got.ord > highest
      BY DEF InOrder
    <2>1. highest < got.ord
      BY DEF EInv, OrderInv, Younger
    <2>2. highest \in Nat /\ got.ord \in Nat
      BY Numbers, AllEvents DEF EInv
    <2> QED
      BY <2>1, <2>2
  <1> QED
    BY <1>1, InitEInv, NextEInv, PTL DEF Spec

-----------------------------------------------------------------------------
(* Each image is reported once. *)

Results == {e \in Seen : e.code = "match"}
InWork  == {images[i] : i \in 1..Len(images)}

Distinct == \A i, j \in 1..Len(images) : images[i] = images[j] => i = j

\* An image has one result, and while it is in work it has none; the result of one that
\* was reported as a Match is no younger than the mark.
ResultsInv ==
  /\ \A e, f \in Results : e.cap = f.cap => e.ord = f.ord
  /\ \A e \in Results : e.cap <= clock /\ e.cap \notin InWork
  /\ \A e \in Results : e.cap \in matched => e.ord <= mark
ImagesInv ==
  /\ Distinct
  /\ \A c \in InWork : c <= clock /\ c \notin matched
  /\ \A c \in matched : c <= clock

\* The Match that Verify has concluded is a new one, and highestOrdinalSeen covers it.
ConcludedInv ==
  outcome = "Match" => got.code = "match" /\ mark < got.ord /\ got.ord <= highest

OnceInv == ResultsInv /\ ImagesInv /\ ConcludedInv

LEMMA Results0 ==
  ASSUME TypeOK
  PROVE  /\ \A e \in Results : e.ord \in Nat /\ e.cap \in Nat
         /\ \A c \in InWork : c \in Nat
         /\ got.ord \in Nat /\ got.cap \in Nat
  <1>1. got \in EventSet /\ last \in EventSet
    BY DEF TypeOK, EventTypes
  <1>2. \A e \in Seen : e \in EventSet
    BY <1>1, AllEvents DEF Seen, Queue
  <1>3. \A e \in EventSet : e.ord \in Nat /\ e.cap \in Nat
    BY DEF EventSet
  <1>4. \A c \in InWork : c \in Nat
    <2>1. images \in Seq(Nat)
      BY DEF TypeOK, DataTypes
    <2>2. \A i \in 1..Len(images) : images[i] \in Nat
      BY <2>1, ElementOfSeq
    <2> QED
      BY <2>2 DEF InWork
  <1> QED
    BY <1>1, <1>2, <1>3, <1>4 DEF Results

\* An image is taken.
LEMMA ImageAdded ==
  ASSUME TypeOK, ImagesInv, images' = Append(images, clock + 1), clock' = clock + 1,
         matched' = matched
  PROVE  ImagesInv' /\ InWork' = InWork \cup {clock + 1}
  <1>1. images \in Seq(Nat) /\ Len(images) \in Nat /\ clock \in Nat
    BY Numbers, LenProperties DEF TypeOK, DataTypes
  <1>2. /\ Len(images') = Len(images) + 1 /\ images'[Len(images) + 1] = clock + 1
        /\ \A i \in 1..Len(images) : images'[i] = images[i] /\ images[i] \in InWork
    BY <1>1 DEF InWork
  <1>3. 1..Len(images') = (1..Len(images)) \cup {Len(images) + 1}
    BY <1>1, <1>2
  <1>4. InWork' = {images'[i] : i \in 1..Len(images')}
    BY DEF InWork
  <1>5. InWork' = InWork \cup {clock + 1}
    <2>1. \A x \in InWork' : x \in InWork \cup {clock + 1}
      BY <1>2, <1>3, <1>4
    <2>2. ASSUME NEW x \in InWork PROVE x \in InWork'
      <3>1. PICK i \in 1..Len(images) : x = images[i]
        BY DEF InWork
      <3>2. i \in 1..Len(images') /\ images'[i] = x
        BY <1>2, <1>3, <3>1
      <3> QED
        BY <1>4, <3>2
    <2>3. clock + 1 \in InWork'
      <3>1. Len(images) + 1 \in 1..Len(images')
        BY <1>3
      <3> QED
        BY <1>2, <1>4, <3>1
    <2> QED
      BY <2>1, <2>2, <2>3
  <1>6. \A c \in InWork \cup matched : c \in Nat /\ c <= clock
    <2>1. matched \subseteq Nat
      BY DEF TypeOK, DataTypes
    <2> QED
      BY <2>1, Results0 DEF ImagesInv
  <1>7. Distinct'
    <2> SUFFICES ASSUME NEW i \in 1..Len(images'), NEW j \in 1..Len(images'),
                        images'[i] = images'[j]
                 PROVE  i = j
      BY DEF Distinct
    <2>1. \A k \in 1..Len(images) : images'[k] # clock + 1
      <3> TAKE k \in 1..Len(images)
      <3>1. images'[k] \in Nat /\ images'[k] <= clock
        BY <1>2, <1>6
      <3> QED
        BY <1>1, <3>1
    <2>2. CASE i \in 1..Len(images) /\ j \in 1..Len(images)
      BY <1>2, <2>2 DEF ImagesInv, Distinct
    <2> QED
      BY <1>2, <1>3, <2>1, <2>2
  <1>8. \A c \in InWork' : c <= clock' /\ c \notin matched'
    <2>1. \A c \in InWork : c <= clock + 1
      BY <1>1, <1>6
    <2>2. clock + 1 \notin matched
      BY <1>1, <1>6
    <2> QED
      BY <1>1, <1>5, <2>1, <2>2 DEF ImagesInv
  <1>9. \A c \in matched' : c <= clock'
    BY <1>1, <1>6
  <1> QED
    BY <1>5, <1>7, <1>8, <1>9 DEF ImagesInv

\* The T2 is done with its first image.
LEMMA ImageDone ==
  ASSUME TypeOK, ImagesInv, images # <<>>, images' = Tail(images), clock' \in Nat,
         clock <= clock', matched' = matched
  PROVE  /\ ImagesInv' /\ InWork' \subseteq InWork
         /\ Head(images) \in InWork /\ Head(images) \notin InWork'
  <1>1. /\ Len(images) \in Nat /\ Len(images) > 0 /\ Len(images') = Len(images) - 1
        /\ Head(images) = images[1]
        /\ \A i \in 1..Len(images') : images'[i] = images[i + 1]
    BY HeadOfImages
  <1>2. 1 \in 1..Len(images) /\ \A i \in 1..Len(images') : i + 1 \in 1..Len(images) /\ i + 1 # 1
    BY <1>1
  <1>3. Head(images) \in InWork
    BY <1>1, <1>2 DEF InWork
  <1>4. ASSUME NEW c \in InWork' PROVE c \in InWork /\ c # Head(images)
    <2>1. PICK i \in 1..Len(images') : c = images'[i]
      BY DEF InWork
    <2>2. c = images[i + 1] /\ i + 1 \in 1..Len(images) /\ i + 1 # 1
      BY <1>1, <1>2, <2>1
    <2>3. images[i + 1] # images[1]
      BY <1>2, <2>2 DEF ImagesInv, Distinct
    <2> QED
      BY <1>1, <2>2, <2>3 DEF InWork
  <1>5. Distinct'
    <2> SUFFICES ASSUME NEW i \in 1..Len(images'), NEW j \in 1..Len(images'),
                        images'[i] = images'[j]
                 PROVE  i = j
      BY DEF Distinct
    <2>1. i + 1 = j + 1
      BY <1>1, <1>2 DEF ImagesInv, Distinct
    <2> QED
      BY <1>1, <2>1
  <1>6. \A c \in InWork : c <= clock'
    BY Results0, Numbers DEF ImagesInv
  <1>7. \A c \in matched : c <= clock'
    <2>1. matched \subseteq Nat
      BY DEF TypeOK, DataTypes
    <2> QED
      BY <2>1, Numbers DEF ImagesInv
  <1> QED
    BY <1>3, <1>4, <1>5, <1>6, <1>7 DEF ImagesInv

\* A Match is concluded where an event is judged, and nowhere else.
LEMMA MatchSteps ==
  ASSUME IInv, Quiet, outcome' = "Match"
  PROVE  /\ got' = got /\ mark' = mark
         /\ \/ outcome = "Match"
            \/ HandleMatchResult /\ ~AlreadySeen
  <1>0. outcome = "Match" => pc = "return" \/ Calling
    BY DEF IInv, Concluded
  <1>1. CASE Begin \/ Interrupted
    BY <1>1 DEF Begin, Interrupted, Leave, queue
  <1>2. Fails => outcome = "Match"
    BY DEF Fails, CancelSent, Conclude, Leave
  <1>3. CASE Send
    BY <1>2, <1>3 DEF Send, queue
  <1>4. CASE ReadEvent \/ ReadStray \/ ReadFails
    BY <1>2, <1>4 DEF ReadEvent, ReadStray, ReadFails, Rest, queue
  <1>5. CASE ReadReply
    <2>1. got' = got /\ mark' = mark
      BY <1>5 DEF ReadReply, Rest, queue
    <2>2. Succeeds(Head(wire)) \/ Fails \/ Leave("Rejected")
      BY <1>5 DEF ReadReply
    <2>3. Succeeds(Head(wire)) => outcome = "Match"
      BY DEF Succeeds, CancelSent, Conclude, Leave
    <2> QED
      BY <1>2, <2>1, <2>2, <2>3 DEF Leave
  <1>6. CASE Compare
    BY <1>6 DEF Compare, Rest, Leave, queue
  <1>7. CASE DeliverPending
    BY <1>0, <1>7 DEF DeliverPending, Calling
  <1>8. CASE DeliverFromWire \/ LoopEnds
    <2>1. /\ pc = "loop"
          /\ outcome' = outcome \/ outcome' \in {"Cancelled", "Timeout", "TransportError"}
      BY <1>8 DEF DeliverFromWire, LoopEnds, Ends
    <2> QED
      BY <1>0, <2>1 DEF Calling
  <1>9. CASE HandleStatus
    BY <1>0, <1>9 DEF HandleStatus, Calling
  <1>10. CASE HandleMatchResult
    BY <1>10 DEF HandleMatchResult, queue
  <1>11. CASE Answers \/ StartRejected \/ Delivers \/ Drops \/ IdentitiesChange
              \/ SignalCancel \/ UNCHANGED vars
    BY <1>11 DEF Answers, StartRejected, Delivers, Drops, IdentitiesChange, SignalCancel, vars,
                 ours, control, queue
  <1> QED
    BY <1>1, <1>3, <1>4, <1>5, <1>6, <1>7, <1>8, <1>9, <1>10, <1>11 DEF Quiet

LEMMA InitOnce == Init => OnceInv
  <1> SUFFICES ASSUME Init PROVE OnceInv
    OBVIOUS
  <1>1. Len(pending) = 0 /\ Len(wire) = 0 /\ Len(images) = 0
    BY EmptySeq DEF Init
  <1>2. Retained = {} /\ UnreadEvents = {} /\ Coming = {} /\ InWork = {}
    BY <1>1 DEF Init, Retained, UnreadEvents, Coming, InWork
  <1>3. Results = {}
    BY <1>2, NoEventType DEF Init, Results, Seen, Queue
  <1> QED
    BY <1>1, <1>2, <1>3 DEF Init, OnceInv, ResultsInv, ImagesInv, ConcludedInv, Distinct

LEMMA FewerResults ==
  ASSUME Seen' \subseteq Seen \cup {NoEvent}
  PROVE  Results' \subseteq Results
  BY NoEventType DEF Results

LEMMA QuietOnce ==
  ASSUME EInv, OnceInv, Quiet
  PROVE  OnceInv'
  <1>1. /\ clock' = clock /\ highest <= highest' /\ highest' \in Nat
        /\ Results' \subseteq Results
    BY QuietEvents, FewerResults DEF EInv, NothingNew, EventsInv
  <1>2. UNCHANGED <<images, matched, mark>>
    BY DEF Quiet, Begin, Interrupted, Send, ReadEvent, ReadStray, ReadReply, ReadFails, Rest,
           Compare, DeliverPending, DeliverFromWire, LoopEnds, HandleStatus, HandleMatchResult,
           Answers, StartRejected, Delivers, Drops, IdentitiesChange, SignalCancel, vars, device,
           t2, ours, ghosts, queue
  <1>3. InWork' = InWork /\ ImagesInv'
    BY <1>1, <1>2 DEF OnceInv, ImagesInv, Distinct, InWork
  <1>4. ResultsInv'
    BY <1>1, <1>2, <1>3 DEF OnceInv, ResultsInv
  <1>5. ConcludedInv'
    <2> SUFFICES ASSUME outcome' = "Match"
                 PROVE  got'.code = "match" /\ mark' < got'.ord /\ got'.ord <= highest'
      BY DEF ConcludedInv
    <2>0. highest \in Nat /\ mark \in Nat /\ got.ord \in Nat
      BY Numbers, Results0 DEF EInv
    <2>1. got' = got /\ mark' = mark /\ (outcome = "Match" \/ (HandleMatchResult /\ ~AlreadySeen))
      BY MatchSteps DEF EInv
    <2>2. CASE outcome = "Match"
      <3>1. got.code = "match" /\ mark < got.ord /\ got.ord <= highest
        BY <2>2 DEF OnceInv, ConcludedInv
      <3> QED
        BY <1>1, <2>0, <2>1, <3>1
    <2>3. CASE HandleMatchResult /\ ~AlreadySeen
      <3>1. got.code = "match" /\ highest' = Greater(highest, got.ord) /\ ~(got.ord <= mark)
        BY <2>3 DEF HandleMatchResult, AlreadySeen
      <3> QED
        BY <2>0, <2>1, <3>1 DEF Greater
    <2> QED
      BY <2>1, <2>2, <2>3
  <1> QED
    BY <1>3, <1>4, <1>5 DEF OnceInv

LEMMA FinishOnce ==
  ASSUME EInv, OnceInv, Finish
  PROVE  OnceInv'
  <1>1. Results' \subseteq Results
    BY FinishEvents, FewerResults DEF EInv
  <1>2. /\ clock' = clock /\ images' = images /\ outcome' = "Timeout"
        /\ mark' = Greater(mark, highest)
        /\ matched' = IF outcome = "Match" THEN matched \cup {got.cap} ELSE matched
    BY DEF Finish, ObserveSepOrdinal
  <1>3. InWork' = InWork /\ Distinct'
    BY <1>2 DEF OnceInv, ImagesInv, InWork, Distinct
  <1>4. highest \in Nat /\ mark \in Nat /\ mark <= mark' /\ highest <= mark' /\ mark' \in Nat
    BY <1>2, Numbers DEF EInv, Greater
  <1>5. outcome = "Match" => got \in Results
    BY DEF OnceInv, ConcludedInv, Results, Seen, Queue
  <1>6. ImagesInv'
    <2>1. \A c \in InWork : c # got.cap \/ outcome # "Match"
      BY <1>5 DEF OnceInv, ResultsInv
    <2>2. outcome = "Match" => got.cap <= clock
      BY <1>5 DEF OnceInv, ResultsInv
    <2> QED
      BY <1>2, <1>3, <2>1, <2>2 DEF OnceInv, ImagesInv
  <1>7. ASSUME NEW e \in Results', e.cap \in matched' PROVE e.ord <= mark'
    <2>0. e \in Results /\ e.ord \in Nat
      BY <1>1, Results0 DEF EInv
    <2>1. CASE e.cap \in matched
      BY <1>4, <2>0, <2>1 DEF OnceInv, ResultsInv
    <2>2. CASE outcome = "Match" /\ e.cap = got.cap
      <3>1. e.ord = got.ord /\ got.ord <= highest
        BY <1>5, <2>0, <2>2 DEF OnceInv, ResultsInv, ConcludedInv
      <3> QED
        BY <1>4, <2>0, <3>1
    <2> QED
      BY <1>2, <1>7, <2>1, <2>2
  <1>8. ResultsInv'
    BY <1>1, <1>2, <1>3, <1>7 DEF OnceInv, ResultsInv
  <1>9. ConcludedInv'
    BY <1>2 DEF ConcludedInv
  <1> QED
    BY <1>6, <1>8, <1>9 DEF OnceInv

LEMMA EventFields ==
  ASSUME NEW code, NEW ord, NEW cap, NEW id
  PROVE  /\ Event(code, ord, cap, id).code = code /\ Event(code, ord, cap, id).ord = ord
         /\ Event(code, ord, cap, id).cap = cap
  BY DEF Event

LEMMA StatusOnce ==
  ASSUME EInv, OnceInv, NEW code \in Codes \ {"match"}, NEW cap \in Nat,
         Emit(<<Event(code, clock + 1, cap, NoId)>>), UNCHANGED ours,
         \/ images' = images
         \/ images' = Append(images, clock + 1)
  PROVE  OnceInv'
  <1>1. /\ Emits(<<Event(code, clock + 1, cap, NoId)>>)
        /\ Sent(<<Event(code, clock + 1, cap, NoId)>>) = {Event(code, clock + 1, cap, NoId)}
    BY OneEvent DEF EInv
  <1>2. Seen' = Seen \cup {Event(code, clock + 1, cap, NoId)}
    BY <1>1, EmitsEvents DEF EInv
  <1>3. Results' = Results
    BY <1>2, EventFields DEF Results
  <1>4. UNCHANGED <<matched, mark, outcome, got, highest>>
    BY DEF ours, control, queue, evidence
  <1>5. clock' = clock + 1 /\ clock \in Nat
    BY Numbers DEF Emit, EInv
  <1>6. ImagesInv' /\ InWork' \subseteq InWork \cup {clock + 1}
    <2>1. CASE images' = images
      <3>1. InWork' = InWork /\ Distinct'
        BY <2>1 DEF InWork, Distinct, OnceInv, ImagesInv
      <3>2. \A c \in InWork \cup matched : c \in Nat
        BY Results0 DEF EInv, TypeOK, DataTypes
      <3>3. \A c \in InWork \cup matched : c <= clock'
        BY <1>5, <3>2 DEF OnceInv, ImagesInv
      <3> QED
        BY <1>4, <3>1, <3>3 DEF OnceInv, ImagesInv
    <2>2. CASE images' = Append(images, clock + 1)
      BY <1>4, <1>5, <2>2, ImageAdded DEF OnceInv, EInv
    <2> QED
      BY <2>1, <2>2
  <1>7. \A e \in Results : /\ e.cap <= clock /\ e.cap \in Nat
                           /\ e.cap # clock + 1 /\ e.cap <= clock + 1
    <2> TAKE e \in Results
    <2>1. e.cap <= clock /\ e.cap \in Nat
      BY Results0 DEF EInv, OnceInv, ResultsInv
    <2> QED
      BY <1>5, <2>1
  <1>8. ResultsInv'
    BY <1>3, <1>4, <1>5, <1>6, <1>7 DEF OnceInv, ResultsInv
  <1>9. ConcludedInv'
    BY <1>4 DEF OnceInv, ConcludedInv
  <1> QED
    BY <1>6, <1>8, <1>9 DEF OnceInv

LEMMA JudgesOnce ==
  ASSUME EInv, OnceInv, Judges
  PROVE  OnceInv'
  <1>0. PICK events : \E id \in Ids \cup {NoId} :
          /\ Emits(events) /\ clock' = clock + 1
          /\ Sent(events) = {Event("match", clock + 1, Head(images), id)}
    BY JudgesOne DEF EInv
  <1>1. PICK id \in Ids \cup {NoId} :
          /\ Emits(events) /\ clock' = clock + 1
          /\ Sent(events) = {Event("match", clock + 1, Head(images), id)}
    BY <1>0
  <1> DEFINE m == Event("match", clock + 1, Head(images), id)
  <1>2. Seen' = Seen \cup {m}
    BY <1>1, EmitsEvents DEF EInv
  <1>3. m.code = "match" /\ m.ord = clock + 1 /\ m.cap = Head(images)
    BY EventFields
  <1>4. Results' = Results \cup {m}
    BY <1>2, <1>3, EventFields DEF Results
  <1> HIDE DEF m
  <1>5. /\ UNCHANGED <<matched, mark, outcome, got, highest>>
        /\ images # <<>> /\ images' = Tail(images)
    BY DEF Judges, ours, control, queue, evidence
  <1>6. clock \in Nat /\ clock' \in Nat /\ clock <= clock'
    BY <1>1, Numbers DEF EInv
  <1>7. /\ ImagesInv' /\ InWork' \subseteq InWork
        /\ Head(images) \in InWork /\ Head(images) \notin InWork'
    BY <1>5, <1>6, ImageDone DEF OnceInv, EInv
  <1>8. Head(images) <= clock /\ Head(images) \notin matched /\ Head(images) \in Nat
    BY <1>7, Results0 DEF OnceInv, ImagesInv, EInv
  <1>9. \A e \in Results : e.cap # m.cap
    BY <1>3, <1>7 DEF OnceInv, ResultsInv
  <1>10. \A e \in Results : e.cap <= clock'
    BY <1>6, Results0 DEF OnceInv, ResultsInv, EInv
  <1>11. m.cap <= clock' /\ m.cap \notin InWork' /\ m.cap \notin matched'
    BY <1>3, <1>5, <1>6, <1>7, <1>8
  <1>12. ResultsInv'
    BY <1>4, <1>5, <1>7, <1>9, <1>10, <1>11 DEF OnceInv, ResultsInv
  <1>13. ConcludedInv'
    BY <1>5 DEF OnceInv, ConcludedInv
  <1> QED
    BY <1>7, <1>12, <1>13 DEF OnceInv

LEMMA NextOnce == EInv /\ OnceInv /\ [Next]_vars => OnceInv'
  <1> SUFFICES ASSUME EInv, OnceInv, [Next]_vars PROVE OnceInv'
    OBVIOUS
  <1>1. CASE StartArms
    <2>1. /\ Emit(<<Event("armed", clock + 1, 0, NoId)>>) /\ UNCHANGED ours /\ images' = images
          /\ "armed" \in Codes \ {"match"} /\ 0 \in Nat
      BY <1>1 DEF StartArms, Codes
    <2> QED
      BY <2>1, StatusOnce
  <1>2. CASE FingerOn
    <2>1. /\ Emit(<<Event("fingerOn", clock + 1, 0, NoId)>>) /\ UNCHANGED ours /\ images' = images
          /\ "fingerOn" \in Codes \ {"match"} /\ 0 \in Nat
      BY <1>2 DEF FingerOn, Codes
    <2> QED
      BY <2>1, StatusOnce
  <1>3. CASE Captures
    <2>1. /\ Emit(<<Event("captured", clock + 1, clock + 1, NoId)>>) /\ UNCHANGED ours
          /\ images' = Append(images, clock + 1)
          /\ "captured" \in Codes \ {"match"} /\ clock + 1 \in Nat
      BY <1>3, Numbers DEF Captures, Codes, EInv
    <2> QED
      BY <2>1, StatusOnce
  <1>4. CASE Accepts
    <2>1. /\ Emit(<<Event("accepted", clock + 1, Head(images), NoId)>>) /\ UNCHANGED ours
          /\ images' = images /\ "accepted" \in Codes \ {"match"} /\ Head(images) \in Nat
      BY <1>4, HeadOfImages DEF Accepts, Codes, EInv
    <2> QED
      BY <2>1, StatusOnce
  <1> QED
    BY <1>1, <1>2, <1>3, <1>4, NextParts, QuietOnce, FinishOnce, JudgesOnce

\* No image is reported as a Match a second time, though the T2 may deliver the result of
\* one session again to the next (VerificationEngine.cpp 658-679, Queue.cpp 487-500).
THEOREM EachTouchOnceAlways == Spec => []EachTouchOnce
  <1> DEFINE Inv == EInv /\ OnceInv
  <1>1. Inv => EachTouchOnce
    <2> SUFFICES ASSUME EInv, OnceInv, outcome = "Match" PROVE got.cap \notin matched
      BY DEF EachTouchOnce
    <2>1. got.code = "match" /\ mark < got.ord /\ got \in Results
      BY DEF OnceInv, ConcludedInv, Results, Seen, Queue
    <2>2. got.cap \in matched => got.ord <= mark
      BY <2>1 DEF OnceInv, ResultsInv
    <2>3. mark \in Nat /\ got.ord \in Nat
      BY Numbers, Results0 DEF EInv
    <2> QED
      BY <2>1, <2>2, <2>3
  <1>2. Init => Inv
    BY InitEInv, InitOnce
  <1>3. Inv /\ [Next]_vars => Inv'
    BY NextEInv, NextOnce
  <1> QED
    BY <1>1, <1>2, <1>3, PTL DEF Spec

-----------------------------------------------------------------------------
(* StartMatch is asked for once in a session. *)

AtStart == pc = "read" /\ cmd = "start"
InLoop  == pc \in {"loop", "handle"}

\* StartMatch was sent.
Past == AtStart \/ InLoop \/ pc = "return" \/ (Calling /\ cmd \in After)

Asked   == \E i \in 1..Len(reqs) : reqs[i] = "start"
Replied == \E i \in 1..Len(wire) : ~wire[i].event /\ wire[i].to = "start"

AskInv ==
  /\ \A i \in 1..Len(reqs) : reqs[i] = "start" => i = Len(reqs)
  /\ Asked => (AtStart \/ pc = "return") /\ ~Replied
  /\ Replied \/ armedAt # 0 => Past
  /\ serving = "start" => reqs # <<>> /\ reqs[1] = "start"
  /\ Asked /\ serving # "start" => armedAt = 0

LEMMA FailsPast ==
  ASSUME Fails, Calling
  PROVE  /\ Past => Past' /\ ~InLoop'
         /\ AtStart => pc' = "return"
         /\ ~AtStart' /\ ~InLoop'
  <1>1. /\ \A o : Leave(o) => pc' = "return"
        /\ \A c : Call(c) => pc' = "send" /\ cmd' = c
    BY DEF Leave, Call
  <1>2. cmd = "start" => pc' = "return"
    BY <1>1 DEF Fails
  <1>3. cmd \in After => pc' = "return" \/ (pc' = "send" /\ cmd' = "ids3")
    BY <1>1 DEF After, Fails, CancelSent, Conclude
  <1>4. pc' \in {"send", "return"}
    BY Goes
  <1> QED
    BY <1>2, <1>3, <1>4 DEF Past, AtStart, InLoop, Calling, After

LEMMA SucceedsPast ==
  ASSUME NEW f, Succeeds(f), pc = "read", IInv
  PROVE  /\ Past => Past'
         /\ ~AtStart'
         /\ InLoop' => cmd = "start"
  <1>1. /\ \A o : Leave(o) => pc' = "return"
        /\ \A c : Call(c) => pc' = "send" /\ cmd' = c
    BY DEF Leave, Call
  <1>2. cmd = "start" => pc' = "loop"
    BY DEF Succeeds
  <1>3. CASE cmd \in After
    <2>1. CASE cmd = "cancel2"
      BY <1>1, <2>1 DEF Succeeds, CancelSent, Conclude, Past, Calling, After, AtStart, InLoop
    <2>2. CASE cmd = "ids3"
      BY <1>1, <2>2 DEF Succeeds, Past, Calling, After, AtStart, InLoop
    <2>3. CASE cmd = "glob3"
      BY <1>1, <2>3 DEF Succeeds, Conclude, Past, AtStart, InLoop
    <2> QED
      BY <1>3, <2>1, <2>2, <2>3 DEF After
  <1>4. cmd \in Before \cup {"start"} \cup After
    BY DEF IInv, Compared, Calling
  <1>5. CASE cmd \in Before
    <2>1. pc' \in {"send", "return", "compare"}
      BY <1>1, <1>5 DEF Succeeds, Before
    <2>2. ~Past
      BY <1>5 DEF Past, AtStart, InLoop, Before, After, Calling
    <2> QED
      BY <2>1, <2>2 DEF AtStart, InLoop
  <1> QED
    BY <1>2, <1>3, <1>4, <1>5 DEF Past, AtStart, InLoop

\* Past is left with the session.
LEMMA PastStays ==
  ASSUME IInv, Past, [Next]_vars, ~Finish
  PROVE  Past'
  <1>1. CASE Begin \/ Interrupted \/ Compare \/ Send
    <2>1. Send => Fails \/ (pc = "send" /\ pc' = "read" /\ cmd' = cmd)
      BY DEF Send
    <2>2. Send => pc = "send"
      BY DEF Send
    <2>3. CASE Send
      BY <2>1, <2>2, <2>3, FailsPast DEF Past, Calling, AtStart, InLoop
    <2>4. CASE Begin \/ Interrupted \/ Compare
      BY <2>4 DEF Begin, Interrupted, Compare, Leave, Past, AtStart, InLoop, Calling
    <2> QED
      BY <1>1, <2>3, <2>4
  <1>2. CASE ReadEvent \/ ReadStray \/ ReadFails
    <2>1. pc = "read" /\ (Fails \/ UNCHANGED <<pc, cmd>>)
      BY <1>2 DEF ReadEvent, ReadStray, ReadFails
    <2> QED
      BY <2>1, FailsPast DEF Past, Calling, AtStart, InLoop
  <1>3. CASE ReadReply
    <2>1. pc = "read" /\ (Succeeds(Head(wire)) \/ Fails \/ Leave("Rejected"))
      BY <1>3 DEF ReadReply
    <2> QED
      BY <2>1, FailsPast, SucceedsPast DEF Past, Calling, Leave
  <1>4. CASE DeliverPending \/ DeliverFromWire \/ LoopEnds \/ HandleStatus \/ HandleMatchResult
    <2>1. pc' \in {"loop", "handle"} \/ Call("cancel2")
      BY <1>4 DEF DeliverPending, DeliverFromWire, LoopEnds, HandleStatus, HandleMatchResult, Ends
    <2> QED
      BY <2>1 DEF Call, Past, InLoop, Calling, After
  <1>5. CASE T2 \/ SignalCancel \/ UNCHANGED vars
    <2>1. UNCHANGED <<pc, cmd>>
      BY <1>5 DEF T2, StartArms, Answers, StartRejected, Delivers, FingerOn, Captures, Accepts,
             Judges,
                  Drops, IdentitiesChange, SignalCancel, vars, ours, control
    <2> QED
      BY <2>1 DEF Past, AtStart, InLoop, Calling
  <1> QED
    BY <1>1, <1>2, <1>3, <1>4, <1>5 DEF Next, Worker

LEMMA InitAsk == Init => AskInv
  <1> SUFFICES ASSUME Init PROVE AskInv
    OBVIOUS
  <1>1. Len(reqs) = 0 /\ Len(wire) = 0
    BY EmptySeq DEF Init
  <1>2. ~Asked /\ ~Replied
    BY <1>1 DEF Asked, Replied
  <1> QED
    BY <1>1, <1>2 DEF Init, AskInv

LEMMA AskStill ==
  ASSUME AskInv, UNCHANGED <<reqs, serving, armedAt>>, Replied' => Replied, Past => Past',
         Asked => AtStart' \/ pc' = "return"
  PROVE  AskInv'
  <1>1. Asked' = Asked
    BY DEF Asked
  <1> QED
    BY <1>1 DEF AskInv

\* A frame is read: what is left of the wire was there before.
LEMMA FrameRead ==
  ASSUME TypeOK, wire # <<>>, wire' = Tail(wire)
  PROVE  /\ Replied' => Replied
         /\ ~Head(wire).event /\ Head(wire).to = "start" => Replied
  <1>1. /\ Len(wire) \in Nat /\ Len(wire) > 0 /\ Head(wire) = wire[1]
        /\ Len(wire') = Len(wire) - 1
        /\ \A i \in 1..Len(wire') : wire'[i] = wire[i + 1]
    BY HeadOfWire
  <1>2. ASSUME NEW i \in 1..Len(wire'), ~wire'[i].event, wire'[i].to = "start"
        PROVE  Replied
    <2>1. i + 1 \in 1..Len(wire) /\ wire'[i] = wire[i + 1]
      BY <1>1
    <2> QED
      BY <1>2, <2>1 DEF Replied
  <1>3. ASSUME ~Head(wire).event, Head(wire).to = "start" PROVE Replied
    <2>1. 1 \in 1..Len(wire)
      BY <1>1
    <2> QED
      BY <1>1, <1>3, <2>1 DEF Replied
  <1> QED
    BY <1>2, <1>3 DEF Replied

LEMMA SameWire ==
  ASSUME wire' = wire
  PROVE  Replied' = Replied
  BY DEF Replied

\* The wire gets one frame more.
LEMMA FrameSent ==
  ASSUME TypeOK, NEW f \in FrameSet, wire' = Append(wire, f)
  PROVE  Replied' => Replied \/ (~f.event /\ f.to = "start")
  <1>1. wire \in Seq(FrameSet) /\ Len(wire) \in Nat
    BY AllEvents DEF TypeOK, EventTypes
  <1>2. /\ Len(wire') = Len(wire) + 1 /\ wire'[Len(wire) + 1] = f
        /\ \A i \in 1..Len(wire) : wire'[i] = wire[i]
    BY <1>1
  <1>3. \A i \in 1..Len(wire') : i \in 1..Len(wire) \/ i = Len(wire) + 1
    BY <1>1, <1>2
  <1> QED
    BY <1>2, <1>3 DEF Replied

LEMMA RequestTypes ==
  ASSUME TypeOK
  PROVE  /\ reqs \in Seq(Cmds) /\ Len(reqs) \in Nat
         /\ reqs # <<>> => /\ Len(reqs) > 0 /\ Head(reqs) = reqs[1] /\ Head(reqs) \in Cmds
                           /\ Tail(reqs) \in Seq(Cmds)
                           /\ Len(Tail(reqs)) = Len(reqs) - 1
                           /\ \A i \in 1..Len(Tail(reqs)) : Tail(reqs)[i] = reqs[i + 1]
  <1>1. reqs \in Seq(Cmds)
    BY DEF TypeOK, DataTypes
  <1>2. Len(reqs) \in Nat
    BY <1>1, LenProperties
  <1>3. ASSUME reqs # <<>>
        PROVE  /\ Len(reqs) > 0 /\ Head(reqs) = reqs[1] /\ Head(reqs) \in Cmds
               /\ Tail(reqs) \in Seq(Cmds)
               /\ Len(Tail(reqs)) = Len(reqs) - 1
               /\ \A i \in 1..Len(Tail(reqs)) : Tail(reqs)[i] = reqs[i + 1]
    <2>1. Len(reqs) > 0
      BY <1>1, <1>3, EmptySeq
    <2> QED
      BY <1>1, <1>3, <2>1, HeadTailProperties
  <1> QED
    BY <1>1, <1>2, <1>3

\* The head of the requests is StartMatch: there is nothing behind it.
LEMMA OnlyStart ==
  ASSUME TypeOK, AskInv, reqs # <<>>, Head(reqs) = "start"
  PROVE  Len(reqs) = 1 /\ Tail(reqs) = <<>> /\ Asked
  <1>1. 1 \in 1..Len(reqs) /\ reqs[1] = "start"
    BY RequestTypes
  <1>2. Len(reqs) = 1 /\ Asked
    BY <1>1 DEF AskInv, Asked
  <1>3. Tail(reqs) = <<>>
    <2>1. Tail(reqs) \in Seq(Cmds) /\ Len(Tail(reqs)) = 0
      BY <1>2, RequestTypes
    <2> QED
      BY <2>1, EmptySeq
  <1> QED
    BY <1>2, <1>3

LEMMA NoRequests ==
  ASSUME reqs' = <<>>
  PROVE  Len(reqs') = 0 /\ ~Asked'
  <1>1. Len(reqs') = 0
    BY EmptySeq
  <1> QED
    BY <1>1 DEF Asked

LEMMA SendAsks ==
  ASSUME EInv, AskInv, Send
  PROVE  AskInv'
  <1>1. pc = "send" /\ UNCHANGED <<wire, serving, armedAt>>
    BY DEF Send, device, t2, ghosts
  <1>2. Replied' = Replied /\ ~AtStart /\ ~Asked /\ Calling
    BY <1>1, SameWire DEF AtStart, AskInv, Calling
  <1>3. CASE Fails /\ UNCHANGED reqs
    BY <1>1, <1>2, <1>3, AskStill, FailsPast
  <1>4. CASE reqs' = Append(reqs, cmd) /\ pc' = "read" /\ UNCHANGED cmd
    <2>1. reqs \in Seq(Cmds) /\ Len(reqs) \in Nat /\ cmd \in Cmds
      BY <1>1, RequestTypes DEF EInv, TypeOK, ControlTypes
    <2>2. /\ Len(reqs') = Len(reqs) + 1 /\ reqs'[Len(reqs) + 1] = cmd
          /\ \A i \in 1..Len(reqs) : reqs'[i] = reqs[i] /\ reqs[i] # "start"
      BY <1>2, <1>4, <2>1 DEF Asked
    <2>3. \A i \in 1..Len(reqs') : reqs'[i] = "start" => i = Len(reqs') /\ cmd = "start"
      BY <2>1, <2>2
    <2>4. Asked' => cmd = "start"
      BY <2>3 DEF Asked
    <2>5. Past => Past'
      BY <1>1, <1>4 DEF Past, AtStart, InLoop, Calling
    <2>6. cmd = "start" => ~Past
      BY <1>1 DEF Past, AtStart, InLoop, After
    <2>7. cmd = "start" => ~Replied /\ armedAt = 0 /\ AtStart'
      BY <1>4, <2>6 DEF AskInv, AtStart
    <2>8. serving # "start"
      <3>1. ASSUME serving = "start" PROVE FALSE
        <4>1. reqs # <<>> /\ reqs[1] = "start"
          BY <3>1 DEF AskInv
        <4>2. 1 \in 1..Len(reqs)
          BY <4>1, RequestTypes DEF EInv
        <4> QED
          BY <2>2, <4>1, <4>2
      <3> QED
        BY <3>1
    <2> QED
      BY <1>1, <1>2, <2>3, <2>4, <2>5, <2>7, <2>8 DEF AskInv
  <1> QED
    BY <1>3, <1>4 DEF Send

LEMMA ReadAsks ==
  ASSUME EInv, AskInv, ReadEvent \/ ReadStray \/ ReadReply \/ ReadFails
  PROVE  AskInv'
  <1>1. pc = "read" /\ Calling /\ UNCHANGED <<reqs, serving, armedAt>>
    BY DEF ReadEvent, ReadStray, ReadReply, ReadFails, Rest, t2, ghosts, Calling
  <1>2. wire' = wire \/ (wire # <<>> /\ wire' = Tail(wire))
    BY DEF ReadEvent, ReadStray, ReadReply, ReadFails
  <1>3. Replied' => Replied
    BY <1>2, FrameRead, SameWire DEF EInv
  <1>4. Asked => AtStart
    BY <1>1 DEF AskInv
  <1>5. CASE Fails
    BY <1>1, <1>3, <1>4, <1>5, AskStill, FailsPast
  <1>6. CASE UNCHANGED <<pc, cmd>>
    <2>1. AtStart' = AtStart /\ Past' = Past
      BY <1>6 DEF AtStart, Past, InLoop, Calling
    <2> QED
      BY <1>1, <1>3, <1>4, <2>1, AskStill
  <1>7. CASE ReadReply /\ ~Fails
    <2>1. /\ wire # <<>> /\ ~Head(wire).event /\ Head(wire).to = cmd /\ wire' = Tail(wire)
          /\ Succeeds(Head(wire)) \/ Leave("Rejected")
      BY <1>7 DEF ReadReply
    <2>2. cmd = "start" => Replied
      BY <2>1, FrameRead DEF EInv
    <2>3. ~Asked
      BY <1>4, <2>2 DEF AtStart, AskInv
    <2>4. Past => Past'
      BY <1>1, <2>1, SucceedsPast DEF EInv, Leave, Past
    <2> QED
      BY <1>1, <1>3, <2>3, <2>4, AskStill
  <1> QED
    BY <1>5, <1>6, <1>7 DEF ReadEvent, ReadStray, ReadFails

\* Where the worker is past reading, there is no request for StartMatch.
LEMMA OtherAsks ==
  ASSUME EInv, AskInv,
         \/ Begin \/ Interrupted \/ Compare \/ DeliverPending \/ DeliverFromWire \/ LoopEnds
         \/ HandleStatus \/ HandleMatchResult
  PROVE  AskInv'
  <1>1. pc \in {"idle", "send", "compare", "loop", "handle"} /\ UNCHANGED <<reqs, serving,
         armedAt>>
    BY DEF Begin, Interrupted, Compare, DeliverPending, DeliverFromWire, LoopEnds, HandleStatus,
           HandleMatchResult, Rest, device, t2, ghosts, link
  <1>2. ~Asked
    BY <1>1 DEF AskInv, AtStart
  <1>3. wire' = wire \/ (wire # <<>> /\ wire' = Tail(wire))
    BY DEF Begin, Interrupted, Compare, DeliverPending, DeliverFromWire, LoopEnds, HandleStatus,
           HandleMatchResult, link
  <1>4. Replied' => Replied
    BY <1>3, FrameRead, SameWire DEF EInv
  <1>5. Past => Past'
    <2>1. [Next]_vars
      BY DEF Next, Worker
    <2>2. ~Finish
      BY <1>1 DEF Finish
    <2> QED
      BY <2>1, <2>2, PastStays DEF EInv
  <1> QED
    BY <1>1, <1>2, <1>4, <1>5, AskStill

LEMMA FinishAsks ==
  ASSUME Finish
  PROVE  AskInv'
  <1>1. Len(reqs') = 0 /\ Len(wire') = 0 /\ serving' = "none" /\ armedAt' = 0
    BY EmptySeq DEF Finish
  <1>2. ~Asked' /\ ~Replied'
    BY <1>1 DEF Asked, Replied
  <1> QED
    BY <1>1, <1>2 DEF AskInv

LEMMA SamePlace ==
  ASSUME UNCHANGED <<pc, cmd>>
  PROVE  Past' = Past /\ AtStart' = AtStart
  BY DEF Past, AtStart, InLoop, Calling

LEMMA T2Asks ==
  ASSUME EInv, AskInv, T2, Waiting
  PROVE  AskInv'
  <1>0. UNCHANGED <<pc, cmd>>
    BY DEF T2, StartArms, Answers, StartRejected, Delivers, FingerOn, Captures, Accepts, Judges,
           Drops,
           IdentitiesChange, ours, control
  <1>1. Past' = Past /\ AtStart' = AtStart
    BY <1>0, SamePlace
  <1>2. Asked => AtStart
    BY DEF Waiting, AskInv
  <1>3. CASE FingerOn \/ Captures \/ Accepts \/ Judges
    <2>1. UNCHANGED <<reqs, serving, armedAt>>
      BY <1>3 DEF FingerOn, Captures, Accepts, Judges
    <2>2. \E events : Emits(events)
      <3>1. FingerOn \/ Captures \/ Accepts => \E code \in Codes : \E cap \in Nat :
              Emit(<<Event(code, clock + 1, cap, NoId)>>) /\ UNCHANGED ours
        BY StatusEmitted DEF EInv
      <3>2. FingerOn \/ Captures \/ Accepts => \E events : Emits(events)
        BY <3>1, OneEvent DEF EInv
      <3> QED
        BY <1>3, <3>2, JudgesOne DEF EInv
    <2>3. Replied' => Replied
      BY <2>2, EmitsEvents DEF Replied, EInv
    <2> QED
      BY <1>1, <1>2, <2>1, <2>3, AskStill
  <1>4. CASE Delivers \/ IdentitiesChange
    <2>1. UNCHANGED <<reqs, serving, armedAt>>
      BY <1>4 DEF Delivers, IdentitiesChange
    <2>2. wire' = wire \/ \E e \in EventSet : wire' = Append(wire, EventFrame(e))
      BY <1>4 DEF Delivers, IdentitiesChange, EInv, TypeOK, EventTypes
    <2>3. \A e \in EventSet : EventFrame(e) \in FrameSet /\ EventFrame(e).event
      BY DEF EventFrame, FrameSet
    <2>4. Replied' => Replied
      BY <2>2, <2>3, SameWire, FrameSent DEF EInv
    <2> QED
      BY <1>1, <1>2, <2>1, <2>4, AskStill
  <1>5. CASE StartArms
    <2>1. /\ reqs # <<>> /\ Head(reqs) = "start" /\ reqs' = reqs /\ serving' = "start"
          /\ Emit(<<Event("armed", clock + 1, 0, NoId)>>) /\ UNCHANGED ours
      BY <1>5 DEF StartArms
    <2>2. Asked /\ reqs[1] = "start"
      BY <2>1, OnlyStart, RequestTypes DEF EInv
    <2>3. AtStart /\ Past /\ ~Replied
      BY <1>2, <2>2 DEF Past, AskInv
    <2>4. Replied' => Replied
      <3>1. "armed" \in Codes /\ 0 \in Nat
        BY DEF Codes
      <3>2. Emits(<<Event("armed", clock + 1, 0, NoId)>>)
        BY <2>1, <3>1, OneEvent DEF EInv
      <3> QED
        BY <3>2, EmitsEvents DEF Replied, EInv
    <2>5. Asked' = Asked
      BY <2>1 DEF Asked
    <2> QED
      BY <1>1, <2>1, <2>2, <2>3, <2>4, <2>5 DEF AskInv
  <1>6. CASE Answers
    <2>1. /\ reqs # <<>> /\ (Head(reqs) = "start" => serving = "start")
          /\ reqs' = Tail(reqs) /\ serving' = "none" /\ armedAt' = armedAt
      BY <1>6 DEF Answers
    <2>2. PICK f \in FrameSet : wire' = Append(wire, f) /\ ~f.event /\ f.to = Head(reqs)
      <3> DEFINE l == CASE Head(reqs) \in {"ids1", "ids2", "ids3"}    -> inv \ Foreign
                        [] Head(reqs) \in {"glob1", "glob2", "glob3"} -> inv
                        [] OTHER -> {}
      <3>1. wire' = Append(wire, Reply(Head(reqs), TRUE, l))
        BY <1>6 DEF Answers
      <3>2. inv \subseteq Ids
        BY DEF EInv, TypeOK, DataTypes
      <3>3. l \in SUBSET Ids
        BY <3>2
      <3>4. Head(reqs) \in Cmds
        BY <2>1, RequestTypes DEF EInv
      <3> HIDE DEF l
      <3>5. /\ Reply(Head(reqs), TRUE, l) \in FrameSet /\ ~Reply(Head(reqs), TRUE, l).event
            /\ Reply(Head(reqs), TRUE, l).to = Head(reqs)
        BY <3>3, <3>4, ReplyType
      <3> QED
        BY <3>1, <3>5
    <2>3. Replied' => Replied \/ Head(reqs) = "start"
      BY <2>2, FrameSent DEF EInv
    <2>4. CASE Head(reqs) = "start"
      <3>1. reqs' = <<>> /\ Asked
        BY <2>1, <2>4, OnlyStart DEF EInv
      <3>2. Past
        BY <1>2, <3>1 DEF Past
      <3>3. Len(reqs') = 0 /\ ~Asked'
        BY <3>1, NoRequests
      <3> QED
        BY <1>1, <2>1, <3>2, <3>3 DEF AskInv
    <2>5. CASE Head(reqs) # "start"
      <3>1. /\ Len(reqs) \in Nat /\ Len(reqs') = Len(reqs) - 1 /\ Head(reqs) = reqs[1]
            /\ \A i \in 1..Len(reqs') : reqs'[i] = reqs[i + 1]
        BY <2>1, RequestTypes DEF EInv
      <3>2. \A i \in 1..Len(reqs') : reqs'[i] = "start" => i = Len(reqs') /\ Asked
        <4> TAKE i \in 1..Len(reqs')
        <4>1. i + 1 \in 1..Len(reqs) /\ reqs'[i] = reqs[i + 1]
          BY <3>1
        <4>2. reqs[i + 1] = "start" => i + 1 = Len(reqs) /\ Asked
          BY <4>1 DEF AskInv, Asked
        <4> QED
          BY <3>1, <4>1, <4>2
      <3>3. Asked' => Asked
        BY <3>2 DEF Asked
      <3>4. serving # "start"
        BY <2>1, <2>5, <3>1 DEF AskInv
      <3> QED
        <4>1. Replied' => Replied
          BY <2>3, <2>5
        <4>2. Asked' => AtStart' /\ ~Replied' /\ armedAt' = 0
          BY <1>1, <1>2, <2>1, <3>3, <3>4, <4>1 DEF AskInv
        <4>3. Replied' \/ armedAt' # 0 => Past'
          BY <1>1, <2>1, <4>1 DEF AskInv
        <4> QED
          BY <2>1, <3>2, <4>2, <4>3 DEF AskInv
    <2> QED
      BY <2>4, <2>5
  <1>7. CASE StartRejected
    <2>1. /\ reqs # <<>> /\ Head(reqs) = "start" /\ reqs' = Tail(reqs) /\ serving # "start"
          /\ UNCHANGED <<serving, armedAt>>
      BY <1>7 DEF StartRejected, t2
    <2>2. reqs' = <<>> /\ Asked
      BY <2>1, OnlyStart DEF EInv
    <2>3. Past
      BY <1>2, <2>2 DEF Past
    <2>4. Len(reqs') = 0 /\ ~Asked'
      BY <2>2, NoRequests
    <2> QED
      BY <1>1, <2>1, <2>3, <2>4 DEF AskInv
  <1>8. CASE Drops
    <2>1. reqs' = <<>> /\ serving' = "none" /\ UNCHANGED <<wire, armedAt>>
      BY <1>8 DEF Drops
    <2>2. Len(reqs') = 0 /\ ~Asked' /\ Replied' = Replied
      BY <2>1, NoRequests, SameWire
    <2> QED
      BY <1>1, <2>1, <2>2 DEF AskInv
  <1> QED
    BY <1>3, <1>4, <1>5, <1>6, <1>7, <1>8 DEF T2

LEMMA NextAsk ==
  ASSUME EInv, AskInv, [Next]_vars
  PROVE  AskInv'
  <1>1. CASE SignalCancel \/ UNCHANGED vars
    <2>1. UNCHANGED <<pc, cmd, reqs, serving, armedAt, wire>>
      BY <1>1 DEF SignalCancel, vars, control, link, device, t2, ghosts
    <2>2. Past' = Past /\ AtStart' = AtStart /\ Replied' = Replied
      BY <2>1, SamePlace, SameWire
    <2>3. Asked => AtStart' \/ pc' = "return"
      BY <2>1, <2>2 DEF AskInv
    <2> QED
      BY <2>1, <2>2, <2>3, AskStill
  <1> QED
    BY <1>1, SendAsks, ReadAsks, OtherAsks, FinishAsks, T2Asks DEF Next, Worker

-----------------------------------------------------------------------------
(* The barrier is this session's own. *)

\* A status 90 still to be seen is that of this session's StartMatch, and so is the barrier;
\* between two events the worker looks at none, or at the Match it has concluded.
ArmInv ==
  /\ \A e \in Queue : e.code = "armed" => e.ord = armedAt
  /\ barrier # 0 => InLoop /\ barrier = armedAt
  /\ pc # "handle" => got.code \in {"none", "match"}

LEMMA InitArm == Init => ArmInv
  <1> SUFFICES ASSUME Init PROVE ArmInv
    OBVIOUS
  <1>1. Len(pending) = 0 /\ Len(wire) = 0
    BY EmptySeq DEF Init
  <1>2. Retained = {} /\ UnreadEvents = {} /\ Coming = {}
    BY <1>1 DEF Init, Retained, UnreadEvents, Coming
  <1>3. Queue = {NoEvent}
    BY <1>2 DEF Init, Queue
  <1> QED
    BY <1>3, NoEventType DEF Init, ArmInv

\* What a step of the worker does to the barrier and to the event it looks at.
LEMMA BarrierSteps ==
  ASSUME ArmInv, Quiet, IInv, AskInv
  PROVE  /\ armedAt' = armedAt
         /\ \/ barrier' = 0
            \/ barrier' = barrier /\ (InLoop => InLoop')
            \/ HandleStatus /\ got.code = "armed" /\ barrier' = got.ord
         /\ pc' # "handle" => got'.code \in {"none", "match"}
  <1>1. CASE Begin \/ Interrupted \/ Send \/ ReadFails \/ Compare
    <2>1. UNCHANGED <<armedAt, barrier, got>> /\ ~InLoop /\ pc # "handle"
      BY <1>1 DEF Begin, Interrupted, Send, ReadFails, Compare, Rest, ghosts, evidence, InLoop
    <2> QED
      BY <2>1 DEF ArmInv
  <1>2. CASE ReadEvent \/ ReadStray \/ ReadReply
    <2>1. UNCHANGED <<armedAt, barrier, got>> /\ ~InLoop /\ pc # "handle"
      BY <1>2 DEF ReadEvent, ReadStray, ReadReply, Rest, ghosts, evidence, InLoop
    <2> QED
      BY <2>1 DEF ArmInv
  <1>3. CASE DeliverPending
    <2>1. UNCHANGED <<armedAt, barrier>> /\ pc' = "handle"
      BY <1>3 DEF DeliverPending, ghosts, evidence
    <2> QED
      BY <2>1 DEF InLoop
  <1>4. CASE DeliverFromWire
    <2>1. armedAt' = armedAt /\ pc = "loop"
      BY <1>4 DEF DeliverFromWire, ghosts
    <2>2. \/ UNCHANGED <<pc, got, barrier>>
          \/ pc' = "handle" /\ barrier' = barrier
          \/ got' = got /\ barrier' = 0
      BY <1>4 DEF DeliverFromWire, Forget, ForgetOrder, evidence
    <2> QED
      BY <2>1, <2>2 DEF ArmInv, InLoop
  <1>5. CASE LoopEnds
    <2>1. armedAt' = armedAt /\ pc = "loop" /\ got' = got /\ barrier' = 0
      BY <1>5 DEF LoopEnds, Forget, ForgetOrder, ghosts
    <2> QED
      BY <2>1 DEF ArmInv
  <1>6. CASE HandleStatus
    <2>1. armedAt' = armedAt /\ pc' = "loop" /\ got' = NoEvent
      BY <1>6 DEF HandleStatus, ghosts
    <2>2. \/ barrier' = barrier
          \/ got.code = "armed" /\ barrier' = got.ord
      BY <1>6 DEF HandleStatus, Observe
    <2> QED
      BY <1>6, <2>1, <2>2, NoEventType DEF InLoop
  <1>7. CASE HandleMatchResult
    <2>1. armedAt' = armedAt /\ got.code = "match" /\ got' \in {got, NoEvent} /\ barrier' = 0
      BY <1>7 DEF HandleMatchResult, Forget, ForgetOrder, ghosts
    <2> QED
      BY <2>1, NoEventType
  <1>8. CASE Answers \/ StartRejected \/ Delivers \/ Drops \/ IdentitiesChange \/ SignalCancel
             \/ UNCHANGED vars
    <2>1. UNCHANGED <<armedAt, barrier, got, pc>>
      BY <1>8 DEF Answers, StartRejected, Delivers, Drops, IdentitiesChange, SignalCancel, vars,
                  ours, control, evidence, ghosts
    <2> QED
      BY <2>1 DEF ArmInv, InLoop
  <1> QED
    BY <1>1, <1>2, <1>3, <1>4, <1>5, <1>6, <1>7, <1>8 DEF Quiet

LEMMA QuietArm ==
  ASSUME EInv, AskInv, ArmInv, Quiet
  PROVE  ArmInv'
  <1>1. Queue' \subseteq Queue \cup {NoEvent}
    BY QuietEvents DEF EInv, NothingNew
  <1>2. /\ armedAt' = armedAt
        /\ \/ barrier' = 0
           \/ barrier' = barrier /\ (InLoop => InLoop')
           \/ HandleStatus /\ got.code = "armed" /\ barrier' = got.ord
        /\ pc' # "handle" => got'.code \in {"none", "match"}
    BY BarrierSteps DEF EInv
  <1>3. \A e \in Queue' : e.code = "armed" => e.ord = armedAt'
    BY <1>1, <1>2, NoEventType DEF ArmInv
  <1>4. HandleStatus /\ got.code = "armed" => got.ord = armedAt /\ InLoop'
    BY DEF HandleStatus, ArmInv, Queue, InLoop
  <1>5. barrier' # 0 => InLoop' /\ barrier' = armedAt'
    BY <1>2, <1>4 DEF ArmInv
  <1> QED
    BY <1>2, <1>3, <1>5 DEF ArmInv

LEMMA StartArmsAt ==
  ASSUME EInv, AskInv, ArmInv, StartArms, Waiting
  PROVE  /\ AtStart /\ armedAt = 0 /\ barrier = 0 /\ armedAt' = clock + 1
         /\ \A e \in Queue : e.code # "armed"
         /\ Queue' = Queue \cup {Event("armed", clock + 1, 0, NoId)}
         /\ Seen' = Seen \cup {Event("armed", clock + 1, 0, NoId)}
         /\ clock' = clock + 1 /\ UNCHANGED <<ours, images>>
  <1>1. /\ reqs # <<>> /\ Head(reqs) = "start" /\ serving = "none" /\ armedAt' = clock + 1
        /\ Emit(<<Event("armed", clock + 1, 0, NoId)>>) /\ UNCHANGED <<ours, images>>
    BY DEF StartArms
  <1>2. Asked
    BY <1>1, OnlyStart DEF EInv
  <1>3. AtStart /\ armedAt = 0
    BY <1>1, <1>2 DEF AskInv, Waiting
  <1>4. barrier = 0 /\ got.code # "armed"
    BY <1>3 DEF ArmInv, AtStart, InLoop
  <1>5. \A e \in Retained \cup Coming : e.ord # 0
    <2> TAKE e \in Retained \cup Coming
    <2>1. highest < e.ord /\ highest \in Nat /\ e.ord \in Nat
      BY Numbers, AllEvents DEF EInv, OrderInv, Younger
    <2> QED
      BY <2>1
  <1>6. \A e \in Queue : e.code # "armed"
    BY <1>3, <1>4, <1>5 DEF Queue, ArmInv
  <1>7. "armed" \in Codes /\ 0 \in Nat
    BY DEF Codes
  <1>8. /\ Emits(<<Event("armed", clock + 1, 0, NoId)>>)
        /\ Sent(<<Event("armed", clock + 1, 0, NoId)>>) = {Event("armed", clock + 1, 0, NoId)}
    BY <1>1, <1>7, OneEvent DEF EInv
  <1>9. /\ Queue' = Queue \cup {Event("armed", clock + 1, 0, NoId)}
        /\ Seen' = Seen \cup {Event("armed", clock + 1, 0, NoId)}
    BY <1>8, EmitsEvents DEF EInv
  <1>10. clock' = clock + 1
    BY <1>1, Numbers DEF Emit, EInv
  <1> QED
    BY <1>1, <1>3, <1>4, <1>6, <1>9, <1>10

LEMMA NextArm ==
  ASSUME EInv, AskInv, ArmInv, [Next]_vars, ~ArmIsKept
  PROVE  ArmInv'
  <1>1. CASE Quiet
    BY <1>1, QuietArm
  <1>2. CASE Finish
    <2>1. \A e \in Queue' : e.code # "armed"
      BY <1>2, FinishEvents DEF EInv
    <2>2. barrier' = 0 /\ got' = NoEvent
      BY <1>2 DEF Finish
    <2> QED
      BY <2>1, <2>2, NoEventType DEF ArmInv
  <1>3. CASE StartArms /\ Waiting
    <2>1. /\ AtStart /\ barrier = 0 /\ armedAt' = clock + 1
          /\ \A e \in Queue : e.code # "armed"
          /\ Queue' = Queue \cup {Event("armed", clock + 1, 0, NoId)}
          /\ UNCHANGED ours
      BY <1>3, StartArmsAt
    <2>2. UNCHANGED <<pc, got, barrier>>
      BY <2>1 DEF ours, control, evidence
    <2>3. \A e \in Queue' : e.code = "armed" => e.ord = armedAt'
      BY <2>1, EventFields
    <2> QED
      BY <2>1, <2>2, <2>3 DEF ArmInv
  <1>4. CASE FingerOn \/ Captures \/ Accepts \/ Judges
    <2>1. \E events : Emits(events) /\ \A e \in Sent(events) : e.code # "armed"
      <3>1. CASE FingerOn \/ Captures \/ Accepts
        <4>1. PICK code \in Codes \ {"armed"}, cap \in Nat :
                Emit(<<Event(code, clock + 1, cap, NoId)>>) /\ UNCHANGED ours
          <5>1. CASE FingerOn \/ Captures
            BY <5>1, Numbers DEF FingerOn, Captures, Codes, EInv
          <5>2. CASE Accepts
            BY <5>2, HeadOfImages DEF Accepts, Codes, EInv
          <5> QED
            BY <3>1, <5>1, <5>2
        <4>2. /\ Emits(<<Event(code, clock + 1, cap, NoId)>>)
              /\ Sent(<<Event(code, clock + 1, cap, NoId)>>) = {Event(code, clock + 1, cap, NoId)}
          BY <4>1, OneEvent DEF EInv
        <4> QED
          BY <4>2, EventFields
      <3>2. CASE Judges
        BY <3>2, JudgesOne, EventFields DEF EInv
      <3> QED
        BY <1>4, <3>1, <3>2
    <2>2. PICK events : Emits(events) /\ \A e \in Sent(events) : e.code # "armed"
      BY <2>1
    <2>3. Queue' = Queue \cup Sent(events)
      BY <2>2, EmitsEvents DEF EInv
    <2>4. armedAt' = armedAt /\ UNCHANGED <<pc, got, barrier>>
      BY <1>4 DEF FingerOn, Captures, Accepts, Judges, ours, control, evidence
    <2> QED
      BY <2>2, <2>3, <2>4 DEF ArmInv, InLoop
  <1>5. \/ Quiet \/ Finish \/ (StartArms /\ Waiting) \/ FingerOn \/ Captures \/ Accepts
        \/ Judges
    BY DEF Next, Worker, T2, Quiet
  <1> QED
    BY <1>1, <1>2, <1>3, <1>4, <1>5

-----------------------------------------------------------------------------
(* Images are judged in the order in which they were taken. *)

Sorted == \A i, j \in 1..Len(images) : i < j => images[i] <= images[j]

\* A result is never for an older image than an ImageWasAccepted before it told, and
\* never is one still to be judged.
TimesInv ==
  /\ \A x, y \in Seen : x.code = "accepted" /\ y.code = "match" /\ x.ord < y.ord => x.cap <= y.cap
  /\ \A x \in Seen : x.code = "accepted" => x.cap <= clock /\ \A c \in InWork : x.cap <= c
TimeInv ==
  /\ imageTs <= clock /\ \A c \in InWork : imageTs <= c
  /\ \A y \in Queue : y.code = "match" => imageTs <= y.cap

\* The evidence of a touch, and the touch.
TouchInv ==
  /\ armedAt <= clock
  /\ finger # 0 => barrier # 0 /\ barrier < finger
  /\ captured # 0 => finger # 0 /\ armedAt < shotAt
ShotInv ==
  armedAt # 0 => \A e \in Queue : e.code = "captured" /\ armedAt < e.ord => armedAt < shotAt

VerdictInv ==
  live /\ outcome = "Match" =>
    armedAt # 0 /\ armedAt < shotAt /\ (imageTs # 0 => armedAt < got.cap)

LiveInv == Sorted /\ TimesInv /\ TimeInv /\ TouchInv /\ ShotInv /\ VerdictInv

LEMMA SeenTypes ==
  ASSUME TypeOK
  PROVE  /\ \A e \in Seen : e.ord \in Nat /\ e.cap \in Nat
         /\ Queue \subseteq Seen /\ got \in Queue
  <1>1. \A e \in Seen : e \in EventSet
    BY AllEvents DEF Seen, Queue, TypeOK, EventTypes
  <1> QED
    BY <1>1 DEF EventSet, Seen, Queue

LEMMA InitLive == Init => LiveInv
  <1> SUFFICES ASSUME Init PROVE LiveInv
    OBVIOUS
  <1>1. Len(pending) = 0 /\ Len(wire) = 0 /\ Len(images) = 0
    BY EmptySeq DEF Init
  <1>2. Retained = {} /\ UnreadEvents = {} /\ Coming = {} /\ InWork = {}
    BY <1>1 DEF Init, Retained, UnreadEvents, Coming, InWork
  <1>3. Queue = {NoEvent} /\ Seen = {NoEvent}
    BY <1>2 DEF Init, Queue, Seen
  <1>4. Sorted
    BY <1>1 DEF Sorted
  <1>5. TimesInv /\ TimeInv /\ TouchInv /\ ShotInv /\ VerdictInv
    BY <1>2, <1>3, NoEventType DEF Init, TimesInv, TimeInv, TouchInv, ShotInv, VerdictInv
  <1> QED
    BY <1>4, <1>5 DEF LiveInv

\* A quiet step takes neither an image nor a touch.
LEMMA QuietT2 ==
  ASSUME Quiet
  PROVE  UNCHANGED <<images, shotAt>>
  BY DEF Quiet, Begin, Interrupted, Send, ReadEvent, ReadStray, ReadReply, ReadFails, Rest,
         Compare, DeliverPending, DeliverFromWire, LoopEnds, HandleStatus, HandleMatchResult,
         Answers, StartRejected, Delivers, Drops, IdentitiesChange, SignalCancel, vars, device,
         t2, ours, ghosts

\* What a quiet step does to the evidence.
LEMMA EvidenceSteps ==
  ASSUME Quiet
  PROVE  \/ UNCHANGED <<barrier, finger, captured, imageTs>>
         \/ barrier' = 0 /\ finger' = 0 /\ captured' = 0 /\ imageTs' \in {imageTs, 0}
         \/ HandleStatus
  BY DEF Quiet, Begin, Interrupted, Send, ReadEvent, ReadStray, ReadReply, ReadFails, Rest,
         Compare, DeliverPending, DeliverFromWire, LoopEnds, HandleMatchResult,
         Answers, StartRejected, Delivers, Drops, IdentitiesChange, SignalCancel, vars,
         ours, evidence, Forget, ForgetOrder

\* All that waits is younger than the event the worker looks at.
LEMMA LooksAtOldest ==
  ASSUME EInv, HandleStatus
  PROVE  \A y \in Queue' : y = NoEvent \/ (y \in Queue /\ got.ord < y.ord)
  <1>1. pc = "handle" /\ got' = NoEvent /\ UNCHANGED <<pending, wire, backlog>>
    BY DEF HandleStatus, link, device, t2
  <1>2. Retained' = Retained /\ Coming' = Coming
    BY <1>1 DEF Retained, Coming, UnreadEvents
  <1>3. \A y \in Retained \cup Coming : got.ord < y.ord
    BY <1>1 DEF EInv, OrderInv, Younger
  <1> QED
    BY <1>1, <1>2, <1>3 DEF Queue

LEMMA QuietTimes ==
  ASSUME EInv, TimesInv, TimeInv, Quiet
  PROVE  TimesInv' /\ TimeInv'
  <1>1. /\ Queue' \subseteq Queue \cup {NoEvent} /\ Seen' \subseteq Seen \cup {NoEvent}
        /\ clock' = clock
    BY QuietEvents DEF EInv, NothingNew
  <1>2. InWork' = InWork
    BY QuietT2 DEF InWork
  <1>3. TimesInv'
    BY <1>1, <1>2, NoEventType DEF TimesInv
  <1>4. \A c \in InWork : c \in Nat
    BY Results0 DEF EInv
  <1>5. \A e \in Seen : e.ord \in Nat /\ e.cap \in Nat
    BY SeenTypes DEF EInv
  <1>6. Queue \subseteq Seen /\ got \in Queue /\ clock \in Nat
    BY SeenTypes, Numbers DEF EInv
  <1>7. CASE imageTs' = imageTs
    BY <1>1, <1>2, <1>3, <1>7, NoEventType DEF TimeInv
  <1>8. CASE imageTs' = 0
    BY <1>1, <1>2, <1>3, <1>4, <1>5, <1>6, <1>8, NoEventType DEF TimeInv
  <1>9. CASE HandleStatus /\ imageTs' # imageTs
    <2>1. got.code = "accepted" /\ imageTs' = got.cap
      BY <1>9 DEF HandleStatus, Observe
    <2>2. got.cap <= clock /\ \A c \in InWork : got.cap <= c
      BY <1>6, <2>1 DEF TimesInv
    <2>3. ASSUME NEW y \in Queue', y.code = "match" PROVE got.cap <= y.cap
      <3>1. y \in Queue /\ got.ord < y.ord
        BY <1>9, <2>3, LooksAtOldest, NoEventType
      <3> QED
        BY <1>6, <2>1, <2>3, <3>1 DEF TimesInv
    <2> QED
      BY <1>1, <1>2, <1>3, <2>1, <2>2, <2>3 DEF TimeInv
  <1> QED
    BY <1>3, <1>7, <1>8, <1>9, EvidenceSteps

\* An image is appended, or the first is done with.
LEMMA NextSorted ==
  ASSUME EInv, OnceInv, Sorted, [Next]_vars
  PROVE  Sorted'
  <1>1. images \in Seq(Nat) /\ Len(images) \in Nat /\ clock \in Nat
    BY Numbers, LenProperties DEF EInv, TypeOK, DataTypes
  <1>2. CASE images' = images
    BY <1>2 DEF Sorted
  <1>3. CASE images' = Append(images, clock + 1)
    <2>1. /\ Len(images') = Len(images) + 1 /\ images'[Len(images) + 1] = clock + 1
          /\ \A i \in 1..Len(images) : images'[i] = images[i]
      BY <1>1, <1>3
    <2>2. \A i \in 1..Len(images) : images[i] \in Nat /\ images[i] <= clock + 1
      <3> TAKE i \in 1..Len(images)
      <3>1. images[i] \in InWork
        BY DEF InWork
      <3>2. images[i] \in Nat /\ images[i] <= clock
        BY <3>1, Results0 DEF EInv, OnceInv, ImagesInv
      <3> QED
        BY <1>1, <3>2
    <2> SUFFICES ASSUME NEW i \in 1..Len(images'), NEW j \in 1..Len(images'), i < j
                 PROVE  images'[i] <= images'[j]
      BY DEF Sorted
    <2>3. i \in 1..Len(images)
      BY <1>1, <2>1
    <2>4. CASE j \in 1..Len(images)
      BY <2>1, <2>3, <2>4 DEF Sorted
    <2>5. CASE j = Len(images) + 1
      BY <2>1, <2>2, <2>3, <2>5
    <2> QED
      BY <1>1, <2>1, <2>4, <2>5
  <1>4. CASE images # <<>> /\ images' = Tail(images)
    <2>1. /\ Len(images') = Len(images) - 1
          /\ \A i \in 1..Len(images') : images'[i] = images[i + 1]
      BY <1>4, HeadOfImages DEF EInv
    <2> SUFFICES ASSUME NEW i \in 1..Len(images'), NEW j \in 1..Len(images'), i < j
                 PROVE  images'[i] <= images'[j]
      BY DEF Sorted
    <2>2. i + 1 \in 1..Len(images) /\ j + 1 \in 1..Len(images) /\ i + 1 < j + 1
      BY <1>1, <2>1
    <2> QED
      BY <2>1, <2>2 DEF Sorted
  <1> QED
    BY <1>2, <1>3, <1>4, ImageSteps

\* The first image is the oldest.
LEMMA FirstIsOldest ==
  ASSUME EInv, Sorted, images # <<>>
  PROVE  Head(images) \in InWork /\ \A c \in InWork : Head(images) <= c
  <1>1. Len(images) \in Nat /\ Len(images) > 0 /\ Head(images) = images[1]
    BY HeadOfImages DEF EInv
  <1>2. 1 \in 1..Len(images) /\ \A i \in 1..Len(images) : i = 1 \/ 1 < i
    BY <1>1
  <1>3. Head(images) \in InWork
    BY <1>1, <1>2 DEF InWork
  <1>4. ASSUME NEW c \in InWork PROVE Head(images) <= c
    <2>1. PICK i \in 1..Len(images) : c = images[i]
      BY DEF InWork
    <2>2. CASE i = 1
      BY <1>1, <1>3, <2>1, <2>2, Results0 DEF EInv
    <2>3. CASE 1 < i
      BY <1>1, <1>2, <2>1, <2>3 DEF Sorted
    <2> QED
      BY <1>2, <2>2, <2>3
  <1> QED
    BY <1>3, <1>4

LEMMA NextTimes ==
  ASSUME EInv, OnceInv, Sorted, TimesInv, TimeInv, [Next]_vars
  PROVE  TimesInv' /\ TimeInv'
  <1>0. /\ clock \in Nat /\ imageTs \in Nat /\ Queue \subseteq Seen
        /\ \A e \in Seen : e.ord \in Nat /\ e.cap \in Nat /\ e.ord <= clock
    BY SeenTypes, Numbers DEF EInv, OrderInv, Younger, Seen, Queue
  <1>1. \A c \in InWork : c \in Nat /\ c <= clock
    BY Results0 DEF EInv, OnceInv, ImagesInv
  <1>2. CASE Quiet
    BY <1>2, QuietTimes
  <1>3. CASE Finish
    <2>1. Seen' \subseteq Seen \cup {NoEvent}
      BY <1>3, FinishEvents DEF EInv
    <2>2. clock' = clock /\ images' = images /\ imageTs' = 0
      BY <1>3 DEF Finish
    <2>3. InWork' = InWork
      BY <2>2 DEF InWork
    <2>4. TimesInv'
      BY <2>1, <2>2, <2>3, NoEventType DEF TimesInv
    <2>5. \A y \in Queue' : y.cap \in Nat \/ y = NoEvent
      BY <1>0, <2>1 DEF Seen
    <2>6. TimeInv'
      BY <1>0, <1>1, <2>2, <2>3, <2>5, NoEventType DEF TimeInv
    <2> QED
      BY <2>4, <2>6
  <1>4. ASSUME NEW code \in Codes \ {"match", "accepted"}, NEW cap \in Nat,
               Emit(<<Event(code, clock + 1, cap, NoId)>>), UNCHANGED ours,
               InWork' \subseteq InWork \cup {clock + 1}
        PROVE  TimesInv' /\ TimeInv'
    <2> DEFINE e == Event(code, clock + 1, cap, NoId)
    <2>1. Emits(<<e>>) /\ Sent(<<e>>) = {e}
      BY <1>4, OneEvent DEF EInv
    <2>2. e.code \notin {"match", "accepted"}
      BY EventFields
    <2> HIDE DEF e
    <2>3. Seen' = Seen \cup {e} /\ Queue' = Queue \cup {e}
      BY <2>1, EmitsEvents DEF EInv
    <2>4. clock' = clock + 1 /\ imageTs' = imageTs
      BY <1>0, <1>4 DEF Emit, ours, evidence
    <2>5. TimesInv'
      BY <1>0, <1>4, <2>2, <2>3, <2>4 DEF TimesInv
    <2>6. TimeInv'
      BY <1>0, <1>4, <2>2, <2>3, <2>4 DEF TimeInv
    <2> QED
      BY <2>5, <2>6
  <1>5. CASE StartArms \/ FingerOn
    <2>1. PICK code \in Codes \ {"match", "accepted"}, cap \in Nat :
            Emit(<<Event(code, clock + 1, cap, NoId)>>) /\ UNCHANGED ours
      BY <1>5 DEF StartArms, FingerOn, Codes
    <2>2. InWork' = InWork
      BY <1>5 DEF StartArms, FingerOn, InWork
    <2> QED
      BY <1>4, <2>1, <2>2
  <1>6. CASE Captures
    <2>1. /\ Emit(<<Event("captured", clock + 1, clock + 1, NoId)>>) /\ UNCHANGED ours
          /\ images' = Append(images, clock + 1)
          /\ "captured" \in Codes \ {"match", "accepted"} /\ clock + 1 \in Nat
      BY <1>0, <1>6 DEF Captures, Codes
    <2>2. clock' = clock + 1 /\ matched' = matched
      BY <1>0, <2>1 DEF Emit, ours
    <2>3. InWork' = InWork \cup {clock + 1}
      BY <2>1, <2>2, ImageAdded DEF EInv, OnceInv
    <2> QED
      BY <1>4, <2>1, <2>3
  <1>7. CASE Accepts
    <2> DEFINE e == Event("accepted", clock + 1, Head(images), NoId)
    <2>1. /\ Emit(<<e>>) /\ UNCHANGED ours /\ images # <<>> /\ images' = images
          /\ "accepted" \in Codes
      BY <1>7 DEF Accepts, Codes
    <2>2. Head(images) \in InWork /\ \A c \in InWork : Head(images) <= c
      BY <2>1, FirstIsOldest
    <2>3. Head(images) \in Nat /\ Head(images) <= clock
      BY <1>1, <2>2
    <2>4. Emits(<<e>>) /\ Sent(<<e>>) = {e}
      BY <2>1, <2>3, OneEvent DEF EInv
    <2>5. e.code = "accepted" /\ e.ord = clock + 1 /\ e.cap = Head(images)
      BY EventFields
    <2>6. clock' = clock + 1 /\ imageTs' = imageTs
      BY <1>0, <2>1 DEF Emit, ours, evidence
    <2> HIDE DEF e
    <2>7. Seen' = Seen \cup {e} /\ Queue' = Queue \cup {e} /\ InWork' = InWork
      BY <2>1, <2>4, EmitsEvents DEF EInv, InWork
    <2>8. \A y \in Seen : ~(clock + 1 < y.ord)
      BY <1>0
    <2>9. \A x, y \in Seen' : x.code = "accepted" /\ y.code = "match" /\ x.ord < y.ord
            => x.cap <= y.cap
      BY <2>5, <2>7, <2>8 DEF TimesInv
    <2>10. \A x \in Seen' : x.code = "accepted" =>
             x.cap <= clock' /\ \A c \in InWork' : x.cap <= c
      BY <1>0, <2>2, <2>3, <2>5, <2>6, <2>7 DEF TimesInv
    <2>11. TimeInv'
      BY <1>0, <2>5, <2>6, <2>7 DEF TimeInv
    <2> QED
      BY <2>9, <2>10, <2>11 DEF TimesInv
  <1>8. CASE Judges
    <2>0. PICK events : \E id \in Ids \cup {NoId} :
            /\ Emits(events) /\ clock' = clock + 1
            /\ Sent(events) = {Event("match", clock + 1, Head(images), id)}
      BY <1>8, JudgesOne DEF EInv
    <2>1. PICK id \in Ids \cup {NoId} :
            /\ Emits(events) /\ clock' = clock + 1
            /\ Sent(events) = {Event("match", clock + 1, Head(images), id)}
      BY <2>0
    <2> DEFINE m == Event("match", clock + 1, Head(images), id)
    <2>2. m.code = "match" /\ m.ord = clock + 1 /\ m.cap = Head(images)
      BY EventFields
    <2> HIDE DEF m
    <2>3. Seen' = Seen \cup {m} /\ Queue' = Queue \cup {m}
      BY <2>1, EmitsEvents DEF EInv, m
    <2>4. images # <<>> /\ images' = Tail(images) /\ matched' = matched /\ imageTs' = imageTs
      BY <1>8 DEF Judges, ours, evidence
    <2>5. InWork' \subseteq InWork /\ Head(images) \in InWork
      BY <1>0, <2>1, <2>4, ImageDone DEF EInv, OnceInv
    <2>6. \A x, y \in Seen' : x.code = "accepted" /\ y.code = "match" /\ x.ord < y.ord
            => x.cap <= y.cap
      BY <2>2, <2>3, <2>5 DEF TimesInv
    <2>7. \A x \in Seen' : x.code = "accepted" =>
            x.cap <= clock' /\ \A c \in InWork' : x.cap <= c
      BY <1>0, <2>1, <2>2, <2>3, <2>5 DEF TimesInv
    <2>8. TimeInv'
      BY <1>0, <2>1, <2>2, <2>3, <2>4, <2>5 DEF TimeInv
    <2> QED
      BY <2>6, <2>7, <2>8 DEF TimesInv
  <1> QED
    BY <1>2, <1>3, <1>5, <1>6, <1>7, <1>8, NextParts

\* ImageCaptured is only believed after FingerOn, and FingerOn after the barrier.
LEMMA QuietTouch ==
  ASSUME EInv, AskInv, ArmInv, TouchInv, ShotInv, Quiet
  PROVE  TouchInv' /\ ShotInv'
  <1>1. /\ Queue' \subseteq Queue \cup {NoEvent} /\ clock' = clock
        /\ armedAt' = armedAt /\ shotAt' = shotAt
    BY QuietEvents, QuietT2, BarrierSteps DEF EInv, NothingNew
  <1>2. ShotInv'
    BY <1>1, NoEventType DEF ShotInv
  <1>3. CASE \/ UNCHANGED <<barrier, finger, captured>>
             \/ barrier' = 0 /\ finger' = 0 /\ captured' = 0
    BY <1>1, <1>2, <1>3 DEF TouchInv
  <1>4. CASE HandleStatus
    <2>1. Observe /\ got \in Queue
      BY <1>4 DEF HandleStatus, Queue
    <2>2. /\ barrier \in Nat /\ finger \in Nat /\ captured \in Nat /\ got.ord \in Nat
          /\ armedAt \in Nat
      BY Numbers, SeenTypes, <2>1 DEF EInv
    <2>3. CASE got.code = "armed" /\ barrier = 0
      BY <1>1, <1>2, <2>1, <2>3 DEF Observe, TouchInv
    <2>4. CASE ~(got.code = "armed" /\ barrier = 0)
      <3>1. barrier' = barrier
        BY <2>1, <2>4 DEF Observe
      <3>2. finger' = finger \/ (barrier # 0 /\ barrier < got.ord /\ finger' = got.ord)
        BY <2>1, <2>2, <2>4 DEF Observe
      <3>3. finger # 0 => finger' = finger
        BY <2>1, <2>4 DEF Observe
      <3>4. finger' # 0 => barrier' # 0 /\ barrier' < finger'
        BY <3>1, <3>2 DEF TouchInv
      <3>5. \/ captured' = captured
            \/ got.code = "captured" /\ finger # 0 /\ finger < got.ord
        BY <2>1, <2>2, <2>4 DEF Observe
      <3>6. ASSUME captured' # 0 PROVE finger' # 0 /\ armedAt < shotAt
        <4>1. CASE captured' = captured
          BY <3>3, <3>6, <4>1 DEF TouchInv
        <4>2. CASE got.code = "captured" /\ finger # 0 /\ finger < got.ord
          <5>1. barrier # 0 /\ barrier = armedAt /\ barrier < finger
            BY <4>2 DEF TouchInv, ArmInv
          <5>2. armedAt # 0 /\ armedAt < got.ord
            BY <2>2, <4>2, <5>1
          <5> QED
            BY <2>1, <3>3, <4>2, <5>2 DEF ShotInv
        <4> QED
          BY <3>5, <4>1, <4>2
      <3> QED
        BY <1>1, <1>2, <3>4, <3>6 DEF TouchInv
    <2> QED
      BY <2>3, <2>4
  <1> QED
    BY <1>2, <1>3, <1>4, EvidenceSteps

LEMMA NextTouch ==
  ASSUME EInv, AskInv, ArmInv, TouchInv, ShotInv, [Next]_vars
  PROVE  TouchInv' /\ ShotInv'
  <1>0. /\ clock \in Nat /\ armedAt \in Nat
        /\ \A e \in Queue : e.ord \in Nat /\ e.ord <= clock
    BY Numbers, SeenTypes DEF EInv, OrderInv, Younger, Queue
  <1>1. CASE Quiet
    BY <1>1, QuietTouch
  <1>2. CASE Finish
    <2>1. armedAt' = 0 /\ finger' = 0 /\ captured' = 0 /\ clock' = clock
      BY <1>2 DEF Finish
    <2> QED
      BY <1>0, <2>1 DEF TouchInv, ShotInv
  <1>3. CASE StartArms /\ Waiting
    <2>1. /\ barrier = 0 /\ armedAt' = clock + 1 /\ clock' = clock + 1
          /\ Queue' = Queue \cup {Event("armed", clock + 1, 0, NoId)} /\ UNCHANGED ours
      BY <1>3, StartArmsAt
    <2>2. finger = 0 /\ captured = 0 /\ UNCHANGED <<finger, captured, barrier>>
      BY <2>1 DEF TouchInv, ours, evidence
    <2>3. \A e \in Queue : ~(armedAt' < e.ord)
      BY <1>0, <2>1
    <2>4. ShotInv'
      BY <2>1, <2>3, EventFields DEF ShotInv
    <2>5. TouchInv'
      BY <1>0, <2>1, <2>2 DEF TouchInv
    <2> QED
      BY <2>4, <2>5
  <1>4. CASE FingerOn \/ Accepts \/ Judges
    <2>1. \E events : /\ Emits(events) /\ clock <= clock' /\ clock' \in Nat
                      /\ \A e \in Sent(events) : e.code # "captured"
      <3>1. CASE FingerOn \/ Accepts
        <4>1. PICK code \in Codes \ {"captured"}, cap \in Nat :
                Emit(<<Event(code, clock + 1, cap, NoId)>>) /\ UNCHANGED ours
          BY <3>1, HeadOfImages DEF FingerOn, Accepts, Codes, EInv
        <4>2. /\ Emits(<<Event(code, clock + 1, cap, NoId)>>)
              /\ Sent(<<Event(code, clock + 1, cap, NoId)>>) = {Event(code, clock + 1, cap, NoId)}
          BY <4>1, OneEvent DEF EInv
        <4>3. clock <= clock' /\ clock' \in Nat
          BY <4>2, EmitsEvents DEF EInv
        <4> QED
          BY <4>2, <4>3, EventFields
      <3>2. CASE Judges
        <4>1. PICK events : \E id \in Ids \cup {NoId} :
                /\ Emits(events) /\ clock' = clock + 1
                /\ Sent(events) = {Event("match", clock + 1, Head(images), id)}
          BY <3>2, JudgesOne DEF EInv
        <4>2. \A e \in Sent(events) : e.code # "captured"
          BY <4>1, EventFields
        <4> QED
          BY <1>0, <4>1, <4>2
      <3> QED
        BY <1>4, <3>1, <3>2
    <2>2. PICK events : /\ Emits(events) /\ clock <= clock' /\ clock' \in Nat
                        /\ \A e \in Sent(events) : e.code # "captured"
      BY <2>1
    <2>3. Queue' = Queue \cup Sent(events)
      BY <2>2, EmitsEvents DEF EInv
    <2>4. UNCHANGED <<armedAt, shotAt, barrier, finger, captured>>
      BY <1>4 DEF FingerOn, Accepts, Judges, ours, evidence
    <2>5. ShotInv'
      BY <2>2, <2>3, <2>4 DEF ShotInv
    <2>6. TouchInv'
      BY <1>0, <2>2, <2>4 DEF TouchInv
    <2> QED
      BY <2>5, <2>6
  <1>5. CASE Captures
    <2>1. /\ UNCHANGED <<armedAt, barrier, finger, captured>> /\ shotAt' = clock + 1
          /\ Emit(<<Event("captured", clock + 1, clock + 1, NoId)>>)
      BY <1>5 DEF Captures, ours, evidence
    <2>2. clock' = clock + 1
      BY <1>0, <2>1 DEF Emit
    <2>3. armedAt <= clock
      BY DEF TouchInv
    <2>4. armedAt' < shotAt' /\ armedAt' <= clock'
      BY <1>0, <2>1, <2>2, <2>3
    <2> QED
      BY <2>1, <2>4 DEF TouchInv, ShotInv
  <1>6. \/ Quiet \/ Finish \/ (StartArms /\ Waiting) \/ FingerOn \/ Captures \/ Accepts
        \/ Judges
    BY DEF Next, Worker, T2, Quiet
  <1> QED
    BY <1>1, <1>2, <1>3, <1>4, <1>5, <1>6

\* A Match is concluded, with live evidence asked for.
LEMMA JudgedFresh ==
  ASSUME EInv, ArmInv, LiveInv, HandleMatchResult, live', outcome' = "Match"
  PROVE  armedAt # 0 /\ armedAt < shotAt /\ (imageTs' # 0 => armedAt < got.cap)
  <1>1. pc = "handle" /\ got.code = "match" /\ Ordered /\ ImageFresh /\ imageTs' = imageTs
    BY DEF HandleMatchResult
  <1>2. barrier = armedAt /\ armedAt # 0 /\ captured # 0
    BY <1>1 DEF Ordered, ArmInv
  <1>3. armedAt < shotAt
    BY <1>2 DEF LiveInv, TouchInv
  <1>4. got.cap \in Nat /\ imageTs \in Nat /\ armedAt \in Nat
    BY Numbers, SeenTypes DEF EInv
  <1>5. imageTs <= got.cap
    BY <1>1 DEF LiveInv, TimeInv, Queue
  <1>6. imageTs # 0 => armedAt < imageTs
    BY <1>1, <1>2, <1>4 DEF ImageFresh
  <1> QED
    BY <1>1, <1>2, <1>3, <1>4, <1>5, <1>6

LEMMA NextVerdict ==
  ASSUME EInv, AskInv, ArmInv, LiveInv, [Next]_vars
  PROVE  VerdictInv'
  <1>1. CASE Quiet
    <2> SUFFICES ASSUME live', outcome' = "Match"
                 PROVE  /\ armedAt' # 0 /\ armedAt' < shotAt'
                        /\ imageTs' # 0 => armedAt' < got'.cap
      BY DEF VerdictInv
    <2>1. got' = got /\ (outcome = "Match" \/ HandleMatchResult)
      BY <1>1, MatchSteps DEF EInv
    <2>2. armedAt' = armedAt /\ shotAt' = shotAt
      BY <1>1, BarrierSteps, QuietT2 DEF EInv
    <2>3. CASE HandleMatchResult
      BY <2>1, <2>2, <2>3, JudgedFresh
    <2>4. CASE outcome = "Match" /\ ~HandleMatchResult
      <3>1. pc = "return" \/ Calling
        BY <2>4 DEF EInv, IInv, Concluded
      <3>2. UNCHANGED <<live, imageTs>>
        BY <1>1, <2>4, <3>1 DEF Quiet, Calling, Begin, Interrupted, Send, ReadEvent, ReadStray,
               ReadReply, ReadFails, Rest, Compare, DeliverPending, DeliverFromWire, LoopEnds,
               HandleStatus, Answers, StartRejected, Delivers, Drops, IdentitiesChange,
               SignalCancel, vars, ours, control, evidence
      <3> QED
        BY <2>1, <2>2, <2>4, <3>2 DEF LiveInv, VerdictInv
    <2> QED
      BY <2>1, <2>3, <2>4
  <1>2. CASE Finish
    BY <1>2 DEF Finish, VerdictInv
  <1>3. CASE StartArms /\ Waiting
    <2>1. AtStart /\ outcome' = outcome
      BY <1>3, StartArmsAt DEF ours, control
    <2>2. outcome # "Match"
      BY <2>1 DEF EInv, IInv, Concluded, AtStart, After
    <2> QED
      BY <2>1, <2>2 DEF VerdictInv
  <1>4. CASE FingerOn \/ Accepts \/ Judges
    BY <1>4 DEF FingerOn, Accepts, Judges, ours, control, evidence, LiveInv, VerdictInv
  <1>5. CASE Captures
    <2>1. UNCHANGED <<live, outcome, got, imageTs, armedAt>> /\ shotAt' = clock + 1
      BY <1>5 DEF Captures, ours, control, evidence
    <2>2. armedAt < clock + 1
      BY Numbers DEF EInv, LiveInv, TouchInv
    <2> QED
      BY <2>1, <2>2 DEF LiveInv, VerdictInv
  <1>6. \/ Quiet \/ Finish \/ (StartArms /\ Waiting) \/ FingerOn \/ Captures \/ Accepts
        \/ Judges
    BY DEF Next, Worker, T2, Quiet
  <1> QED
    BY <1>1, <1>2, <1>3, <1>4, <1>5, <1>6

\* No Match without a touch of this session, if the T2 keeps no status 90 for a later
\* connection: an image was taken after StartMatch had armed the sensor, and if an
\* ImageWasAccepted told a time after the barrier, so was the matched one, whatever older
\* images and results are still delivered (VerificationEngine.cpp 681-712).
THEOREM OnlyLiveTouchMatchesAlways ==
  ASSUME ArmIsKept = FALSE
  PROVE  Spec => []OnlyLiveTouchMatches
  <1> DEFINE Inv == EInv /\ OnceInv /\ AskInv /\ ArmInv /\ LiveInv
  <1>1. Inv => OnlyLiveTouchMatches
    <2> SUFFICES ASSUME EInv, LiveInv, live, outcome = "Match"
                 PROVE  /\ armedAt # 0 /\ shotAt > armedAt
                        /\ imageTs # 0 => got.cap > armedAt
      BY DEF OnlyLiveTouchMatches
    <2>1. armedAt # 0 /\ armedAt < shotAt /\ (imageTs # 0 => armedAt < got.cap)
      BY DEF LiveInv, VerdictInv
    <2>2. got.cap \in Nat /\ armedAt \in Nat /\ shotAt \in Nat
      BY Numbers, SeenTypes DEF EInv
    <2> QED
      BY <2>1, <2>2
  <1>2. Init => Inv
    BY InitEInv, InitOnce, InitAsk, InitArm, InitLive
  <1>3. Inv /\ [Next]_vars => Inv'
    <2> SUFFICES ASSUME Inv, [Next]_vars PROVE Inv'
      OBVIOUS
    <2>1. EInv' /\ OnceInv' /\ AskInv'
      BY NextEInv, NextOnce, NextAsk
    <2>2. ArmInv'
      BY NextArm
    <2>3. LiveInv'
      BY NextSorted, NextTimes, NextTouch, NextVerdict DEF LiveInv
    <2> QED
      BY <2>1, <2>2, <2>3
  <1> QED
    BY <1>1, <1>2, <1>3, PTL DEF Spec

\* What the session takes for its barrier is the status 90 of its own StartMatch, if the T2
\* keeps none for a later connection (VerificationEngine.cpp 537-539).
THEOREM BarrierIsOwnAlways ==
  ASSUME ArmIsKept = FALSE
  PROVE  Spec => []BarrierIsOwn
  <1> DEFINE Inv == EInv /\ AskInv /\ ArmInv
  <1>1. Inv => BarrierIsOwn
    BY DEF ArmInv, BarrierIsOwn
  <1>2. Init => Inv
    BY InitEInv, InitAsk, InitArm
  <1>3. Inv /\ [Next]_vars => Inv'
    BY NextEInv, NextAsk, NextArm
  <1> QED
    BY <1>1, <1>2, <1>3, PTL DEF Spec
===============================================================================
