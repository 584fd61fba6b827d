--------------------------- MODULE T2EngineProofs ---------------------------
(***************************************************************************)
(* T2Engine: type correctness, that it implements T2Consent step by step,   *)
(* and what follows from T2ConsentProofs about its grants, for any number   *)
(* of pipelines, samples and records and whatever the storage does.         *)
(***************************************************************************)
EXTENDS T2Engine, TLAPS

Promised == INSTANCE T2ConsentProofs WITH held <- Held, pledge <- Pledged, grants <- GrantTickets

(***************************************************************************)
(* What the helpers do to the types.                                       *)
(***************************************************************************)
LEMMA ConstantTypes == NoSample \in Samples /\ NoEnrollment \in Enrollments /\ 0 \in 0..MaxSamples
BY BoundsAssumption DEF NoSample, NoEnrollment, Enrollment, Samples, Enrollments, Kinds, Purposes

LEMMA ClearedTypes ==
  ASSUME TypeOK, NEW p \in Pipelines, ClearSample(p)
  PROVE  /\ sample' \in [Pipelines -> Samples]
         /\ \A q \in Pipelines : sample'[q] = IF q = p THEN NoSample ELSE sample[q]
BY ConstantTypes DEF ClearSample, TypeOK

LEMMA ResetTypes ==
  ASSUME TypeOK, NEW p \in Pipelines, ResetEnrollment(p)
  PROVE  /\ enroll' \in [Pipelines -> Enrollments]
         /\ \A q \in Pipelines : enroll'[q] = IF q = p THEN NoEnrollment ELSE enroll[q]
BY ConstantTypes DEF ResetEnrollment, TypeOK

LEMMA GrantTyped ==
  ASSUME TypeOK, NEW p \in Pipelines, NEW what \in {"match", "identity", "record"},
         NEW i \in 1..MaxSamples, NEW u \in Users, Grants(Grant(p, i, what, u))
  PROVE  granted' \subseteq GrantTypes
<1>1. Grant(p, i, what, u) \in GrantTypes
  BY DEF Grant, GrantTypes
<1> QED
  BY <1>1 DEF TypeOK, Grants

\* The ids and users that grants are made of.
LEMMA LinkedTypes ==
  ASSUME TypeOK, NEW p \in Pipelines
  PROVE  /\ sample[p].valid => sample[p].id \in 1..MaxSamples /\ sample[p].user \in Users
         /\ enroll[p].ready => enroll[p].id \in 1..MaxSamples /\ enroll[p].user \in Users
<1>1. sample[p].id \in 0..MaxSamples /\ enroll[p].id \in 0..MaxSamples
  BY DEF TypeOK, Samples, Enrollments
<1> QED
  BY <1>1, BoundsAssumption DEF TypeOK, Linked

(***************************************************************************)
(* Type correctness.                                                       *)
(***************************************************************************)
LEMMA InitTyped == Init => TypeOK
<1> SUFFICES ASSUME Init PROVE TypeOK
  OBVIOUS
<1>1. \A p \in Pipelines : Linked(p)
  BY DEF Init, Linked, NoSample, NoEnrollment, Enrollment
<1> QED
  BY <1>1, ConstantTypes DEF Init, TypeOK, Answers

\* The steps that leave samples, enrollments and grants alone.
LEMMA QuietTyped ==
  ASSUME TypeOK, UNCHANGED <<sample, enroll, ghosts>>,
         attached' \in [Pipelines -> BOOLEAN], \A p \in Pipelines : attached[p] => attached'[p],
         storage' \subseteq Templates, answer' \in Answers
  PROVE  TypeOK'
<1>1. \A p \in Pipelines : Linked(p)'
  BY DEF TypeOK, Linked
<1> QED
  BY <1>1 DEF TypeOK, ghosts

\* Forgetting the sample, the enrollment or both of one pipeline.
LEMMA ForgetTyped ==
  ASSUME TypeOK, NEW p \in Pipelines,
         ClearSample(p) \/ sample' = sample, ResetEnrollment(p) \/ enroll' = enroll
  PROVE  /\ sample' \in [Pipelines -> Samples] /\ enroll' \in [Pipelines -> Enrollments]
         /\ attached' = attached => \A q \in Pipelines : Linked(q)'
<1>1. /\ sample' \in [Pipelines -> Samples]
      /\ \A q \in Pipelines : sample'[q] = sample[q] \/ sample'[q] = NoSample
  BY ClearedTypes DEF TypeOK
<1>2. /\ enroll' \in [Pipelines -> Enrollments]
      /\ \A q \in Pipelines : enroll'[q] = enroll[q] \/ enroll'[q] = NoEnrollment
  BY ResetTypes DEF TypeOK
<1>3. ~NoSample.valid /\ ~NoEnrollment.active /\ ~NoEnrollment.ready
  BY DEF NoSample, NoEnrollment, Enrollment
<1> QED
  BY <1>1, <1>2, <1>3 DEF TypeOK, Linked

LEMMA DetachTyped == ASSUME TypeOK, NEW p \in Pipelines, Detach(p) PROVE TypeOK'
<1>1. sample' \in [Pipelines -> Samples] /\ enroll' \in [Pipelines -> Enrollments]
  BY ForgetTyped DEF Detach
<1>2. attached' = [attached EXCEPT ![p] = FALSE]
  BY DEF Detach
<1>3. \A q \in Pipelines :
        /\ sample'[q] = IF q = p THEN NoSample ELSE sample[q]
        /\ enroll'[q] = IF q = p THEN NoEnrollment ELSE enroll[q]
  BY ClearedTypes, ResetTypes DEF Detach
<1>4. \A q \in Pipelines : Linked(q)'
  <2>1. ~NoSample.valid /\ ~NoEnrollment.active /\ ~NoEnrollment.ready
    BY DEF NoSample, NoEnrollment, Enrollment
  <2> QED
    BY <1>2, <1>3, <2>1 DEF TypeOK, Linked
<1> QED
  BY <1>1, <1>2, <1>4 DEF Detach, TypeOK, ghosts, Answers

LEMMA AcceptTyped == ASSUME TypeOK, NEW p \in Pipelines, AcceptSampleData(p) PROVE TypeOK'
<1>0. UNCHANGED <<attached, enroll, storage, granted, slept, opened>> /\ attached[p]
  BY DEF AcceptSampleData
<1>1. PICK b \in Buffers : IF ParseVendorBir(b) /\ DeserializeVendorPayload(b) /\ b.match
                          THEN TakeSample(p, b) ELSE RefuseSample(p)
  BY DEF AcceptSampleData
<1>2. CASE RefuseSample(p)
  <2>1. /\ sample' \in [Pipelines -> Samples] /\ \A q \in Pipelines : Linked(q)'
    BY <1>0, <1>2, ForgetTyped DEF RefuseSample
  <2> QED
    BY <1>0, <1>2, <2>1 DEF RefuseSample, TypeOK, Answers
<1>3. CASE DeserializeVendorPayload(b) /\ TakeSample(p, b)
  <2>1. PICK purpose \in Purposes :
          sample' = [sample EXCEPT ![p] = [valid |-> TRUE, purpose |-> purpose, kind |-> b.kind,
                                           user |-> b.user, id |-> issued + 1]]
    BY <1>3 DEF TakeSample
  <2> DEFINE s == [valid |-> TRUE, purpose |-> purpose, kind |-> b.kind,
                   user |-> b.user, id |-> issued + 1]
  <2>2. issued + 1 \in 0..MaxSamples /\ issued + 1 > 0 /\ issued' = issued + 1 /\ answer' = "S_OK"
    BY <1>3, BoundsAssumption DEF TakeSample, TypeOK
  <2>3. b.kind \in Kinds /\ b.user \in Users
    BY <1>3 DEF DeserializeVendorPayload, Buffers
  <2>4. s \in Samples /\ s.user \in Users /\ s.id > 0
    BY <2>2, <2>3 DEF Samples
  <2> HIDE DEF s
  <2>5. /\ sample' \in [Pipelines -> Samples]
        /\ \A q \in Pipelines : sample'[q] = IF q = p THEN s ELSE sample[q]
    BY <2>1, <2>4 DEF TypeOK, s
  <2>6. \A q \in Pipelines : Linked(q)'
    BY <1>0, <2>4, <2>5 DEF TypeOK, Linked
  <2> QED
    BY <1>0, <2>2, <2>5, <2>6 DEF TypeOK, Answers
<1> QED
  BY <1>1, <1>2, <1>3

LEMMA VerifyTyped == ASSUME TypeOK, NEW p \in Pipelines, VerifyFeatureSet(p) PROVE TypeOK'
<1>1. UNCHANGED <<attached, enroll, storage, issued, slept, opened>>
  BY DEF VerifyFeatureSet
<1>2. sample' \in [Pipelines -> Samples] /\ \A q \in Pipelines : Linked(q)'
  BY <1>1, ForgetTyped DEF VerifyFeatureSet, Consume
<1>3. answer' \in Answers
  BY DEF VerifyFeatureSet, Answers
<1>4. granted' \subseteq GrantTypes
  <2>1. \/ granted' = granted
        \/ sample[p].valid /\ Grants(Grant(p, sample[p].id, "match", sample[p].user))
    BY DEF VerifyFeatureSet, SampleIsTouchMatch
  <2> QED
    BY <2>1, LinkedTypes, GrantTyped DEF TypeOK
<1> QED
  BY <1>1, <1>2, <1>3, <1>4 DEF TypeOK

LEMMA IdentifyTyped == ASSUME TypeOK, NEW p \in Pipelines, IdentifyFeatureSet(p) PROVE TypeOK'
<1>1. UNCHANGED <<attached, enroll, storage, issued, slept, opened>>
  BY DEF IdentifyFeatureSet
<1>2. sample' \in [Pipelines -> Samples] /\ \A q \in Pipelines : Linked(q)'
  BY <1>1, ForgetTyped DEF IdentifyFeatureSet, Consume
<1>3. answer' \in Answers
  BY DEF IdentifyFeatureSet, Answers
<1>4. granted' \subseteq GrantTypes
  <2>1. \/ granted' = granted
        \/ sample[p].valid /\ Grants(Grant(p, sample[p].id, "identity", sample[p].user))
    BY DEF IdentifyFeatureSet, SampleIsTouchMatch
  <2> QED
    BY <2>1, LinkedTypes, GrantTyped DEF TypeOK
<1> QED
  BY <1>1, <1>2, <1>3, <1>4 DEF TypeOK

LEMMA CreateTyped == ASSUME TypeOK, NEW p \in Pipelines, CreateEnrollment(p) PROVE TypeOK'
<1>1. /\ UNCHANGED <<attached, storage, issued, granted, slept>> /\ attached[p]
      /\ answer' \in Answers
  BY DEF CreateEnrollment, Answers
<1> DEFINE e == Opened(enroll[p])
<1>2. e \in Enrollments /\ ~e.ready
  BY BoundsAssumption DEF Opened, Enrollment, Enrollments
<1> HIDE DEF e
<1>3. /\ enroll' \in [Pipelines -> Enrollments]
      /\ \A q \in Pipelines : enroll'[q] = IF q = p THEN e ELSE enroll[q]
  BY <1>2 DEF CreateEnrollment, TypeOK, e
<1>4. /\ sample' \in [Pipelines -> Samples]
      /\ \A q \in Pipelines : sample'[q] = IF q = p THEN NoSample ELSE sample[q]
  BY ClearedTypes DEF CreateEnrollment
<1>5. ~NoSample.valid
  BY DEF NoSample
<1>6. \A q \in Pipelines : Linked(q)'
  BY <1>1, <1>2, <1>3, <1>4, <1>5 DEF TypeOK, Linked
<1>7. opened' \in [Pipelines -> 0..MaxSamples]
  BY DEF CreateEnrollment, TypeOK
<1> QED
  BY <1>1, <1>3, <1>4, <1>6, <1>7 DEF TypeOK

LEMMA UpdateTyped == ASSUME TypeOK, NEW p \in Pipelines, UpdateEnrollment(p) PROVE TypeOK'
<1>1. UNCHANGED <<attached, storage, ghosts>> /\ answer' \in Answers
  BY DEF UpdateEnrollment, Answers
<1>2. CASE enroll' = enroll
  <2>1. sample' \in [Pipelines -> Samples] /\ \A q \in Pipelines : Linked(q)'
    BY <1>1, <1>2, ForgetTyped DEF UpdateEnrollment, Consume
  <2> QED
    BY <1>1, <1>2, <2>1 DEF TypeOK, ghosts
<1>3. CASE enroll' # enroll
  <2> DEFINE e == Enrollment(TRUE, TRUE, sample[p].user, sample[p].id)
  <2>1. /\ enroll[p].active /\ sample[p].valid /\ ClearSample(p)
        /\ enroll' = [enroll EXCEPT ![p] = e]
    BY <1>3 DEF UpdateEnrollment, Consume, SampleIsEnrollConfirm
  <2>2. /\ enroll[p] \in Enrollments
        /\ sample[p].id \in 1..MaxSamples /\ sample[p].user \in Users
    BY <2>1, LinkedTypes DEF TypeOK
  <2>3. e \in Enrollments /\ e.active /\ e.user \in Users /\ e.id > 0
    BY <2>2, BoundsAssumption DEF Enrollment, Enrollments
  <2> HIDE DEF e
  <2>4. /\ enroll' \in [Pipelines -> Enrollments]
        /\ \A q \in Pipelines : enroll'[q] = IF q = p THEN e ELSE enroll[q]
    BY <2>1, <2>3 DEF TypeOK
  <2>5. /\ sample' \in [Pipelines -> Samples]
        /\ \A q \in Pipelines : sample'[q] = IF q = p THEN NoSample ELSE sample[q]
    BY <2>1, ClearedTypes
  <2>6. ~NoSample.valid /\ attached[p]
    BY <2>1 DEF NoSample, TypeOK, Linked
  <2>7. \A q \in Pipelines : Linked(q)'
    BY <1>1, <2>3, <2>4, <2>5, <2>6 DEF TypeOK, Linked
  <2> QED
    BY <1>1, <2>4, <2>5, <2>7 DEF TypeOK, ghosts
<1> QED
  BY <1>2, <1>3

LEMMA CommitTyped == ASSUME TypeOK, NEW p \in Pipelines, CommitEnrollment(p) PROVE TypeOK'
<1>1. /\ UNCHANGED <<attached, sample, issued, slept, opened>> /\ answer' \in Answers
      /\ ResetEnrollment(p) \/ enroll' = enroll
  BY DEF CommitEnrollment, Answers
<1>2. enroll' \in [Pipelines -> Enrollments] /\ \A q \in Pipelines : Linked(q)'
  BY <1>1, ForgetTyped
<1>3. \/ storage' = storage /\ granted' = granted
      \/ /\ enroll[p].ready
         /\ \E i \in Identities, f \in Fingers :
              storage' = storage \cup {Template(i, f, enroll[p].user)}
         /\ Grants(Grant(p, enroll[p].id, "record", enroll[p].user))
  BY DEF CommitEnrollment, Ready
<1>4. storage' \subseteq Templates
  BY <1>3, LinkedTypes DEF TypeOK, Templates
<1>5. granted' \subseteq GrantTypes
  BY <1>3, LinkedTypes, GrantTyped DEF TypeOK
<1> QED
  BY <1>1, <1>2, <1>4, <1>5 DEF TypeOK

LEMMA NextTyped == TypeOK /\ [Next]_vars => TypeOK'
<1> SUFFICES ASSUME TypeOK, [Next]_vars PROVE TypeOK'
  OBVIOUS
<1>1. CASE UNCHANGED vars
  BY <1>1, QuietTyped DEF vars, context, TypeOK
<1>2. CASE Stateless
  <2>1. answer' \in Answers /\ UNCHANGED <<context, storage, ghosts>>
    BY <1>2 DEF Stateless, Answer, Answers, QueryPreferredFormat, ExportEngineData,
       GetEnrollmentHash, ControlUnit, PipelineInit, QueryExtendedInfo, RefreshCache,
       QueryCalibrationData
  <2> QED
    BY <2>1, QuietTyped DEF context, TypeOK
<1>3. CASE StorageChanges
  BY <1>3, QuietTyped DEF StorageChanges, context, TypeOK
<1>4. ASSUME NEW p \in Pipelines, g_EngineInterface(p) PROVE TypeOK'
  <2>1. CASE Attach(p)
    <3>1. attached' \in [Pipelines -> BOOLEAN] /\ \A q \in Pipelines : attached[q] => attached'[q]
      BY <2>1 DEF Attach, TypeOK
    <3> QED
      BY <2>1, <3>1, QuietTyped DEF Attach, Answers, TypeOK
  <2>2. CASE \/ GetContext(p) \/ NotifyOther(p) \/ GetEnrollmentStatus(p)
             \/ QueryExtendedEnrollmentStatus(p) \/ SetEnrollmentParameters(p)
             \/ CheckForDuplicate(p)
    <3>1. answer' \in Answers /\ UNCHANGED <<context, storage, ghosts>>
      BY <2>2 DEF GetContext, NotifyOther, GetEnrollmentStatus, QueryExtendedEnrollmentStatus,
         SetEnrollmentParameters, CheckForDuplicate, EnrollmentStatus, Answers
    <3> QED
      BY <3>1, QuietTyped DEF context, TypeOK
  <2>3. CASE ClearContext(p) \/ DiscardEnrollment(p)
    <3>1. UNCHANGED <<attached, storage, ghosts>> /\ answer' \in Answers
      BY <2>3 DEF ClearContext, DiscardEnrollment, Answers
    <3>2. /\ sample' \in [Pipelines -> Samples] /\ enroll' \in [Pipelines -> Enrollments]
          /\ \A q \in Pipelines : Linked(q)'
      BY <2>3, <3>1, ForgetTyped DEF ClearContext, DiscardEnrollment, ForgetAll
    <3> QED
      BY <3>1, <3>2 DEF TypeOK, ghosts
  <2>4. CASE NotifySleep(p)
    <3>1. UNCHANGED <<attached, storage, issued, granted, opened>> /\ answer' \in Answers
      BY <2>4 DEF NotifySleep, Answers
    <3>2. /\ sample' \in [Pipelines -> Samples] /\ enroll' \in [Pipelines -> Enrollments]
          /\ \A q \in Pipelines : Linked(q)'
      BY <2>4, <3>1, ForgetTyped DEF NotifySleep, ForgetAll
    <3>3. slept' \in [Pipelines -> 0..MaxSamples]
      BY <2>4 DEF NotifySleep, TypeOK
    <3> QED
      BY <3>1, <3>2, <3>3 DEF TypeOK
  <2> QED
    BY <1>4, <2>1, <2>2, <2>3, <2>4, DetachTyped, AcceptTyped, VerifyTyped, IdentifyTyped,
       CreateTyped, UpdateTyped, CommitTyped DEF g_EngineInterface, NotifyPowerChange
<1> QED
  BY <1>1, <1>2, <1>3, <1>4 DEF Next

\* Contexts, records and grants are well formed in every reachable state, and
\* neither a sample nor an enrollment is kept without a context.
THEOREM TypeCorrect == Spec => []TypeOK
BY InitTyped, NextTyped, PTL DEF Spec

(***************************************************************************)
(* Refinement: what a step does to the state of T2Consent.                 *)
(***************************************************************************)
LEMMA HeldOf ==
  /\ sample' = sample => Held' = Held
  /\ enroll' = enroll => Pledged' = Pledged
  /\ granted' = granted => GrantTickets' = GrantTickets
BY DEF Held, Pledged, GrantTickets

LEMMA ClearedHeld ==
  ASSUME TypeOK, NEW p \in Pipelines, ClearSample(p)
  PROVE  Held' = [Held EXCEPT ![p] = {}]
<1>1. \A q \in Pipelines : sample'[q] = IF q = p THEN NoSample ELSE sample[q]
  BY ClearedTypes
<1>2. ~NoSample.valid
  BY DEF NoSample
<1> QED
  BY <1>1, <1>2 DEF Held

LEMMA ResetPledged ==
  ASSUME TypeOK, NEW p \in Pipelines, ResetEnrollment(p)
  PROVE  Pledged' = [Pledged EXCEPT ![p] = {}]
<1>1. \A q \in Pipelines : enroll'[q] = IF q = p THEN NoEnrollment ELSE enroll[q]
  BY ResetTypes
<1>2. ~NoEnrollment.ready
  BY DEF NoEnrollment, Enrollment
<1> QED
  BY <1>1, <1>2 DEF Pledged

LEMMA GrantAdded ==
  ASSUME NEW p \in Pipelines, NEW what, NEW i, NEW u, Grants(Grant(p, i, what, u))
  PROVE  GrantTickets' = GrantTickets \cup
           {[ticket |-> Ticket(i, what # "record", u),
             for |-> IF what = "record" THEN "record" ELSE "match"]}
<1>1. Ticketed(Grant(p, i, what, u)) =
        [ticket |-> Ticket(i, what # "record", u),
         for |-> IF what = "record" THEN "record" ELSE "match"]
  BY DEF Ticketed, Grant
<1> QED
  BY <1>1 DEF GrantTickets, Grants

\* Forgetting is all that a step does which clears, resets and grants nothing.
LEMMA ForgetImplements ==
  ASSUME TypeOK, NEW p \in Pipelines,
         ClearSample(p), ResetEnrollment(p) \/ enroll' = enroll,
         granted' = granted, issued' = issued
  PROVE  Consent!Forget(p)
BY ClearedHeld, ResetPledged, HeldOf DEF Consent!Forget

LEMMA VerifyImplements ==
  ASSUME TypeOK, NEW p \in Pipelines, VerifyFeatureSet(p) \/ IdentifyFeatureSet(p)
  PROVE  Consent!Next
<1>1. ClearSample(p) /\ enroll' = enroll /\ issued' = issued
  BY DEF VerifyFeatureSet, IdentifyFeatureSet, Consume
<1>2. CASE granted' = granted
  BY <1>1, <1>2, ForgetImplements DEF Consent!Next
<1>3. CASE granted' # granted
  <2>1. PICK what \in {"match", "identity"} :
          /\ sample[p].valid /\ sample[p].kind = "verify"
          /\ Grants(Grant(p, sample[p].id, what, sample[p].user))
    BY <1>3 DEF VerifyFeatureSet, IdentifyFeatureSet, SampleIsTouchMatch
  <2> DEFINE t == Ticket(sample[p].id, TRUE, sample[p].user)
  <2>2. Held[p] = {t} /\ t.touch
    BY <2>1 DEF Held, Ticket
  <2>3. what # "record"
    BY <2>1
  <2>4. GrantTickets' = GrantTickets \cup {[ticket |-> t, for |-> "match"]}
    BY <2>1, <2>3, GrantAdded
  <2>5. Held' = [Held EXCEPT ![p] = {}] /\ Pledged' = Pledged
    BY <1>1, ClearedHeld, HeldOf
  <2> HIDE DEF t
  <2>6. Consent!Match(p)
    BY <1>1, <2>2, <2>4, <2>5 DEF Consent!Match
  <2> QED
    BY <2>6 DEF Consent!Next
<1> QED
  BY <1>2, <1>3

LEMMA AcceptImplements ==
  ASSUME TypeOK, NEW p \in Pipelines, AcceptSampleData(p)
  PROVE  Consent!Next
<1>0. enroll' = enroll /\ granted' = granted
  BY DEF AcceptSampleData
<1>1. CASE RefuseSample(p)
  BY <1>0, <1>1, ForgetImplements DEF RefuseSample, Consent!Next
<1>2. CASE ~RefuseSample(p)
  <2>1. PICK b \in Buffers : TakeSample(p, b)
    BY <1>2 DEF AcceptSampleData
  <2>2. PICK purpose \in Purposes :
          sample' = [sample EXCEPT ![p] = [valid |-> TRUE, purpose |-> purpose, kind |-> b.kind,
                                           user |-> b.user, id |-> issued + 1]]
    BY <2>1 DEF TakeSample
  <2> DEFINE t == Ticket(issued + 1, b.kind = "verify", b.user)
  <2>3. Held' = [Held EXCEPT ![p] = {t}]
    BY <2>2 DEF Held, TypeOK
  <2>4. (b.kind = "verify") \in BOOLEAN /\ b.user \in Users /\ issued' = issued + 1
    BY <2>1 DEF Buffers, TakeSample
  <2>5. Pledged' = Pledged /\ GrantTickets' = GrantTickets
    BY <1>0, HeldOf
  <2>6. Consent!Issue(p)
    BY <2>3, <2>4, <2>5 DEF Consent!Issue, Ticket
  <2> QED
    BY <2>6 DEF Consent!Next
<1> QED
  BY <1>1, <1>2

LEMMA UpdateImplements ==
  ASSUME TypeOK, NEW p \in Pipelines, UpdateEnrollment(p)
  PROVE  Consent!Next \/ UNCHANGED Consent!vars
<1>0. granted' = granted /\ issued' = issued
  BY DEF UpdateEnrollment, ghosts
<1>1. CASE enroll' = enroll /\ sample' = sample
  BY <1>0, <1>1, HeldOf DEF Consent!vars
<1>2. CASE enroll' = enroll /\ ClearSample(p)
  BY <1>0, <1>2, ForgetImplements DEF Consent!Next
<1>3. CASE /\ SampleIsEnrollConfirm(sample[p]) /\ ClearSample(p)
           /\ enroll' = [enroll EXCEPT ![p] =
                           Enrollment(TRUE, TRUE, sample[p].user, sample[p].id)]
  <2> DEFINE t == Ticket(sample[p].id, FALSE, sample[p].user)
  <2>1. sample[p].valid /\ sample[p].kind # "verify"
    BY <1>3 DEF SampleIsEnrollConfirm
  <2>2. Held[p] = {t} /\ ~t.touch
    BY <2>1 DEF Held, Ticket
  <2>3. Held' = [Held EXCEPT ![p] = {}] /\ GrantTickets' = GrantTickets
    BY <1>0, <1>3, ClearedHeld, HeldOf
  <2>4. Pledged' = [Pledged EXCEPT ![p] = {t}]
    BY <1>3 DEF Pledged, Enrollment, TypeOK
  <2> HIDE DEF t
  <2>5. Consent!Pledge(p)
    BY <1>0, <2>2, <2>3, <2>4 DEF Consent!Pledge
  <2> QED
    BY <2>5 DEF Consent!Next
<1> QED
  BY <1>1, <1>2, <1>3 DEF UpdateEnrollment, Consume

LEMMA CommitImplements ==
  ASSUME TypeOK, NEW p \in Pipelines, CommitEnrollment(p)
  PROVE  Consent!Next \/ UNCHANGED Consent!vars
<1>0. sample' = sample /\ issued' = issued
  BY DEF CommitEnrollment
<1>1. CASE enroll' = enroll /\ granted' = granted
  BY <1>0, <1>1, HeldOf DEF Consent!vars
<1>2. CASE /\ Ready(p) /\ ResetEnrollment(p)
           /\ Grants(Grant(p, enroll[p].id, "record", enroll[p].user))
  <2> DEFINE t == Ticket(enroll[p].id, FALSE, enroll[p].user)
  <2>1. Pledged[p] = {t}
    BY <1>2 DEF Pledged, Ready
  <2>2. GrantTickets' = GrantTickets \cup {[ticket |-> t, for |-> "record"]}
    BY <1>2, GrantAdded
  <2>3. Held' = Held /\ Pledged' = [Pledged EXCEPT ![p] = {}]
    BY <1>0, <1>2, ResetPledged, HeldOf
  <2> HIDE DEF t
  <2>4. Consent!Record(p)
    BY <1>0, <2>1, <2>2, <2>3 DEF Consent!Record
  <2> QED
    BY <2>4 DEF Consent!Next
<1> QED
  BY <1>1, <1>2 DEF CommitEnrollment

LEMMA StepImplements == TypeOK /\ [Next]_vars => [Consent!Next]_(Consent!vars)
<1> SUFFICES ASSUME TypeOK, [Next]_vars PROVE Consent!Next \/ UNCHANGED Consent!vars
  OBVIOUS
<1>1. CASE UNCHANGED <<sample, enroll, ghosts>>
  BY <1>1, HeldOf DEF Consent!vars, ghosts
<1>2. CASE UNCHANGED vars \/ Stateless \/ StorageChanges
  <2>1. UNCHANGED <<sample, enroll, ghosts>>
    BY <1>2 DEF vars, context, StorageChanges, Stateless, Answer, QueryPreferredFormat,
       ExportEngineData, GetEnrollmentHash, ControlUnit, PipelineInit, QueryExtendedInfo,
       RefreshCache, QueryCalibrationData
  <2> QED
    BY <1>1, <2>1
<1>3. ASSUME NEW p \in Pipelines, g_EngineInterface(p)
      PROVE  Consent!Next \/ UNCHANGED Consent!vars
  <2>1. CASE \/ Attach(p) \/ GetContext(p) \/ NotifyOther(p) \/ GetEnrollmentStatus(p)
             \/ QueryExtendedEnrollmentStatus(p) \/ SetEnrollmentParameters(p)
             \/ CheckForDuplicate(p)
    <3>1. UNCHANGED <<sample, enroll, ghosts>>
      BY <2>1 DEF Attach, GetContext, NotifyOther, GetEnrollmentStatus, SetEnrollmentParameters,
         QueryExtendedEnrollmentStatus, CheckForDuplicate, context
    <3> QED
      BY <1>1, <3>1
  <2>2. CASE \/ Detach(p) \/ ClearContext(p) \/ NotifySleep(p) \/ DiscardEnrollment(p)
    <3>1. /\ ClearSample(p) /\ (ResetEnrollment(p) \/ enroll' = enroll)
          /\ granted' = granted /\ issued' = issued
      BY <2>2 DEF Detach, ClearContext, NotifySleep, DiscardEnrollment, ForgetAll, ghosts
    <3> QED
      BY <3>1, ForgetImplements DEF Consent!Next
  <2>3. CASE CreateEnrollment(p)
    <3>1. /\ ClearSample(p) /\ granted' = granted /\ issued' = issued
          /\ enroll' = [enroll EXCEPT ![p] = Enrollment(TRUE, FALSE, NoUser, 0)]
      BY <2>3 DEF CreateEnrollment, Opened
    <3>2. Pledged' = [Pledged EXCEPT ![p] = {}]
      BY <3>1 DEF Pledged, Enrollment, TypeOK
    <3>3. Consent!Forget(p)
      BY <3>1, <3>2, ClearedHeld, HeldOf DEF Consent!Forget
    <3> QED
      BY <3>3 DEF Consent!Next
  <2> QED
    BY <1>3, <2>1, <2>2, <2>3, AcceptImplements, VerifyImplements, UpdateImplements,
       CommitImplements DEF g_EngineInterface, NotifyPowerChange
<1> QED
  BY <1>2, <1>3 DEF Next

LEMMA InitImplements == Init => Consent!Init
BY DEF Init, Consent!Init, Held, Pledged, GrantTickets, NoSample, NoEnrollment, Enrollment

\* Every behaviour of the engine adapter is one of T2Consent: what it grants, it
\* grants on a ticket of the right kind that it gives up in the same step.
THEOREM EngineKeepsConsent == Spec => ImplementsConsent
BY InitImplements, StepImplements, TypeCorrect, PTL DEF Spec, ImplementsConsent, Consent!Spec

\* So on one sample at most one thing is granted, of the kind the sample is for.
THEOREM OneGrantPerSample == Spec => []Consent!OneGrantEach
<1>1. Consent!Spec => []Consent!OneGrantEach
  BY Promised!GrantsAreExclusive DEF Promised!Spec, Promised!Init, Promised!Next, Promised!vars,
     Promised!Issue, Promised!Forget, Promised!Match, Promised!Pledge, Promised!Record,
     Promised!OneGrantEach, Consent!Spec, Consent!Init, Consent!Next, Consent!vars,
     Consent!Issue, Consent!Forget, Consent!Match, Consent!Pledge, Consent!Record,
     Consent!OneGrantEach
<1> QED
  BY <1>1, EngineKeepsConsent, PTL DEF ImplementsConsent

(***************************************************************************)
(* Freshness: what a pipeline could still act on came after its latest      *)
(* power event and its latest CreateEnrollment.                             *)
(***************************************************************************)
Recent(p) ==
  /\ sample[p].valid => sample[p].id > slept[p] /\ sample[p].id > opened[p]
  /\ enroll[p].ready => enroll[p].id > slept[p] /\ enroll[p].id > opened[p]
  /\ slept[p] <= issued /\ opened[p] <= issued

AllRecent == \A p \in Pipelines : Recent(p)

LEMMA InitRecent == Init => AllRecent
BY DEF Init, AllRecent, Recent, NoSample, NoEnrollment, Enrollment

LEMMA ForgetRecent ==
  ASSUME TypeOK, AllRecent, NEW p \in Pipelines,
         ClearSample(p) \/ sample' = sample, ResetEnrollment(p) \/ enroll' = enroll,
         UNCHANGED <<issued, slept, opened>>
  PROVE  AllRecent'
<1>1. \A q \in Pipelines : sample'[q] = sample[q] \/ sample'[q] = NoSample
  BY ClearedTypes
<1>2. \A q \in Pipelines : enroll'[q] = enroll[q] \/ enroll'[q] = NoEnrollment
  BY ResetTypes
<1>3. ~NoSample.valid /\ ~NoEnrollment.ready
  BY DEF NoSample, NoEnrollment, Enrollment
<1> QED
  BY <1>1, <1>2, <1>3 DEF AllRecent, Recent

LEMMA SleepRecent == ASSUME TypeOK, AllRecent, NEW p \in Pipelines, NotifySleep(p) PROVE AllRecent'
<1>1. \A q \in Pipelines : sample'[q] = IF q = p THEN NoSample ELSE sample[q]
  BY ClearedTypes DEF NotifySleep, ForgetAll
<1>2. \A q \in Pipelines : enroll'[q] = IF q = p THEN NoEnrollment ELSE enroll[q]
  BY ResetTypes DEF NotifySleep, ForgetAll
<1>3. /\ UNCHANGED <<issued, opened>> /\ issued \in Nat
      /\ \A q \in Pipelines : slept'[q] = IF q = p THEN issued ELSE slept[q]
  BY BoundsAssumption DEF NotifySleep, TypeOK
<1>4. ~NoSample.valid /\ ~NoEnrollment.ready
  BY DEF NoSample, NoEnrollment, Enrollment
<1> QED
  BY <1>1, <1>2, <1>3, <1>4 DEF AllRecent, Recent

LEMMA CreateRecent ==
  ASSUME TypeOK, AllRecent, NEW p \in Pipelines, CreateEnrollment(p) PROVE AllRecent'
<1>1. \A q \in Pipelines : sample'[q] = IF q = p THEN NoSample ELSE sample[q]
  BY ClearedTypes DEF CreateEnrollment
<1> DEFINE e == Enrollment(TRUE, FALSE, NoUser, 0)
<1>2. ~e.ready /\ ~NoSample.valid
  BY DEF Enrollment, NoSample
<1>3. \A q \in Pipelines : enroll'[q] = IF q = p THEN e ELSE enroll[q]
  BY DEF CreateEnrollment, Opened, TypeOK
<1>4. /\ UNCHANGED <<issued, slept>> /\ issued \in Nat
      /\ \A q \in Pipelines : opened'[q] = IF q = p THEN issued ELSE opened[q]
  BY BoundsAssumption DEF CreateEnrollment, TypeOK
<1> HIDE DEF e
<1> QED
  BY <1>1, <1>2, <1>3, <1>4 DEF AllRecent, Recent

LEMMA AcceptRecent ==
  ASSUME TypeOK, AllRecent, NEW p \in Pipelines, AcceptSampleData(p) PROVE AllRecent'
<1>0. UNCHANGED <<enroll, slept, opened>>
  BY DEF AcceptSampleData
<1>1. CASE RefuseSample(p)
  BY <1>0, <1>1, ForgetRecent DEF RefuseSample
<1>2. CASE ~RefuseSample(p)
  <2>1. PICK b \in Buffers : TakeSample(p, b)
    BY <1>2 DEF AcceptSampleData
  <2>2. /\ issued' = issued + 1 /\ sample'[p].id = issued + 1
        /\ \A q \in Pipelines : q # p => sample'[q] = sample[q]
    BY <2>1 DEF TakeSample, TypeOK
  <2>3. issued \in Nat /\ \A q \in Pipelines : slept[q] \in Nat /\ opened[q] \in Nat
    BY BoundsAssumption DEF TypeOK
  <2> QED
    BY <1>0, <2>2, <2>3 DEF AllRecent, Recent
<1> QED
  BY <1>1, <1>2

LEMMA UpdateRecent ==
  ASSUME TypeOK, AllRecent, NEW p \in Pipelines, UpdateEnrollment(p) PROVE AllRecent'
<1>0. UNCHANGED <<issued, slept, opened>>
  BY DEF UpdateEnrollment, ghosts
<1>1. CASE enroll' = enroll
  BY <1>0, <1>1, ForgetRecent DEF UpdateEnrollment, Consume
<1>2. CASE enroll' # enroll
  <2> DEFINE e == Enrollment(TRUE, TRUE, sample[p].user, sample[p].id)
  <2>1. ClearSample(p) /\ sample[p].valid /\ enroll' = [enroll EXCEPT ![p] = e]
    BY <1>2 DEF UpdateEnrollment, Consume, SampleIsEnrollConfirm
  <2>2. e.id = sample[p].id /\ ~NoSample.valid
    BY DEF Enrollment, NoSample
  <2> HIDE DEF e
  <2>3. \A q \in Pipelines : enroll'[q] = IF q = p THEN e ELSE enroll[q]
    BY <2>1 DEF TypeOK
  <2>4. \A q \in Pipelines : sample'[q] = IF q = p THEN NoSample ELSE sample[q]
    BY <2>1, ClearedTypes
  <2> QED
    BY <1>0, <2>1, <2>2, <2>3, <2>4 DEF AllRecent, Recent
<1> QED
  BY <1>1, <1>2

LEMMA NextRecent == TypeOK /\ AllRecent /\ [Next]_vars => AllRecent'
<1> SUFFICES ASSUME TypeOK, AllRecent, [Next]_vars PROVE AllRecent'
  OBVIOUS
<1>1. CASE UNCHANGED <<sample, enroll, issued, slept, opened>>
  BY <1>1 DEF AllRecent, Recent
<1>2. CASE UNCHANGED vars \/ Stateless \/ StorageChanges
  <2>1. UNCHANGED <<sample, enroll, issued, slept, opened>>
    BY <1>2 DEF vars, context, ghosts, StorageChanges, Stateless, Answer, QueryPreferredFormat,
       ExportEngineData, GetEnrollmentHash, ControlUnit, PipelineInit, QueryExtendedInfo,
       RefreshCache, QueryCalibrationData
  <2> QED
    BY <1>1, <2>1
<1>3. ASSUME NEW p \in Pipelines, g_EngineInterface(p) PROVE AllRecent'
  <2>1. CASE \/ Attach(p) \/ GetContext(p) \/ NotifyOther(p) \/ GetEnrollmentStatus(p)
             \/ QueryExtendedEnrollmentStatus(p) \/ SetEnrollmentParameters(p)
             \/ CheckForDuplicate(p)
    <3>1. UNCHANGED <<sample, enroll, issued, slept, opened>>
      BY <2>1 DEF Attach, GetContext, NotifyOther, GetEnrollmentStatus, SetEnrollmentParameters,
         QueryExtendedEnrollmentStatus, CheckForDuplicate, context, ghosts
    <3> QED
      BY <1>1, <3>1
  <2>2. CASE \/ Detach(p) \/ ClearContext(p) \/ DiscardEnrollment(p)
             \/ VerifyFeatureSet(p) \/ IdentifyFeatureSet(p) \/ CommitEnrollment(p)
    <3>1. /\ ClearSample(p) \/ sample' = sample
          /\ ResetEnrollment(p) \/ enroll' = enroll
          /\ UNCHANGED <<issued, slept, opened>>
      BY <2>2 DEF Detach, ClearContext, DiscardEnrollment, ForgetAll, ghosts, VerifyFeatureSet,
         IdentifyFeatureSet, CommitEnrollment, Consume
    <3> QED
      BY <3>1, ForgetRecent
  <2> QED
    BY <1>3, <2>1, <2>2, SleepRecent, CreateRecent, AcceptRecent, UpdateRecent
       DEF g_EngineInterface, NotifyPowerChange
<1> QED
  BY <1>2, <1>3 DEF Next

\* What is granted anew is granted on the sample the pipeline holds or on the
\* one its enrollment rests on.
LEMMA GrantedOn ==
  ASSUME TypeOK, [Next]_vars, NEW p \in Pipelines, NEW g \in Granted(p)
  PROVE  \/ g.what # "record" /\ sample[p].valid /\ g.id = sample[p].id
         \/ g.what = "record" /\ enroll[p].ready /\ g.id = enroll[p].id
<1>1. g \in granted' /\ g \notin granted /\ g.on = p
  BY DEF Granted
<1>2. PICK q \in Pipelines : VerifyFeatureSet(q) \/ IdentifyFeatureSet(q) \/ CommitEnrollment(q)
  <2>1. CASE UNCHANGED granted
    BY <1>1, <2>1
  <2>2. UNCHANGED vars \/ Stateless \/ StorageChanges => UNCHANGED granted
    BY DEF vars, context, ghosts, StorageChanges, Stateless, Answer, QueryPreferredFormat,
       ExportEngineData, GetEnrollmentHash, ControlUnit, PipelineInit, QueryExtendedInfo,
       RefreshCache, QueryCalibrationData
  <2>3. ASSUME NEW q \in Pipelines, g_EngineInterface(q)
        PROVE  \/ UNCHANGED granted
               \/ VerifyFeatureSet(q) \/ IdentifyFeatureSet(q) \/ CommitEnrollment(q)
    BY <2>3 DEF g_EngineInterface, NotifyPowerChange, NotifySleep, NotifyOther, Attach, Detach,
       GetContext, ClearContext, AcceptSampleData, CreateEnrollment, UpdateEnrollment,
       GetEnrollmentStatus, QueryExtendedEnrollmentStatus, SetEnrollmentParameters,
       CheckForDuplicate, DiscardEnrollment, ghosts
  <2> QED
    BY <2>1, <2>2, <2>3 DEF Next
<1>3. CASE VerifyFeatureSet(q) \/ IdentifyFeatureSet(q)
  <2>1. PICK what \in {"match", "identity"} :
          /\ sample[q].valid
          /\ granted' = granted \cup {Grant(q, sample[q].id, what, sample[q].user)}
    BY <1>1, <1>3 DEF VerifyFeatureSet, IdentifyFeatureSet, SampleIsTouchMatch, Grants
  <2>2. g = Grant(q, sample[q].id, what, sample[q].user)
    BY <1>1, <2>1
  <2> QED
    BY <1>1, <2>1, <2>2 DEF Grant
<1>4. CASE CommitEnrollment(q)
  <2>1. /\ enroll[q].ready
        /\ granted' = granted \cup {Grant(q, enroll[q].id, "record", enroll[q].user)}
    BY <1>1, <1>4 DEF CommitEnrollment, Ready, Grants
  <2>2. g = Grant(q, enroll[q].id, "record", enroll[q].user)
    BY <1>1, <2>1
  <2> QED
    BY <1>1, <2>1, <2>2 DEF Grant
<1> QED
  BY <1>2, <1>3, <1>4

\* A sample accepted before the machine slept authorises nothing after it.
THEOREM SleepForgets == Spec => NothingSurvivesSleep
<1>1. TypeOK /\ AllRecent /\ [Next]_vars
        => [\A p \in Pipelines : \A g \in Granted(p) : g.id > slept[p]]_vars
  BY GrantedOn DEF AllRecent, Recent
<1> QED
  BY InitRecent, NextRecent, TypeCorrect, <1>1, PTL DEF Spec, NothingSurvivesSleep

\* A record is committed on a confirmation of its own enrollment.
THEOREM EnrollmentsAreFresh == Spec => EnrollmentIsFresh
<1>1. TypeOK /\ AllRecent /\ [Next]_vars
        => [\A p \in Pipelines : \A g \in Granted(p) :
              g.what = "record" => g.id > opened[p]]_vars
  BY GrantedOn DEF AllRecent, Recent
<1> QED
  BY InitRecent, NextRecent, TypeCorrect, <1>1, PTL DEF Spec, EnrollmentIsFresh

=============================================================================
