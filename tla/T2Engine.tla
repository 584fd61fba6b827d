------------------------------ MODULE T2Engine ------------------------------
(***************************************************************************)
(* The engine adapter of the Windows Biometric Framework                    *)
(* (EngineAdapter/T2TouchIdEngineAdapter.cpp), the DLL that turns the        *)
(* payload of a capture into the answer to a sign-in or into an enrolled     *)
(* record.  Its callbacks run on a pipeline of wbiosrvc, one at a time; the  *)
(* order is the framework's, so every order of calls is explored.  What it   *)
(* keeps per pipeline is the context; what it keeps for good are records in  *)
(* the framework's storage, whose calls may fail and whose content others    *)
(* may change between two callbacks.                                        *)
(*                                                                         *)
(* A valid sample always has the outcome Match (AcceptSampleData refuses     *)
(* any other), so SampleOutcome is not kept apart from SampleValid.  NULL    *)
(* arguments, which the framework does not pass, are left out.              *)
(***************************************************************************)
EXTENDS Naturals, FiniteSets

CONSTANTS
  Pipelines,     \* pipelines of the biometric service
  Users,         \* macOS user ids
  NoUser,        \* no user: a cleared sample, a template that is not ours
  Identities,    \* Windows accounts
  Fingers,       \* WINBIO_BIOMETRIC_SUBTYPE
  MaxSamples,    \* bound on the samples accepted
  MaxRecords,    \* bound on the records in storage
  StorageFails   \* may a storage call fail?

ASSUME UsersAssumption == NoUser \notin Users
ASSUME BoundsAssumption == MaxSamples \in Nat /\ MaxRecords \in Nat
ASSUME FailsAssumption == StorageFails \in BOOLEAN

VARIABLES
  attached,  \* Pipeline->EngineContext is set
  sample,    \* SampleValid, SamplePurpose, SampleKind, SampleMacosUserId; id is a ghost
  enroll,    \* EnrollActive, EnrollReady, EnrollMacosUserId; id is a ghost
  storage,   \* records of the framework's storage
  answer,    \* what the last callback returned
  \* ghosts: samples accepted so far (a sample's id is its number), what was
  \* granted on each, the last sample before the pipeline's latest power event
  \* and before its latest CreateEnrollment
  issued, granted, slept, opened

context == <<attached, sample, enroll>>
ghosts  == <<issued, granted, slept, opened>>
vars    == <<context, storage, answer, ghosts>>

\* A purpose is a set of bits, of which two classes matter: VERIFY or IDENTIFY
\* (kMatchPurposes) and the three of enrollment (kEnrollPurposes).
Purposes == SUBSET {"match", "enroll"}
Kinds    == {"verify", "confirm"}
Answers  == {"S_OK", "E_POINTER", "E_UNEXPECTED", "E_OUTOFMEMORY", "E_NOTIMPL", "E_INVALIDARG",
             "BAD_CAPTURE", "INVALID_OPERATION", "UNKNOWN_ID", "MORE_DATA", "DUPLICATE", "FAILED"}

\* The stored template (T2EnrolledTemplateV1) and whom it was enrolled for; one
\* of another size or version has no user (ReadTemplate).
Template(i, f, u) == [identity |-> i, finger |-> f, user |-> u]
Templates == {Template(i, f, u) : i \in Identities, f \in Fingers, u \in Users \cup {NoUser}}

NoSample     == [valid |-> FALSE, purpose |-> {}, kind |-> "verify", user |-> NoUser, id |-> 0]

Enrollment(active, ready, u, id) == [active |-> active, ready |-> ready, user |-> u, id |-> id]
NoEnrollment == Enrollment(FALSE, FALSE, NoUser, 0)

Init ==
  /\ attached = [p \in Pipelines |-> FALSE]
  /\ sample = [p \in Pipelines |-> NoSample]
  /\ enroll = [p \in Pipelines |-> NoEnrollment]
  /\ storage = {} /\ answer = "S_OK"
  /\ issued = 0 /\ granted = {} /\ slept = [p \in Pipelines |-> 0]
  /\ opened = [p \in Pipelines |-> 0]

ClearSample(p)     == sample' = [sample EXCEPT ![p] = NoSample]

ResetEnrollment(p) == enroll' = [enroll EXCEPT ![p] = NoEnrollment]

SampleIsTouchMatch(s) ==
  s.valid /\ s.kind = "verify" /\ "match" \in s.purpose /\ "enroll" \notin s.purpose

SampleIsEnrollConfirm(s) == s.valid /\ s.kind = "confirm" /\ "enroll" \in s.purpose

\* What has been granted: by which pipeline, on which sample, and to whom.
Grant(p, id, what, u) == [on |-> p, id |-> id, what |-> what, user |-> u]
Grants(g) == granted' = granted \cup {g}

(***************************************************************************)
(* The storage.                                                            *)
(***************************************************************************)
\* OpenRecordSet: the record sets a query may yield; none stands for an error
\* of the query or of the count, which is handled like an empty set.
RecordSets(s) == {s} \cup (IF StorageFails THEN {{}} ELSE {})

\* ForEachRecord: the records its callback is shown.  An error ends the walk.
Walks(s) == IF StorageFails THEN SUBSET s ELSE {s}

(***************************************************************************)
(* Lifecycle of the context.                                               *)
(***************************************************************************)
Attach(p) ==
  /\ IF attached[p] THEN answer' = "E_UNEXPECTED" /\ UNCHANGED attached
     ELSE \/ answer' = "S_OK" /\ attached' = [attached EXCEPT ![p] = TRUE]
          \/ answer' = "E_OUTOFMEMORY" /\ UNCHANGED attached
  /\ UNCHANGED <<sample, enroll, storage, ghosts>>

Detach(p) ==
  /\ answer' = IF attached[p] THEN "S_OK" ELSE "E_UNEXPECTED"
  /\ attached' = [attached EXCEPT ![p] = FALSE]
  /\ ClearSample(p) /\ ResetEnrollment(p)
  /\ UNCHANGED <<storage, ghosts>>

\* GetContext: any callback that needs the context and finds none.
GetContext(p) ==
  /\ ~attached[p] /\ answer' = "E_POINTER"
  /\ UNCHANGED <<context, storage, ghosts>>

\* WBF may clear the context in the middle of an enrollment, which is kept.
ClearContext(p) ==
  /\ attached[p] /\ answer' = "S_OK"
  /\ ClearSample(p)
  /\ UNCHANGED <<attached, enroll, storage, ghosts>>

\* Mutant: only the enrollment is forgotten.
KeepSample(p) == ResetEnrollment(p) /\ UNCHANGED sample

ForgetAll(p) == ClearSample(p) /\ ResetEnrollment(p)

\* PBT_APMSUSPEND and PBT_APMRESUMEAUTOMATIC.
NotifySleep(p) ==
  /\ attached[p] /\ answer' = "S_OK"
  /\ ForgetAll(p)
  /\ slept' = [slept EXCEPT ![p] = issued]
  /\ UNCHANGED <<attached, storage, issued, granted, opened>>

\* A change of the power source or any other event changes nothing.
NotifyOther(p) ==
  /\ attached[p] /\ answer' \in {"S_OK", "FAILED", "E_INVALIDARG"}
  /\ UNCHANGED <<context, storage, ghosts>>

NotifyPowerChange(p) == NotifySleep(p) \/ NotifyOther(p)

(***************************************************************************)
(* Samples.                                                                *)
(***************************************************************************)
\* What the framework hands over: a BIR laid out the way the driver does it or
\* some other way, and the payload of its vendor block.
Buffers == [ours : BOOLEAN, version : {1, 2}, kind : Kinds \cup {"unknown"},
            match : BOOLEAN, user : Users]

ParseVendorBir(b)           == b.ours
DeserializeVendorPayload(b) == b.version = 1 /\ b.kind \in Kinds

\* The purpose kept is the caller's; the one in the header of the BIR is ignored.
TakeSample(p, b) == \E purpose \in Purposes :
  /\ issued < MaxSamples
  /\ sample' = [sample EXCEPT ![p] = [valid |-> TRUE, purpose |-> purpose, kind |-> b.kind,
                                      user |-> b.user, id |-> issued + 1]]
  /\ issued' = issued + 1 /\ answer' = "S_OK"

\* The sample before is gone even if this one is refused.
RefuseSample(p) == ClearSample(p) /\ answer' = "BAD_CAPTURE" /\ UNCHANGED issued

AcceptSampleData(p) == \E b \in Buffers :
  /\ attached[p]
  /\ IF ParseVendorBir(b) /\ DeserializeVendorPayload(b) /\ b.match
     THEN TakeSample(p, b) ELSE RefuseSample(p)
  /\ UNCHANGED <<attached, enroll, storage, granted, slept, opened>>

\* Mutant: the sample outlives the operation that used it.
KeepUsed(p) == UNCHANGED sample

Consume(p) == ClearSample(p)

VerifyFeatureSet(p) ==
  /\ attached[p] /\ Consume(p)
  /\ IF ~SampleIsTouchMatch(sample[p]) THEN answer' = "INVALID_OPERATION" /\ UNCHANGED granted
     ELSE \E i \in Identities, f \in Fingers :
          \E s \in RecordSets({r \in storage : r.identity = i /\ r.finger = f}) :
            IF s = {} THEN answer' = "UNKNOWN_ID" /\ UNCHANGED granted
            ELSE \E seen \in Walks(s) :
                   /\ answer' = "S_OK"
                   /\ IF \E r \in seen : r.user = sample[p].user
                      THEN Grants(Grant(p, sample[p].id, "match", sample[p].user))
                      ELSE UNCHANGED granted
  /\ UNCHANGED <<attached, enroll, storage, issued, slept, opened>>

IdentifyFeatureSet(p) ==
  /\ attached[p] /\ Consume(p)
  /\ IF ~SampleIsTouchMatch(sample[p]) THEN answer' = "INVALID_OPERATION" /\ UNCHANGED granted
     ELSE \E s \in RecordSets(storage) : \E seen \in Walks(s) :
            IF Cardinality({r \in seen : r.user = sample[p].user}) # 1
            THEN answer' = "UNKNOWN_ID" /\ UNCHANGED granted
            ELSE /\ answer' = "S_OK"
                 /\ Grants(Grant(p, sample[p].id, "identity", sample[p].user))
  /\ UNCHANGED <<attached, enroll, storage, issued, slept, opened>>

(***************************************************************************)
(* Enrollment.                                                             *)
(***************************************************************************)
\* Mutant: an enrollment that was ready stays so.
Reopened(e) == [e EXCEPT !.active = TRUE]

Opened(e) == Enrollment(TRUE, FALSE, NoUser, 0)

CreateEnrollment(p) ==
  /\ attached[p] /\ answer' = "S_OK"
  /\ enroll' = [enroll EXCEPT ![p] = Opened(@)] /\ ClearSample(p)
  /\ opened' = [opened EXCEPT ![p] = issued]
  /\ UNCHANGED <<attached, storage, issued, granted, slept>>

UpdateEnrollment(p) ==
  /\ attached[p]
  /\ IF ~enroll[p].active THEN answer' = "INVALID_OPERATION" /\ UNCHANGED <<sample, enroll>>
     ELSE /\ Consume(p)
          /\ IF SampleIsEnrollConfirm(sample[p])
             THEN /\ answer' = "S_OK"
                  /\ enroll' = [enroll EXCEPT ![p] =
                                Enrollment(TRUE, TRUE, sample[p].user, sample[p].id)]
             ELSE answer' = "BAD_CAPTURE" /\ UNCHANGED enroll
  /\ UNCHANGED <<attached, storage, ghosts>>

EnrollmentStatus(p) ==
  CASE ~enroll[p].active -> "INVALID_OPERATION"
    [] enroll[p].ready   -> "S_OK"
    [] OTHER             -> "MORE_DATA"

GetEnrollmentStatus(p) ==
  /\ attached[p] /\ answer' = EnrollmentStatus(p)
  /\ UNCHANGED <<context, storage, ghosts>>

\* The same status in a field of the result, with or without a context.
QueryExtendedEnrollmentStatus(p) ==
  answer' = EnrollmentStatus(p) /\ UNCHANGED <<context, storage, ghosts>>

SetEnrollmentParameters(p) ==
  /\ attached[p]
  /\ answer' = IF enroll[p].active THEN "S_OK" ELSE "INVALID_OPERATION"
  /\ UNCHANGED <<context, storage, ghosts>>

Ready(p) == attached[p] /\ enroll[p].active /\ enroll[p].ready

\* The verdict is the framework's to act on; a storage error reads "unique".
CheckForDuplicate(p) ==
  /\ attached[p]
  /\ IF ~Ready(p) THEN answer' = "INVALID_OPERATION"
     ELSE \E s \in RecordSets(storage) : \E seen \in Walks(s) :
            answer' = IF \E r \in seen : r.user = enroll[p].user THEN "DUPLICATE" ELSE "S_OK"
  /\ UNCHANGED <<context, storage, ghosts>>

CommitEnrollment(p) == \E i \in Identities, f \in Fingers :
  /\ attached[p]
  /\ \/ /\ ~Ready(p) /\ answer' = "INVALID_OPERATION"
        /\ UNCHANGED <<enroll, storage, granted>>
     \/ /\ Ready(p) /\ Cardinality(storage) < MaxRecords
        /\ storage' = storage \cup {Template(i, f, enroll[p].user)}
        /\ Grants(Grant(p, enroll[p].id, "record", enroll[p].user))
        /\ answer' = "S_OK" /\ ResetEnrollment(p)
     \/ /\ Ready(p) /\ StorageFails /\ answer' = "FAILED"
        /\ UNCHANGED <<enroll, storage, granted>>
  /\ UNCHANGED <<attached, sample, issued, slept, opened>>

DiscardEnrollment(p) ==
  /\ answer' = "S_OK" /\ ForgetAll(p)
  /\ UNCHANGED <<attached, storage, ghosts>>

(***************************************************************************)
(* Callbacks that keep no state, and what others do to the storage.        *)
(***************************************************************************)
Answer(hr) == answer' = hr /\ UNCHANGED <<context, storage, ghosts>>

QueryPreferredFormat == Answer("S_OK")
ExportEngineData     == Answer("E_NOTIMPL")
GetEnrollmentHash    == Answer("E_NOTIMPL")
ControlUnit          == Answer("E_NOTIMPL")
PipelineInit         == Answer("S_OK")
QueryExtendedInfo    == Answer("S_OK") \/ Answer("E_INVALIDARG")
RefreshCache         == Answer("S_OK")
QueryCalibrationData == Answer("E_NOTIMPL")

Stateless ==
  \/ QueryPreferredFormat \/ ExportEngineData \/ GetEnrollmentHash \/ ControlUnit
  \/ PipelineInit \/ QueryExtendedInfo \/ RefreshCache \/ QueryCalibrationData

\* A fingerprint is removed in Settings, or something else enrols a record.
StorageChanges ==
  /\ \/ \E r \in storage : storage' = storage \ {r}
     \/ /\ Cardinality(storage) < MaxRecords
        /\ \E r \in Templates : storage' = storage \cup {r}
  /\ UNCHANGED <<context, answer, ghosts>>

g_EngineInterface(p) ==
  \/ Attach(p) \/ Detach(p) \/ GetContext(p) \/ ClearContext(p)
  \/ NotifyPowerChange(p) \/ AcceptSampleData(p)
  \/ VerifyFeatureSet(p) \/ IdentifyFeatureSet(p)
  \/ CreateEnrollment(p) \/ UpdateEnrollment(p) \/ GetEnrollmentStatus(p)
  \/ QueryExtendedEnrollmentStatus(p) \/ SetEnrollmentParameters(p)
  \/ CheckForDuplicate(p) \/ CommitEnrollment(p) \/ DiscardEnrollment(p)

Next == (\E p \in Pipelines : g_EngineInterface(p)) \/ Stateless \/ StorageChanges

Spec == Init /\ [][Next]_vars

(***************************************************************************)
(* Properties.                                                             *)
(***************************************************************************)
Samples == [valid : BOOLEAN, purpose : Purposes, kind : Kinds, user : Users \cup {NoUser},
            id : 0..MaxSamples]
Enrollments == [active : BOOLEAN, ready : BOOLEAN, user : Users \cup {NoUser}, id : 0..MaxSamples]

\* A sample or an enrollment has a context to be kept in, and a user.
Linked(p) ==
  /\ sample[p].valid => attached[p] /\ sample[p].user \in Users /\ sample[p].id > 0
  /\ enroll[p].active => attached[p]
  /\ enroll[p].ready => enroll[p].active /\ enroll[p].user \in Users /\ enroll[p].id > 0

GrantTypes == [on : Pipelines, id : 1..MaxSamples, what : {"match", "identity", "record"},
               user : Users]

TypeOK ==
  /\ attached \in [Pipelines -> BOOLEAN]
  /\ sample \in [Pipelines -> Samples]
  /\ enroll \in [Pipelines -> Enrollments]
  /\ \A p \in Pipelines : Linked(p)
  /\ storage \subseteq Templates
  /\ answer \in Answers
  /\ issued \in 0..MaxSamples
  /\ granted \subseteq GrantTypes
  /\ slept \in [Pipelines -> 0..MaxSamples] /\ opened \in [Pipelines -> 0..MaxSamples]

\* The state of T2Consent.
Ticket(id, touch, u) == [id |-> id, touch |-> touch, user |-> u]

Held == [p \in Pipelines |->
  IF sample[p].valid THEN {Ticket(sample[p].id, sample[p].kind = "verify", sample[p].user)} ELSE {}]

Pledged == [p \in Pipelines |->
  IF enroll[p].ready THEN {Ticket(enroll[p].id, FALSE, enroll[p].user)} ELSE {}]

Ticketed(g) == [ticket |-> Ticket(g.id, g.what # "record", g.user),
                for    |-> IF g.what = "record" THEN "record" ELSE "match"]

GrantTickets == {Ticketed(g) : g \in granted}

Consent == INSTANCE T2Consent WITH held <- Held, pledge <- Pledged, grants <- GrantTickets

\* The engine adapter keeps the promises of T2Consent whatever the order of the
\* calls and whatever the storage does: a sample authorises one thing at most,
\* only a touch a sign-in, only a confirmation an enrolled record.
ImplementsConsent == Consent!Spec

Granted(p) == {g \in granted' \ granted : g.on = p}

\* A sample accepted before the machine slept authorises nothing after it.
NothingSurvivesSleep == [][\A p \in Pipelines : \A g \in Granted(p) : g.id > slept[p]]_vars

\* A record is committed on a confirmation given in the enrollment it ends, not
\* on one left over from an enrollment the framework gave up.
EnrollmentIsFresh ==
  [][\A p \in Pipelines : \A g \in Granted(p) : g.what = "record" => g.id > opened[p]]_vars

\* An identity is returned only when no second record carries its user: two of
\* them are ambiguous and fail the identify.
IdentifyIsUnique ==
  [][\A g \in granted' \ granted :
       g.what = "identity" => Cardinality({r \in storage : r.user = g.user}) = 1]_vars

=============================================================================
