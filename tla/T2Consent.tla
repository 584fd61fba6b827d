------------------------------ MODULE T2Consent ------------------------------
(***************************************************************************)
(* What the engine adapter promises the Windows Biometric Framework,        *)
(* whatever its storage does (the fail-closed rules at the head of          *)
(* T2TouchIdEngineAdapter.cpp): a sample is a ticket.  A pipeline holds one  *)
(* at a time; a ticket of a touch may be spent on one match, a ticket of a   *)
(* confirmation on one pledge, and the pledge on one enrolled record.        *)
(* T2Engine is shown to implement this specification.                       *)
(***************************************************************************)
EXTENDS Naturals

CONSTANTS Pipelines, Users

VARIABLES
  held,    \* the ticket of each pipeline: a set of at most one
  pledge,  \* the ticket its enrollment rests on: a set of at most one
  grants,  \* what has been granted, and on which ticket
  issued   \* number of tickets issued

vars == <<held, pledge, grants, issued>>

Tickets == [id : Nat \ {0}, touch : BOOLEAN, user : Users]
Grants  == [ticket : Tickets, for : {"match", "record"}]

TypeOK ==
  /\ held \in [Pipelines -> SUBSET Tickets]
  /\ pledge \in [Pipelines -> SUBSET Tickets]
  /\ grants \in SUBSET Grants
  /\ issued \in Nat

Init ==
  /\ held = [p \in Pipelines |-> {}]
  /\ pledge = [p \in Pipelines |-> {}]
  /\ grants = {}
  /\ issued = 0

Issue(p) == \E touch \in BOOLEAN, u \in Users :
  /\ held' = [held EXCEPT ![p] = {[id |-> issued + 1, touch |-> touch, user |-> u]}]
  /\ issued' = issued + 1
  /\ UNCHANGED <<pledge, grants>>

\* The ticket is dropped, and the enrollment with it or not.
Forget(p) ==
  /\ held' = [held EXCEPT ![p] = {}]
  /\ pledge' \in {pledge, [pledge EXCEPT ![p] = {}]}
  /\ UNCHANGED <<grants, issued>>

Match(p) == \E t \in held[p] :
  /\ t.touch
  /\ held' = [held EXCEPT ![p] = {}]
  /\ grants' = grants \cup {[ticket |-> t, for |-> "match"]}
  /\ UNCHANGED <<pledge, issued>>

Pledge(p) == \E t \in held[p] :
  /\ ~t.touch
  /\ held' = [held EXCEPT ![p] = {}]
  /\ pledge' = [pledge EXCEPT ![p] = {t}]
  /\ UNCHANGED <<grants, issued>>

Record(p) == \E t \in pledge[p] :
  /\ pledge' = [pledge EXCEPT ![p] = {}]
  /\ grants' = grants \cup {[ticket |-> t, for |-> "record"]}
  /\ UNCHANGED <<held, issued>>

Next == \E p \in Pipelines : Issue(p) \/ Forget(p) \/ Match(p) \/ Pledge(p) \/ Record(p)

Spec == Init /\ [][Next]_vars

(***************************************************************************)
(* Properties.                                                             *)
(***************************************************************************)
\* No two things are granted on one ticket, and what is granted fits it: a
\* touch grants matches, a confirmation grants records.
OneGrantEach ==
  \A g, h \in grants :
    /\ g.ticket.id = h.ticket.id => g = h
    /\ g.ticket.touch <=> g.for = "match"

=============================================================================
