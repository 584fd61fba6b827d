--------------------------- MODULE T2ConsentProofs ---------------------------
(***************************************************************************)
(* T2Consent: no two grants on one ticket.  The invariant is not inductive   *)
(* by itself; what makes it so is where tickets are: every ticket that is    *)
(* held or pledged has been issued, has granted nothing, and is nowhere      *)
(* else.                                                                    *)
(***************************************************************************)
EXTENDS T2Consent, TLAPS

Placed ==
  /\ \A p \in Pipelines : \A t \in held[p] :
       /\ t.id <= issued
       /\ \A g \in grants : g.ticket.id # t.id
       /\ \A q \in Pipelines : \A u \in held[q] : u.id = t.id => q = p /\ u = t
       /\ \A q \in Pipelines : \A u \in pledge[q] : u.id # t.id
  /\ \A p \in Pipelines : \A t \in pledge[p] :
       /\ t.id <= issued
       /\ ~t.touch
       /\ \A g \in grants : g.ticket.id # t.id
       /\ \A q \in Pipelines : \A u \in pledge[q] : u.id = t.id => q = p /\ u = t
  /\ \A g \in grants : g.ticket.id <= issued

IInv == TypeOK /\ Placed /\ OneGrantEach

LEMMA InitHolds == Init => IInv
BY DEF Init, IInv, TypeOK, Placed, OneGrantEach

LEMMA IssueHolds == ASSUME IInv, NEW p \in Pipelines, Issue(p) PROVE IInv'
<1>1. PICK touch \in BOOLEAN, u \in Users :
        held' = [held EXCEPT ![p] = {[id |-> issued + 1, touch |-> touch, user |-> u]}]
  BY DEF Issue
<1> DEFINE t == [id |-> issued + 1, touch |-> touch, user |-> u]
<1>2. issued' = issued + 1 /\ pledge' = pledge /\ grants' = grants
  BY DEF Issue
<1>3. t \in Tickets /\ t.id = issued + 1
  BY DEF Tickets, IInv, TypeOK
<1>4. TypeOK'
  BY <1>1, <1>2, <1>3 DEF IInv, TypeOK
<1>5. \A q \in Pipelines : held'[q] = IF q = p THEN {t} ELSE held[q]
  BY <1>1 DEF IInv, TypeOK
<1>6. \A q \in Pipelines : \A v \in held[q] \cup pledge[q] : v.id \in Nat /\ v.id <= issued
  BY DEF IInv, TypeOK, Placed, Tickets
<1>7. \A g \in grants : g.ticket.id \in Nat /\ g.ticket.id <= issued
  BY DEF IInv, TypeOK, Placed, Tickets, Grants
<1>8. issued \in Nat
  BY DEF IInv, TypeOK
<1> HIDE DEF t
<1>9. Placed'
  BY <1>2, <1>3, <1>5, <1>6, <1>7, <1>8 DEF IInv, Placed
<1>10. OneGrantEach'
  BY <1>2 DEF IInv, OneGrantEach
<1> QED
  BY <1>4, <1>9, <1>10 DEF IInv

LEMMA ForgetHolds == ASSUME IInv, NEW p \in Pipelines, Forget(p) PROVE IInv'
<1>1. /\ held' = [held EXCEPT ![p] = {}] /\ issued' = issued /\ grants' = grants
      /\ pledge' = pledge \/ pledge' = [pledge EXCEPT ![p] = {}]
  BY DEF Forget
<1>2. TypeOK'
  BY <1>1 DEF IInv, TypeOK
<1>3. \A q \in Pipelines : held'[q] \subseteq held[q] /\ pledge'[q] \subseteq pledge[q]
  BY <1>1 DEF IInv, TypeOK
<1>4. Placed'
  BY <1>1, <1>3 DEF IInv, Placed
<1> QED
  BY <1>1, <1>2, <1>4 DEF IInv, OneGrantEach

LEMMA MatchHolds == ASSUME IInv, NEW p \in Pipelines, Match(p) PROVE IInv'
<1>1. PICK t \in held[p] : t.touch /\ grants' = grants \cup {[ticket |-> t, for |-> "match"]}
  BY DEF Match
<1>2. held' = [held EXCEPT ![p] = {}] /\ pledge' = pledge /\ issued' = issued
  BY DEF Match
<1>3. t \in Tickets
  BY DEF IInv, TypeOK
<1>4. TypeOK'
  BY <1>1, <1>2, <1>3 DEF IInv, TypeOK, Grants
<1>5. \A q \in Pipelines : held'[q] = IF q = p THEN {} ELSE held[q]
  BY <1>2 DEF IInv, TypeOK
<1> DEFINE new == [ticket |-> t, for |-> "match"]
<1>6. /\ \A g \in grants' : g \in grants \/ g = new
      /\ new.ticket = t /\ new.for = "match"
  BY <1>1
<1> HIDE DEF new
<1>7. Placed'
  BY <1>2, <1>5, <1>6 DEF IInv, Placed
<1>8. OneGrantEach'
  <2>1. \A g \in grants : g.ticket.id # t.id
    BY DEF IInv, Placed
  <2> QED
    BY <1>1, <1>6, <2>1, Zenon DEF IInv, OneGrantEach
<1> QED
  BY <1>4, <1>7, <1>8 DEF IInv

LEMMA PledgeHolds == ASSUME IInv, NEW p \in Pipelines, Pledge(p) PROVE IInv'
<1>1. PICK t \in held[p] : ~t.touch /\ pledge' = [pledge EXCEPT ![p] = {t}]
  BY DEF Pledge
<1>2. held' = [held EXCEPT ![p] = {}] /\ grants' = grants /\ issued' = issued
  BY DEF Pledge
<1>3. TypeOK'
  BY <1>1, <1>2 DEF IInv, TypeOK
<1>4. \A q \in Pipelines : /\ held'[q] = IF q = p THEN {} ELSE held[q]
                           /\ pledge'[q] = IF q = p THEN {t} ELSE pledge[q]
  BY <1>1, <1>2 DEF IInv, TypeOK
<1>5. Placed'
  BY <1>1, <1>2, <1>4 DEF IInv, Placed
<1> QED
  BY <1>2, <1>3, <1>5 DEF IInv, OneGrantEach

LEMMA RecordHolds == ASSUME IInv, NEW p \in Pipelines, Record(p) PROVE IInv'
<1>1. PICK t \in pledge[p] : grants' = grants \cup {[ticket |-> t, for |-> "record"]}
  BY DEF Record
<1>2. pledge' = [pledge EXCEPT ![p] = {}] /\ held' = held /\ issued' = issued
  BY DEF Record
<1>3. t \in Tickets
  BY DEF IInv, TypeOK
<1>4. TypeOK'
  BY <1>1, <1>2, <1>3 DEF IInv, TypeOK, Grants
<1>5. \A q \in Pipelines : pledge'[q] = IF q = p THEN {} ELSE pledge[q]
  BY <1>2 DEF IInv, TypeOK
<1> DEFINE new == [ticket |-> t, for |-> "record"]
<1>6. /\ \A g \in grants' : g \in grants \/ g = new
      /\ new.ticket = t /\ new.for = "record"
  BY <1>1
<1> HIDE DEF new
<1>7. Placed'
  BY <1>2, <1>5, <1>6 DEF IInv, Placed
<1>8. ~t.touch /\ "record" # "match"
  BY DEF IInv, Placed
<1>9. OneGrantEach'
  <2>1. \A g \in grants : g.ticket.id # t.id
    BY DEF IInv, Placed
  <2> QED
    BY <1>6, <1>8, <2>1, Zenon DEF IInv, OneGrantEach
<1> QED
  BY <1>4, <1>7, <1>9 DEF IInv

\* Nothing is granted twice on one sample, and only what the sample is for:
\* whatever the number of pipelines and of samples.
THEOREM GrantsAreExclusive == Spec => []OneGrantEach
<1>1. IInv /\ [Next]_vars => IInv'
  <2> SUFFICES ASSUME IInv, [Next]_vars PROVE IInv'
    OBVIOUS
  <2>1. CASE UNCHANGED vars
    BY <2>1 DEF vars, IInv, TypeOK, Placed, OneGrantEach
  <2>2. CASE Next
    BY <2>2, IssueHolds, ForgetHolds, MatchHolds, PledgeHolds, RecordHolds DEF Next
  <2> QED
    BY <2>1, <2>2
<1>2. IInv => OneGrantEach
  BY DEF IInv
<1> QED
  BY InitHolds, <1>1, <1>2, PTL DEF Spec

=============================================================================
