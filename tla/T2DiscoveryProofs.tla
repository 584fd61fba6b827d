-------------------------- MODULE T2DiscoveryProofs --------------------------
(***************************************************************************)
(* What holds of T2Discovery for any number of ports, any grace and any     *)
(* number of events: its types; that a phase leaves the driver in the       *)
(* committed mode; that the sticky tunnel is earned; and that it is         *)
(* committed to for a cause.                                                *)
(***************************************************************************)
EXTENDS T2Discovery, TLAPS

\* What a process may see and hold: the values of View.
Views == [mode : Transports, sticky : BOOLEAN, auto : BOOLEAN, seed : {"no", "yes", "alone"},
          pushed : Transports \cup {"unknown"}, off : BOOLEAN]

\* The driver holds the mode that was last pushed to it.
Coherent(s) == s.pushed # "unknown" => s.mode = s.pushed

\* The flag and its copy rest on the transport h of the last handshake.
Earned(s, h) ==
  /\ s.auto => h = "tunnel"
  /\ s.sticky => h = "tunnel"
  /\ s.seed = "yes" => (s.sticky => s.auto)
  /\ s.seed = "no" => ~s.auto
  /\ s.seed # "alone"

\* r differs from s in the mode alone.
SameFlags(r, s) == r.sticky = s.sticky /\ r.auto = s.auto /\ r.seed = s.seed /\ r.off = s.off
SameMode(r, s)  == r.mode = s.mode /\ r.pushed = s.pushed /\ r.off = s.off

-----------------------------------------------------------------------------
(* The operators on a view.                                                 *)

LEMMA PushKeeps ==
  ASSUME NEW s \in Views, NEW want \in Transports, NEW works \in BOOLEAN
  PROVE  LET r == Push(s, want, works)
         IN  /\ r \in Views /\ SameFlags(r, s)
             /\ Coherent(s) => Coherent(r)
             /\ ~s.off => r.pushed \in {want, "unknown"}
             /\ s.off => r.pushed = s.pushed
  BY DEF Push, Views, SameFlags, Coherent, Transports

LEMMA SeededKeeps ==
  ASSUME NEW s \in Views, NEW works \in BOOLEAN
  PROVE  LET r == Seeded(s, works)
         IN  /\ r \in Views /\ SameMode(r, s)
             /\ ~s.off => r.seed # "no"
             /\ s.off \/ s.seed # "no" => r = s
  BY DEF Seeded, Views, SameMode, Transports

LEMMA CommitKeeps ==
  ASSUME NEW s \in Views, NEW on \in BOOLEAN, NEW works \in BOOLEAN
  PROVE  LET r == CommitAutoTunnel(s, on, works)
         IN  r \in Views /\ SameMode(r, s)
  <1> DEFINE t == Seeded(s, works)
  <1>1. t \in Views /\ SameMode(t, s)
    BY SeededKeeps
  <1> HIDE DEF t
  <1> DEFINE u == [t EXCEPT !.auto = on]
  <1>2. u \in Views /\ SameMode(u, t)
    BY <1>1 DEF Views, SameMode
  <1> HIDE DEF u
  <1>3. PushSticky(u, on, works) \in Views /\ SameMode(PushSticky(u, on, works), u)
    BY <1>2 DEF PushSticky, Views, SameMode
  <1>4. CommitAutoTunnel(s, on, works) = IF t.auto = on THEN t ELSE PushSticky(u, on, works)
    BY DEF CommitAutoTunnel, t, u
  <1> QED
    BY <1>1, <1>2, <1>3, <1>4 DEF SameMode

LEMMA DialledKeeps ==
  ASSUME NEW s \in Views, NEW t, NEW ev
  PROVE  /\ Dialled(s, t, ev) \in Views /\ SameFlags(Dialled(s, t, ev), s)
         /\ Coherent(s) => Coherent(Dialled(s, t, ev))
  BY DEF Dialled, Views, SameFlags, Coherent

LEMMA SucceededKeeps ==
  ASSUME NEW s \in Views, NEW t \in Transports, NEW works \in BOOLEAN
  PROVE  Succeeded(s, t, works) \in Views /\ SameMode(Succeeded(s, t, works), s)
  BY CommitKeeps DEF Succeeded

\* Seeding takes the flag over.
LEMMA SeededEarned ==
  ASSUME NEW s \in Views, ~s.off, NEW h, Earned(s, h)
  PROVE  Earned(Seeded(s, TRUE), h) /\ Seeded(s, TRUE).seed = "yes"
  BY DEF Seeded, Views, Earned

\* A handshake on t with a driver that answers sets the flag, or clears it.
LEMMA CommitEarned ==
  ASSUME NEW s \in Views, ~s.off, NEW h, Earned(s, h), NEW on \in BOOLEAN
  PROVE  LET r == CommitAutoTunnel(s, on, TRUE)
         IN  /\ ~on => Earned(r, "native") /\ Earned(r, h)
             /\ on => Earned(r, "tunnel")
  <1> DEFINE t == Seeded(s, TRUE)
  <1>1. t \in Views /\ ~t.off /\ Earned(t, h) /\ t.seed = "yes"
    BY SeededKeeps, SeededEarned DEF SameMode
  <1> HIDE DEF t
  <1> DEFINE u == [t EXCEPT !.auto = on]
  <1>2. u \in Views /\ ~u.off /\ u.seed = "yes" /\ u.auto = on
    BY <1>1 DEF Views
  <1> HIDE DEF u
  <1> DEFINE v == PushSticky(u, on, TRUE)
  <1>3. v.seed = "yes" /\ v.auto = on /\ v.sticky = on
    BY <1>2 DEF PushSticky, Views, v
  <1>4. CommitAutoTunnel(s, on, TRUE) = IF t.auto = on THEN t ELSE v
    BY DEF CommitAutoTunnel, t, u, v
  <1> HIDE DEF v
  <1>5. CASE t.auto = on
    BY <1>1, <1>4, <1>5 DEF Earned, Views
  <1>6. CASE t.auto # on
    BY <1>3, <1>4, <1>6 DEF Earned
  <1> QED
    BY <1>5, <1>6

LEMMA SucceededEarned ==
  ASSUME NEW s \in Views, ~s.off, NEW h, Earned(s, h), NEW t \in Transports
  PROVE  Earned(Succeeded(s, t, TRUE), t)
  BY CommitEarned DEF Succeeded, Transports

LEMMA SameEarned ==
  ASSUME NEW r, NEW s, NEW h, SameFlags(r, s), Earned(s, h)
  PROVE  Earned(r, h)
  BY DEF SameFlags, Earned

LEMMA SameCoherent ==
  ASSUME NEW r, NEW s, SameMode(r, s), Coherent(s)
  PROVE  Coherent(r)
  BY DEF SameMode, Coherent

-----------------------------------------------------------------------------
(* The variables.                                                           *)

LEMMA ViewTyped ==
  ASSUME HeldOK, NEW p \in Processes
  PROVE  View(p) \in Views
  <1>1. driver \in Memory /\ mem[p] \in Processed /\ asleep \in BOOLEAN
    BY DEF HeldOK
  <1>2. (p = "host" /\ asleep) \in BOOLEAN
    BY <1>1
  <1> QED
    BY <1>1, <1>2 DEF View, Views, Memory, Processed

LEMMA BecomeTyped ==
  ASSUME HeldOK, NEW p \in Processes, NEW s \in Views, Become(p, s)
  PROVE  /\ driver' \in Memory /\ mem' \in [Processes -> Processed]
         /\ driver'.mode = s.mode /\ driver'.sticky = s.sticky
         /\ mem'[p].auto = s.auto /\ mem'[p].seed = s.seed /\ mem'[p].pushed = s.pushed
         /\ \A q \in Processes \ {p} : mem'[q] = mem[q]
  <1> DEFINE r == [auto |-> s.auto, seed |-> s.seed, pushed |-> s.pushed]
  <1>1. r \in Processed /\ r.auto = s.auto /\ r.seed = s.seed /\ r.pushed = s.pushed
    BY DEF Views, Processed
  <1>2. mem' = [mem EXCEPT ![p] = r] /\ mem \in [Processes -> Processed]
    BY DEF Become, HeldOK
  <1>3. driver' \in Memory /\ driver'.mode = s.mode /\ driver'.sticky = s.sticky
    BY DEF Become, Views, Memory
  <1> HIDE DEF r
  <1> QED
    BY <1>1, <1>2, <1>3

LEMMA SpendTyped ==
  ASSUME WorldOK, NEW works \in BOOLEAN, Spend(works)
  PROVE  changes' \in Nat /\ cause' \in BOOLEAN /\ lapses' \subseteq {"reload", "cli", "untold"}
  <1>1. changes' \in Nat /\ lapses' \subseteq {"reload", "cli", "untold"}
    BY DEF Spend, WorldOK
  <1>2. cause' \in BOOLEAN
    BY DEF Spend, WorldOK
  <1> QED
    BY <1>1, <1>2

LEMMA WorksBoolean == ASSUME NEW works \in Works PROVE works \in BOOLEAN
  BY DEF Works

LEMMA InitTypes == Init => TypeOK
  <1> SUFFICES ASSUME Init PROVE TypeOK
    OBVIOUS
  <1> USE BoundsAssumption
  <1>1. WorldOK
    <2>1. setting \in BOOLEAN /\ cause \in BOOLEAN
      BY Zenon DEF Init
    <2> QED
      BY <2>1 DEF Init, WorldOK, Networks, NoPort
  <1>2. HeldOK
    <2>1. asleep \in BOOLEAN /\ recheck \in BOOLEAN
      BY Zenon DEF Init
    <2> QED
      BY <2>1 DEF Init, HeldOK, Memory, Processed, FreshProcess, Transports
  <1>3. ProgressOK
    BY DEF Init, ProgressOK, Verdicts, Scans, FreshSeen, FreshScan, NoCandidate
  <1>4. AttemptOK
    BY DEF Init, AttemptOK, Attempts, NoAttempt, NoResult, Results, Transports
  <1>5. owed \in BOOLEAN
    BY Zenon DEF Init
  <1> QED
    BY <1>1, <1>2, <1>3, <1>4, <1>5 DEF TypeOK

\* Only the end of a phase and the end of the process touch what is owed.
LEMMA OwedStep == TypeOK /\ [Next]_vars => owed' \in BOOLEAN
  <1> SUFFICES ASSUME TypeOK, [Next]_vars PROVE owed' \in BOOLEAN
    OBVIOUS
  <1>1. owed' = owed \/ Restore \/ owed' = TRUE
    BY DEF Next, Attempt, Surroundings, Start, Gate, Pick, Enter, TryCachedBridgePort, ScanCools,
       ScanFinds, ScanFails, ConnectFoundPort, Connected, Continue, GiveUp, CooldownEnds,
       NetChanges, SettingChanges, Unlock, Suspend, Resume, Cancel, Restart, Reload, CliStart,
       CliConnect, history, vars
  <1>2. Restore => \E works \in BOOLEAN : owed' = (asleep \/ ~works)
    BY WorksBoolean DEF Restore
  <1>3. \A works \in BOOLEAN : (asleep \/ ~works) \in BOOLEAN
    OBVIOUS
  <1>4. owed \in BOOLEAN
    BY DEF TypeOK
  <1>5. CASE Restore
    BY <1>2, <1>3, <1>5
  <1>6. CASE ~Restore
    BY <1>1, <1>4, <1>6
  <1> QED
    BY <1>5, <1>6

LEMMA WorldStep == TypeOK /\ [Next]_vars => WorldOK'
  <1> SUFFICES ASSUME TypeOK, [Next]_vars PROVE WorldOK'
    OBVIOUS
  <1> USE BoundsAssumption DEF registry, history
  <1>0. WorldOK /\ ProgressOK /\ AttemptOK
    BY DEF TypeOK
  <1>1. CASE Start
    <2>1. cause' \in BOOLEAN
      BY <1>1 DEF Start
    <2> QED
      BY <1>0, <1>1, <2>1 DEF Start, WorldOK
  <1>2. CASE Gate \/ ScanCools \/ Connected \/ Continue \/ GiveUp \/ CooldownEnds \/ Resume
    BY <1>0, <1>2 DEF Gate, ScanCools, Connected, Continue, GiveUp, CooldownEnds, Resume, WorldOK
  <1>3. CASE Pick \/ Enter \/ ScanFails \/ Restore
    <2>1. PICK works \in BOOLEAN : Spend(works)
      BY <1>3, WorksBoolean DEF Pick, Enter, ScanFails, Restore
    <2>2. UNCHANGED <<net, registry, cli, shaken>>
      BY <1>3 DEF Pick, Enter, ScanFails, Restore
    <2> QED
      BY <1>0, <2>1, <2>2, SpendTyped DEF WorldOK
  <1>4. CASE TryCachedBridgePort
    <2>1. PICK works \in BOOLEAN : Spend(works)
      BY <1>4, WorksBoolean DEF TryCachedBridgePort
    <2>2. /\ UNCHANGED <<net, setting, cli>>
          /\ cache' = [cache EXCEPT !.svc = net.svc] \/ cache' = cache
          /\ shaken' = Transport(att.step) \/ shaken' = shaken
      BY <1>4 DEF TryCachedBridgePort, HostSucceeded
    <2>3. cache' \in [svc : 0 .. Ports, rsd : 0 .. Ports]
      BY <1>0, <2>2 DEF WorldOK, Networks
    <2> QED
      BY <1>0, <2>1, <2>2, <2>3, SpendTyped DEF WorldOK, Transport, Transports
  <1>5. CASE ScanFinds
    <2>1. PICK works \in BOOLEAN : Spend(works)
      BY <1>5, WorksBoolean DEF ScanFinds
    <2>2. UNCHANGED <<net, setting, cli, shaken>> /\ cache' = [svc |-> net.svc, rsd |-> net.rsd]
      BY <1>5 DEF ScanFinds
    <2>3. cache' \in [svc : 0 .. Ports, rsd : 0 .. Ports]
      BY <1>0, <2>2 DEF WorldOK, Networks
    <2> QED
      BY <1>0, <2>1, <2>2, <2>3, SpendTyped DEF WorldOK
  <1>6. CASE ConnectFoundPort
    <2>1. PICK works \in BOOLEAN : Spend(works)
      BY <1>6, WorksBoolean DEF ConnectFoundPort
    <2>2. /\ UNCHANGED <<net, registry, cli>>
          /\ shaken' = Transport(att.step) \/ shaken' = shaken
      BY <1>6 DEF ConnectFoundPort, HostSucceeded
    <2> QED
      BY <1>0, <2>1, <2>2, SpendTyped DEF WorldOK, Transport, Transports
  <1>7. CASE NetChanges
    <2>1. net' \in Networks
      BY <1>0, <1>7 DEF NetChanges, WorldOK, Networks
    <2>2. cause' \in BOOLEAN
      BY <1>0, <1>7 DEF NetChanges
    <2> QED
      BY <1>0, <1>7, <2>1, <2>2 DEF NetChanges, Happens, WorldOK
  <1>8. CASE SettingChanges
    BY <1>0, <1>8 DEF SettingChanges, Happens, WorldOK
  <1>9. CASE Unlock \/ Suspend \/ Cancel \/ Restart
    BY <1>0, <1>9 DEF Unlock, Suspend, Cancel, Restart, Happens, WorldOK
  <1>10. CASE Reload
    BY <1>0, <1>10 DEF Reload, Happens, WorldOK
  <1>11. CASE CliStart
    BY <1>0, <1>11 DEF CliStart, WorldOK, Mode, Transports
  <1>12. CASE CliConnect
    <2>1. /\ UNCHANGED <<net, registry, changes, cause, lapses>>
          /\ cli' \in {"again", "off"}
          /\ shaken' = Mode(cli # "native") \/ shaken' = shaken
      BY <1>12 DEF CliConnect
    <2> QED
      BY <1>0, <2>1 DEF WorldOK, Mode, Transports
  <1>13. CASE UNCHANGED vars
    BY <1>0, <1>13 DEF vars, WorldOK
  <1> QED
    BY <1>1, <1>2, <1>3, <1>4, <1>5, <1>6, <1>7, <1>8, <1>9, <1>10, <1>11, <1>12, <1>13
       DEF Next, Attempt, Surroundings

-----------------------------------------------------------------------------
(* The steps of an attempt that talk to the driver.                         *)

\* What they have in common: the driver and the process become s, which is coherent if
\* the view before was, and earned if the driver answered.
HostMoves(works, s) ==
  /\ works \in BOOLEAN /\ s \in Views
  /\ Become("host", s) /\ Spend(works) /\ asleep' = asleep /\ cli' = cli
  /\ Coherent(View("host")) => Coherent(s)
  /\ works /\ ~asleep /\ Earned(View("host"), shaken) => Earned(s, shaken')

LEMMA HostView ==
  ASSUME TypeOK
  PROVE  View("host") \in Views /\ (View("host").off <=> asleep)
  BY ViewTyped DEF TypeOK, Processes, View

LEMMA AwakeView ==
  ASSUME TypeOK, ~asleep
  PROVE  View("host") \in Views /\ ~View("host").off
  BY HostView

LEMMA PickMoves ==
  ASSUME TypeOK, Pick
  PROVE  \E works \in BOOLEAN, s \in Views : HostMoves(works, s)
  <1>1. PICK works \in BOOLEAN :
          LET s == Seeded(View("host"), works)
              t == IF setting THEN s ELSE CommitAutoTunnel(s, FALSE, works)
          IN  Become("host", t) /\ Spend(works)
    BY WorksBoolean DEF Pick
  <1> DEFINE s == Seeded(View("host"), works)
             t == IF setting THEN s ELSE CommitAutoTunnel(s, FALSE, works)
  <1>2. s \in Views /\ SameMode(s, View("host"))
    BY HostView, SeededKeeps
  <1>3. t \in Views /\ SameMode(t, View("host"))
    BY <1>2, CommitKeeps DEF SameMode
  <1>4. Coherent(View("host")) => Coherent(t)
    BY <1>3, SameCoherent
  <1>5. ASSUME works, ~asleep, Earned(View("host"), shaken) PROVE Earned(t, shaken)
    <2>1. works = TRUE
      BY <1>5
    <2>2. Earned(s, shaken) /\ ~s.off
      BY <1>2, <1>5, <2>1, AwakeView, SeededEarned DEF SameMode
    <2>3. Earned(CommitAutoTunnel(s, FALSE, TRUE), shaken)
      BY <1>2, <2>2, CommitEarned
    <2> QED
      BY <2>1, <2>2, <2>3
  <1>6. asleep' = asleep /\ cli' = cli /\ shaken' = shaken
    BY DEF Pick
  <1>7. Become("host", t) /\ Spend(works)
    BY <1>1
  <1> HIDE DEF t
  <1>8. HostMoves(works, t)
    BY <1>3, <1>4, <1>5, <1>6, <1>7 DEF HostMoves
  <1> QED
    BY <1>3, <1>8

\* Enter, ScanFinds and ScanFails do nothing but push a mode.
LEMMA PushMoves ==
  ASSUME TypeOK, NEW works \in BOOLEAN, NEW want \in Transports,
         Become("host", Push(View("host"), want, works)), Spend(works),
         asleep' = asleep, cli' = cli, shaken' = shaken
  PROVE  \E s \in Views : HostMoves(works, s)
  <1> DEFINE t == Push(View("host"), want, works)
  <1>1. t \in Views /\ SameFlags(t, View("host")) /\ (Coherent(View("host")) => Coherent(t))
    BY HostView, PushKeeps
  <1>2. Earned(View("host"), shaken) => Earned(t, shaken)
    BY <1>1, SameEarned
  <1>3. Become("host", t)
    OBVIOUS
  <1> HIDE DEF t
  <1>4. HostMoves(works, t)
    BY <1>1, <1>2, <1>3 DEF HostMoves
  <1> QED
    BY <1>1, <1>4

\* What Enter writes: a mode, pushed once or twice.
EnterView(works, again) ==
  LET t == Transport(att.step)
      first == Push(View("host"), t, works)
  IN  IF Unprepared(first, t) /\ net.peer # "none" THEN Push(first, t, again) ELSE first

LEMMA EnterViewKeeps ==
  ASSUME TypeOK, NEW works \in BOOLEAN, NEW again \in BOOLEAN
  PROVE  LET s == EnterView(works, again)
         IN  /\ s \in Views /\ SameFlags(s, View("host"))
             /\ Coherent(View("host")) => Coherent(s)
             /\ works => s = Push(View("host"), Transport(att.step), works)
  <1> DEFINE t == Transport(att.step)
             first == Push(View("host"), t, works)
  <1>0. t \in Transports /\ View("host") \in Views
    BY HostView DEF Transport, Transports
  <1>1. /\ first \in Views /\ SameFlags(first, View("host"))
        /\ Coherent(View("host")) => Coherent(first)
    BY <1>0, PushKeeps
  <1>1a. works => View("host").off \/ first.pushed = t
    BY <1>0 DEF Push, Views
  <1>1b. View("host").off => first.off
    BY <1>1 DEF SameFlags
  <1>2. /\ Push(first, t, again) \in Views /\ SameFlags(Push(first, t, again), first)
        /\ Coherent(first) => Coherent(Push(first, t, again))
    BY <1>0, <1>1, PushKeeps
  <1>3. works => ~Unprepared(first, t)
    BY <1>1a, <1>1b DEF Unprepared, Transports
  <1>4. EnterView(works, again) = IF Unprepared(first, t) /\ net.peer # "none"
                                  THEN Push(first, t, again) ELSE first
    BY DEF EnterView
  <1> HIDE DEF first, t
  <1>5. SameFlags(Push(first, t, again), View("host"))
    BY <1>1, <1>2 DEF SameFlags
  <1> QED
    BY <1>1, <1>2, <1>3, <1>4, <1>5 DEF first, t

LEMMA EnterMoves ==
  ASSUME TypeOK, Enter
  PROVE  \E works \in BOOLEAN, s \in Views : HostMoves(works, s)
  <1>1. PICK works \in BOOLEAN, again \in BOOLEAN :
          Become("host", EnterView(works, again)) /\ Spend(works)
    BY WorksBoolean DEF Enter, EnterView
  <1>2. asleep' = asleep /\ cli' = cli /\ shaken' = shaken
    BY DEF Enter
  <1> DEFINE t == EnterView(works, again)
  <1>3. t \in Views /\ SameFlags(t, View("host")) /\ (Coherent(View("host")) => Coherent(t))
    BY EnterViewKeeps
  <1>4. Become("host", t)
    BY <1>1
  <1> HIDE DEF t
  <1>5. Earned(View("host"), shaken) => Earned(t, shaken)
    BY <1>3, SameEarned
  <1>6. HostMoves(works, t)
    BY <1>1, <1>2, <1>3, <1>4, <1>5 DEF HostMoves
  <1> QED
    BY <1>3, <1>6

LEMMA ScanMoves ==
  ASSUME TypeOK, ScanFinds \/ ScanFails
  PROVE  \E works \in BOOLEAN, s \in Views : HostMoves(works, s)
  <1>1. PICK works \in BOOLEAN :
          Become("host", Push(View("host"), att.over, works)) /\ Spend(works)
    BY WorksBoolean DEF ScanFinds, ScanFails
  <1>2. asleep' = asleep /\ cli' = cli /\ shaken' = shaken /\ att.pc = "scan"
    BY DEF ScanFinds, ScanFails, Now
  <1>3. att.over \in Transports
    BY <1>2 DEF TypeOK, AttemptOK, Transport, Transports
  <1> QED
    BY <1>1, <1>2, <1>3, PushMoves

\* A connect: the mode is pushed again, and a handshake decides about the tunnel.
LEMMA ConnectMoves ==
  ASSUME TypeOK, NEW works \in BOOLEAN, NEW t \in Transports, NEW ok \in BOOLEAN, NEW ev,
         LET d == Dialling(View("host"), t, works)
         IN  Become("host", IF ok THEN Succeeded(d, t, works) ELSE Dialled(d, t, ev)),
         Spend(works), asleep' = asleep, cli' = cli, shaken' = IF ok THEN t ELSE shaken
  PROVE  \E s \in Views : HostMoves(works, s)
  <1> DEFINE d == Dialling(View("host"), t, works)
             r == IF ok THEN Succeeded(d, t, works) ELSE Dialled(d, t, ev)
  <1>1. d \in Views /\ SameFlags(d, View("host")) /\ (Coherent(View("host")) => Coherent(d))
    BY HostView, PushKeeps DEF Dialling
  <1>2. Become("host", r)
    OBVIOUS
  <1> HIDE DEF d
  <1>3. r \in Views /\ (Coherent(d) => Coherent(r))
    BY <1>1, SucceededKeeps, DialledKeeps, SameCoherent
  <1>4. ASSUME works, ~asleep, Earned(View("host"), shaken) PROVE Earned(r, shaken')
    <2>1. works = TRUE /\ Earned(d, shaken) /\ ~d.off
      BY <1>1, <1>4, SameEarned, AwakeView DEF SameFlags
    <2>2. Earned(Succeeded(d, t, TRUE), t)
      BY <1>1, <2>1, SucceededEarned
    <2>3. Earned(Dialled(d, t, ev), shaken)
      BY <1>1, <2>1, DialledKeeps, SameEarned
    <2> QED
      BY <2>1, <2>2, <2>3
  <1> HIDE DEF r
  <1>5. HostMoves(works, r)
    BY <1>1, <1>2, <1>3, <1>4 DEF HostMoves
  <1> QED
    BY <1>3, <1>5

LEMMA FoundMoves ==
  ASSUME TypeOK, ConnectFoundPort
  PROVE  \E works \in BOOLEAN, s \in Views : HostMoves(works, s)
  <1> DEFINE t == Transport(att.step)
  <1>1. t \in Transports
    BY DEF Transport, Transports
  <1>2. PICK works \in BOOLEAN, ev \in {"Ok", "Refused", "Positive", "Silent", "Blocked", "LocalError"} :
          LET d == Dialling(View("host"), t, works)
          IN  /\ Spend(works)
              /\ Become("host", IF ev = "Ok" THEN Succeeded(d, t, works) ELSE Dialled(d, t, ev))
              /\ shaken' = IF ev = "Ok" THEN t ELSE shaken
    BY WorksBoolean DEF ConnectFoundPort, HostSucceeded, Evidence, Dial
  <1>3. asleep' = asleep /\ cli' = cli
    BY DEF ConnectFoundPort
  <1> HIDE DEF t
  <1>4. CASE ev = "Ok"
    BY <1>1, <1>2, <1>3, <1>4, ConnectMoves, Zenon
  <1>5. CASE ev # "Ok"
    BY <1>1, <1>2, <1>3, <1>5, ConnectMoves, Zenon
  <1> QED
    BY <1>4, <1>5

LEMMA CachedMoves ==
  ASSUME TypeOK, TryCachedBridgePort
  PROVE  \E works \in BOOLEAN, s \in Views : HostMoves(works, s)
  <1> DEFINE t == Transport(att.step)
             d(w) == Dialling(View("host"), t, w)
             Ok(w, ev) == ev = "Ok" \/ Replayed(t, d(w).mode, ev)
  <1>1. t \in Transports
    BY DEF Transport, Transports
  <1>2. PICK works \in Works :
          \E ev \in IF cache = NoPort THEN {"LocalError"} ELSE Evidence(d(works), t, cache.svc) :
            LET s == IF cache = NoPort THEN View("host") ELSE Dialled(d(works), t, ev)
            IN  /\ Spend(works)
                /\ Become("host", IF Ok(works, ev) THEN Succeeded(d(works), t, works) ELSE s)
                /\ IF Ok(works, ev) THEN HostSucceeded(t) ELSE UNCHANGED <<recheck, shaken, seen>>
    BY DEF TryCachedBridgePort
  <1>3. PICK ev : LET s == IF cache = NoPort THEN View("host") ELSE Dialled(d(works), t, ev)
                  IN  /\ Spend(works)
                      /\ Become("host", IF Ok(works, ev) THEN Succeeded(d(works), t, works) ELSE s)
                      /\ IF Ok(works, ev) THEN HostSucceeded(t)
                         ELSE UNCHANGED <<recheck, shaken, seen>>
    BY <1>2
  <1> DEFINE ok == Ok(works, ev)
  <1>4. asleep' = asleep /\ cli' = cli /\ works \in BOOLEAN
    BY WorksBoolean DEF TryCachedBridgePort
  <1>5. shaken' = IF ok THEN t ELSE shaken
    BY <1>3 DEF HostSucceeded
  <1> HIDE DEF t, Ok
  <1>6. CASE ok
    BY <1>1, <1>3, <1>4, <1>5, <1>6, ConnectMoves
  <1>7. CASE ~ok /\ cache # NoPort
    BY <1>1, <1>3, <1>4, <1>5, <1>7, ConnectMoves
  <1>8. CASE ~ok /\ cache = NoPort
    <2>1. Become("host", View("host")) /\ Spend(works) /\ shaken' = shaken
      BY <1>3, <1>5, <1>8
    <2>2. HostMoves(works, View("host"))
      BY <1>4, <2>1, HostView DEF HostMoves
    <2> QED
      BY <1>4, <2>2, HostView
  <1> QED
    BY <1>6, <1>7, <1>8

LEMMA RestoreMoves ==
  ASSUME TypeOK, Restore
  PROVE  \E works \in BOOLEAN, s \in Views : HostMoves(works, s)
  <1>1. PICK works \in BOOLEAN :
          LET s == Seeded(View("host"), works)
          IN  Become("host", Push(s, Mode(s.auto), works)) /\ Spend(works)
    BY WorksBoolean DEF Restore
  <1> DEFINE s == Seeded(View("host"), works)
             r == Push(s, Mode(s.auto), works)
  <1>2. s \in Views /\ SameMode(s, View("host"))
    BY HostView, SeededKeeps
  <1>3. Become("host", r) /\ Spend(works)
    BY <1>1
  <1>4. ASSUME works, ~asleep, Earned(View("host"), shaken) PROVE Earned(s, shaken)
    BY <1>4, AwakeView, SeededEarned
  <1> HIDE DEF s
  <1>5. r \in Views /\ SameFlags(r, s) /\ (Coherent(s) => Coherent(r))
    BY <1>2, PushKeeps DEF Mode, Transports
  <1>6. Coherent(View("host")) => Coherent(s)
    BY <1>2, SameCoherent
  <1>7. asleep' = asleep /\ cli' = cli /\ shaken' = shaken
    BY DEF Restore
  <1> HIDE DEF r
  <1>8. HostMoves(works, r)
    BY <1>3, <1>4, <1>5, <1>6, <1>7, SameEarned DEF HostMoves
  <1> QED
    BY <1>5, <1>8

HostAction == \/ Pick \/ Enter \/ TryCachedBridgePort \/ ScanFinds \/ ScanFails
              \/ ConnectFoundPort \/ Restore

LEMMA HostSteps ==
  ASSUME TypeOK, HostAction
  PROVE  \E works \in BOOLEAN, s \in Views : HostMoves(works, s)
  BY PickMoves, EnterMoves, ScanMoves, FoundMoves, CachedMoves, RestoreMoves DEF HostAction

LEMMA FreshTyped == FreshProcess \in Processed
  BY DEF FreshProcess, Processed

\* The command-line tool writes the driver and its own memory.
LEMMA CliMoves ==
  ASSUME TypeOK, CliStart \/ CliConnect
  PROVE  \E s \in Views : Become("cli", s)
  <1>0. View("cli") \in Views /\ "cli" \in Processes
    BY ViewTyped DEF TypeOK, Processes
  <1>1. CASE CliStart
    <2> DEFINE v == [View("cli") EXCEPT !.auto = FALSE, !.seed = "no", !.pushed = "unknown"]
               s == Seeded(v, TRUE)
               t == IF setting THEN s ELSE CommitAutoTunnel(s, FALSE, TRUE)
    <2>1. v \in Views
      BY <1>0 DEF Views
    <2>2. Become("cli", t)
      BY <1>1 DEF CliStart
    <2> HIDE DEF v
    <2>3. s \in Views
      BY <2>1, SeededKeeps
    <2> HIDE DEF s
    <2>4. t \in Views
      BY <2>3, CommitKeeps
    <2> QED
      BY <2>2, <2>4
  <1>2. CASE CliConnect
    <2> DEFINE t == Mode(cli # "native")
               d == Dialling(View("cli"), t, TRUE)
    <2>1. t \in Transports
      BY DEF Mode, Transports
    <2>2. PICK ev : LET answered == ev \in {"Ok", "Refused", "Positive"}
                        s == Dialled(d, t, ev)
                    IN  Become("cli", IF answered /\ cli # "tunnel" THEN Succeeded(s, t, TRUE)
                                      ELSE s)
      BY <1>2 DEF CliConnect
    <2>3. d \in Views
      BY <1>0, <2>1, PushKeeps DEF Dialling
    <2> HIDE DEF d, t
    <2>4. Dialled(d, t, ev) \in Views
      BY <2>3, DialledKeeps
    <2>5. Succeeded(Dialled(d, t, ev), t, TRUE) \in Views
      BY <2>1, <2>4, SucceededKeeps
    <2> QED
      BY <2>2, <2>4, <2>5
  <1> QED
    BY <1>1, <1>2

LEMMA HeldStep == TypeOK /\ [Next]_vars => HeldOK'
  <1> SUFFICES ASSUME TypeOK, [Next]_vars PROVE HeldOK'
    OBVIOUS
  <1> USE DEF shared
  <1>0. HeldOK /\ "host" \in Processes /\ "cli" \in Processes
    BY DEF TypeOK, Processes
  <1>1. CASE HostAction
    <2>1. PICK works \in BOOLEAN, s \in Views : HostMoves(works, s)
      BY <1>1, HostSteps
    <2>2. Become("host", s) /\ asleep' = asleep
      BY <2>1 DEF HostMoves
    <2>3. recheck' \in {TRUE, FALSE} \/ recheck' = recheck
      BY <1>1 DEF HostAction, Pick, Enter, TryCachedBridgePort, ScanFinds, ScanFails,
         ConnectFoundPort, Restore, HostSucceeded, ConsumeNativeRevalidate
    <2>4. recheck' \in BOOLEAN
      BY <1>0, <2>3 DEF HeldOK
    <2> QED
      BY <1>0, <2>1, <2>2, <2>4, BecomeTyped DEF HeldOK
  <1>2. CASE Start \/ Gate \/ ScanCools \/ Connected \/ Continue \/ CooldownEnds
    BY <1>0, <1>2 DEF Start, Gate, ScanCools, Connected, Continue, CooldownEnds, HeldOK
  <1>3. CASE GiveUp
    <2>1. UNCHANGED <<driver, asleep, recheck>>
          /\ (mem' = mem \/ mem' = [mem EXCEPT !["host"].pushed = "unknown"])
      BY <1>3 DEF GiveUp
    <2> QED
      BY <1>0, <2>1 DEF HeldOK, Processed
  <1>4. CASE NetChanges \/ SettingChanges \/ Cancel
    BY <1>0, <1>4 DEF NetChanges, SettingChanges, Cancel, HeldOK
  <1>5. CASE Unlock \/ Suspend
    <2>1. recheck' \in BOOLEAN /\ asleep' \in BOOLEAN
      BY <1>0, <1>5 DEF Unlock, Suspend, HeldOK
    <2> QED
      BY <1>0, <1>5, <2>1 DEF Unlock, Suspend, HeldOK
  <1>6. CASE Resume
    <2>1. mem' \in [Processes -> Processed]
      BY <1>0, <1>6 DEF Resume, HeldOK, Processed
    <2>2. asleep' \in BOOLEAN
      BY <1>6 DEF Resume
    <2> QED
      BY <1>0, <1>6, <2>1, <2>2 DEF Resume, HeldOK
  <1>7. CASE Restart
    <2>1. mem' \in [Processes -> Processed]
      BY <1>0, <1>7, FreshTyped DEF Restart, HeldOK
    <2>2. asleep' \in BOOLEAN /\ recheck' \in BOOLEAN
      BY <1>7 DEF Restart
    <2> QED
      BY <1>0, <1>7, <2>1, <2>2 DEF Restart, HeldOK
  <1>8. CASE Reload
    BY <1>0, <1>8 DEF Reload, HeldOK, Memory, Transports
  <1>9. CASE CliStart \/ CliConnect
    <2>1. UNCHANGED <<asleep, recheck>>
      BY <1>9 DEF CliStart, CliConnect
    <2> QED
      BY <1>0, <1>9, <2>1, CliMoves, BecomeTyped DEF HeldOK
  <1>10. CASE UNCHANGED vars
    BY <1>0, <1>10 DEF vars, HeldOK
  <1> QED
    BY <1>1, <1>2, <1>3, <1>4, <1>5, <1>6, <1>7, <1>8, <1>9, <1>10
       DEF Next, Attempt, Surroundings, HostAction

LEMMA ProgressStep == TypeOK /\ [Next]_vars => ProgressOK'
  <1> SUFFICES ASSUME TypeOK, [Next]_vars PROVE ProgressOK'
    OBVIOUS
  <1> USE BoundsAssumption DEF progress
  <1>0. WorldOK /\ ProgressOK /\ AttemptOK
    BY DEF TypeOK
  <1>a. FreshSeen \in Verdicts /\ [t \in Transports |-> FreshScan] \in [Transports -> Scans]
    BY DEF FreshSeen, FreshScan, NoCandidate, Verdicts, Scans
  <1>b. \A b \in BOOLEAN : [seen EXCEPT !.v6 = b] \in Verdicts
    BY <1>0 DEF ProgressOK, Verdicts
  <1>c. /\ [seen EXCEPT !.silent = 0] \in Verdicts
        /\ [seen EXCEPT !.v6 = FALSE, !.silent = 0] \in Verdicts
    <2>1. \A v \in Verdicts : [v EXCEPT !.silent = 0] \in Verdicts
      BY DEF Verdicts
    <2> DEFINE v == [seen EXCEPT !.v6 = FALSE]
    <2>2. seen \in Verdicts /\ v \in Verdicts
      BY <1>0, <1>b DEF ProgressOK
    <2>3. [seen EXCEPT !.v6 = FALSE, !.silent = 0] = [v EXCEPT !.silent = 0]
      OBVIOUS
    <2> QED
      BY <2>1, <2>2, <2>3
  <1>d. NoteSilent => seen' \in Verdicts
    <2> DEFINE n == IF ~EchoAlive THEN 0
                    ELSE IF seen.silent < Grace THEN seen.silent + 1 ELSE seen.silent
    <2>1. n \in 0 .. Grace
      BY <1>0 DEF ProgressOK, Verdicts
    <2>2. NoteSilent => seen' = [seen EXCEPT !.silent = n]
      BY DEF NoteSilent
    <2> HIDE DEF n
    <2> QED
      BY <1>0, <2>1, <2>2 DEF ProgressOK, Verdicts
  <1>e. \A c \in [port : 0 .. Ports, fails : 0 .. 1] :
          Recheck(c) \in [port : 0 .. Ports, fails : 0 .. 1]
    BY DEF Recheck, NoCandidate
  <1>f. Transport(att.step) \in Transports
    BY DEF Transport, Transports
  <1>1. CASE Start \/ Pick \/ Enter \/ Restore \/ Continue
    BY <1>0, <1>1 DEF Start, Pick, Enter, Restore, Continue, ProgressOK
  <1>2. CASE Gate
    <2>1. UNCHANGED streak /\ (scan' = scan \/ scan' = [t \in Transports |-> FreshScan])
      BY <1>2 DEF Gate
    <2>2. PICK g \in BOOLEAN, v \in BOOLEAN, n \in {0, seen.silent} :
            seen' = seen \/ seen' = [gate |-> g, v6 |-> v, silent |-> n]
      <3>1. CASE GateReady
        BY <1>2, <3>1 DEF Gate
      <3>2. CASE ~GateReady
        <4> DEFINE g == GateOutcome = "ready" \/ (~att.moved /\ seen.gate)
                   v == GateOutcome = "none"
                   n == IF att.moved THEN 0 ELSE seen.silent
        <4>1. seen' = [gate |-> g, v6 |-> v, silent |-> n]
          BY <1>2, <3>2 DEF Gate
        <4>2. g \in BOOLEAN /\ v \in BOOLEAN /\ n \in {0, seen.silent}
          OBVIOUS
        <4> QED
          BY <4>1, <4>2
      <3> QED
        BY <3>1, <3>2
    <2>3. seen' \in Verdicts
      BY <1>0, <2>2 DEF ProgressOK, Verdicts
    <2> QED
      BY <1>0, <1>a, <2>1, <2>3 DEF ProgressOK
  <1>3. CASE TryCachedBridgePort \/ ConnectFoundPort
    <2>1. UNCHANGED <<scan, streak>>
      BY <1>3 DEF TryCachedBridgePort, ConnectFoundPort
    <2>2. \/ seen' = seen \/ seen' = [seen EXCEPT !.silent = 0]
          \/ seen' = [seen EXCEPT !.v6 = FALSE, !.silent = 0]
      BY <1>3 DEF TryCachedBridgePort, ConnectFoundPort, HostSucceeded
    <2> QED
      BY <1>0, <1>c, <2>1, <2>2 DEF ProgressOK
  <1>4. CASE ScanCools
    <2>1. seen' = seen \/ seen' = [seen EXCEPT !.silent = 0] \/ NoteSilent
      BY <1>4 DEF ScanCools, Judge
    <2> QED
      BY <1>0, <1>4, <1>c, <1>d, <2>1 DEF ScanCools, ProgressOK
  <1>5. CASE ScanFinds
    <2> DEFINE t == Transport(att.step)
               k == scan[t]
               c == Recheck(k.candidate)
    <2>1. k \in Scans /\ c \in [port : 0 .. Ports, fails : 0 .. 1]
      BY <1>0, <1>e, <1>f DEF ProgressOK, Scans
    <2>2. \/ scan' = [scan EXCEPT ![t] = [k EXCEPT !.candidate = NoCandidate]]
          \/ scan' = [scan EXCEPT ![t] = [FreshScan EXCEPT !.candidate = c]]
      BY <1>5 DEF ScanFinds
    <2>3. UNCHANGED <<seen, streak>>
      BY <1>5 DEF ScanFinds
    <2> HIDE DEF t, k, c
    <2>4. FreshScan \in Scans /\ NoCandidate \in [port : 0 .. Ports, fails : 0 .. 1]
      BY DEF Scans, NoCandidate, FreshScan
    <2>5. /\ [k EXCEPT !.candidate = NoCandidate] \in Scans
          /\ [FreshScan EXCEPT !.candidate = c] \in Scans
      BY <2>1, <2>4 DEF Scans
    <2> QED
      BY <1>0, <2>2, <2>3, <2>5 DEF ProgressOK
  <1>6. CASE ScanFails
    <2> DEFINE t == Transport(att.step)
               k == scan[t]
    <2>1. k \in Scans
      BY <1>0, <1>f DEF ProgressOK
    <2>2. PICK to \in 0 .. Ports, over \in BOOLEAN, cooled \in BOOLEAN,
               c \in [port : 0 .. Ports, fails : 0 .. 1] :
            scan' = [scan EXCEPT ![t] =
                       [cursor |-> IF over THEN 0 ELSE to, cooling |-> cooled, candidate |-> c]]
      <3>1. PICK works \in Works, to \in Claims(k) :
              LET s == Push(View("host"), att.over, works)
                  carries == Carries(t, s.mode)
                  aborts == SilentAbort(k, carries, to)
                  done == to = Ports /\ ~att.cancelled
                  met == carries /\ net.rsd \in k.cursor + 1 .. to
              IN  scan' = [scan EXCEPT ![t] =
                      [cursor |-> IF aborts \/ done THEN 0 ELSE to,
                       cooling |-> IF done /\ k.cursor = 0 /\ ~aborts THEN TRUE ELSE k.cooling,
                       candidate |-> IF att.cancelled THEN k.candidate
                                     ELSE Met(Recheck(k.candidate), met)]]
        BY <1>6 DEF ScanFails
      <3> DEFINE s == Push(View("host"), att.over, works)
                 carries == Carries(t, s.mode)
                 aborts == SilentAbort(k, carries, to)
                 done == to = Ports /\ ~att.cancelled
                 met == carries /\ net.rsd \in k.cursor + 1 .. to
                 c == IF att.cancelled THEN k.candidate ELSE Met(Recheck(k.candidate), met)
                 cooled == IF done /\ k.cursor = 0 /\ ~aborts THEN TRUE ELSE k.cooling
      <3>2. to \in 0 .. Ports
        BY <2>1 DEF Claims, Scans
      <3>3. Recheck(k.candidate) \in [port : 0 .. Ports, fails : 0 .. 1]
            /\ k.candidate \in [port : 0 .. Ports, fails : 0 .. 1]
        BY <1>e, <2>1 DEF Scans
      <3>4. c \in [port : 0 .. Ports, fails : 0 .. 1]
        BY <1>0, <3>3 DEF Met, WorldOK, Networks
      <3>5. cooled \in BOOLEAN
        BY <2>1 DEF Scans
      <3>6. (aborts \/ done) \in BOOLEAN
        OBVIOUS
      <3> QED
        BY <3>1, <3>2, <3>4, <3>5, <3>6
    <2>3. UNCHANGED streak /\ (seen' = seen \/ seen' = [seen EXCEPT !.silent = 0] \/ NoteSilent)
      BY <1>6 DEF ScanFails, Judge
    <2>4. scan' \in [Transports -> Scans]
      BY <1>0, <1>f, <2>2 DEF ProgressOK, Scans
    <2> QED
      BY <1>0, <1>c, <1>d, <2>3, <2>4 DEF ProgressOK
  <1>7. CASE CooldownEnds
    <2>1. PICK t \in Transports : scan' = [scan EXCEPT ![t].cooling = FALSE]
      BY <1>7 DEF CooldownEnds
    <2>2. [scan[t] EXCEPT !.cooling = FALSE] \in Scans
      BY <1>0 DEF ProgressOK, Scans
    <2> QED
      BY <1>0, <1>7, <2>1, <2>2 DEF CooldownEnds, ProgressOK
  <1>8. CASE Connected
    BY <1>0, <1>8 DEF Connected, ProgressOK
  <1>9. CASE GiveUp
    BY <1>0, <1>9 DEF GiveUp, ProgressOK
  <1>10. CASE NetChanges \/ SettingChanges \/ Cancel \/ Resume \/ Reload
    BY <1>0, <1>10 DEF NetChanges, SettingChanges, Cancel, Resume, Reload, ProgressOK
  <1>11. CASE Unlock
    BY <1>0, <1>11, <1>b DEF Unlock, ProgressOK
  <1>12. CASE Suspend \/ Restart
    BY <1>0, <1>12, <1>a DEF Suspend, Restart, NewGeneration, ProgressOK
  <1>13. CASE CliStart \/ CliConnect
    BY <1>0, <1>13 DEF CliStart, CliConnect, ProgressOK
  <1>14. CASE UNCHANGED vars
    BY <1>0, <1>14 DEF vars, ProgressOK
  <1> QED
    BY <1>1, <1>2, <1>3, <1>4, <1>5, <1>6, <1>7, <1>8, <1>9, <1>10, <1>11, <1>12, <1>13, <1>14
       DEF Next, Attempt, Surroundings

Places == {"idle", "retry", "gate", "pick", "enter", "cached", "scan", "found", "leave", "decide"}

\* Fresh records are typed.
LEMMA FreshAttempt ==
  /\ NoResult \in Results
  /\ NoAttempt \in Attempts /\ NoAttempt.pc = "idle"
  /\ \A p \in Places, b \in BOOLEAN :
       LET a == [NoAttempt EXCEPT !.pc = p, !.moved = b] IN a \in Attempts /\ a.pc = p
  <1>1. NoResult \in Results
    BY DEF NoResult, Results
  <1>2. NoAttempt \in Attempts /\ NoAttempt.pc = "idle"
    BY <1>1 DEF NoAttempt, Attempts, Transports
  <1>3. \A a \in Attempts, p \in Places : LET r == [a EXCEPT !.pc = p] IN r \in Attempts /\ r.pc = p
    BY DEF Attempts, Places
  <1>4. \A a \in Attempts, b \in BOOLEAN :
          LET r == [a EXCEPT !.moved = b] IN r \in Attempts /\ r.pc = a.pc
    BY DEF Attempts
  <1>5. \A p \in Places, b \in BOOLEAN :
          [NoAttempt EXCEPT !.pc = p, !.moved = b] = [[NoAttempt EXCEPT !.pc = p] EXCEPT !.moved = b]
    OBVIOUS
  <1>6. ASSUME NEW p \in Places, NEW b \in BOOLEAN
        PROVE  LET a == [NoAttempt EXCEPT !.pc = p, !.moved = b] IN a \in Attempts /\ a.pc = p
    <2> DEFINE c == [NoAttempt EXCEPT !.pc = p]
    <2>1. c \in Attempts /\ c.pc = p
      BY <1>2, <1>3
    <2> HIDE DEF c
    <2>2. [c EXCEPT !.moved = b] \in Attempts /\ [c EXCEPT !.moved = b].pc = p
      BY <1>4, <2>1
    <2> QED
      BY <1>5, <2>2 DEF c
  <1> QED
    BY <1>1, <1>2, <1>6

\* One field of a result, or of an attempt, at a time.
LEMMA ResultSet ==
  ASSUME NEW r \in Results, NEW b \in BOOLEAN,
         NEW ev \in {"Ok", "Refused", "Positive", "Silent", "Blocked", "LocalError"}
  PROVE  /\ [r EXCEPT !.ev = ev] \in Results /\ [r EXCEPT !.ok = b] \in Results
         /\ [r EXCEPT !.alive = b] \in Results /\ [r EXCEPT !.blocked = b] \in Results
         /\ [r EXCEPT !.wfp = b] \in Results /\ [r EXCEPT !.silent = b] \in Results
         /\ [r EXCEPT !.local = b] \in Results
  BY DEF Results

Like(a, b) == a \in Attempts /\ a.pc = b.pc /\ a.over = b.over /\ a.step = b.step

LEMMA AttemptSet ==
  ASSUME NEW a \in Attempts
  PROVE  /\ \A p \in Places : LET c == [a EXCEPT !.pc = p]
                             IN c \in Attempts /\ c.pc = p /\ c.over = a.over /\ c.step = a.step
         /\ \A o \in Transports : LET c == [a EXCEPT !.over = o]
                             IN c \in Attempts /\ c.pc = a.pc /\ c.over = o /\ c.step = a.step
         /\ \A r \in Results : Like([a EXCEPT !.res = r], a)
         /\ \A b \in BOOLEAN : Like([a EXCEPT !.auto = b], a)
         /\ \A s \in {"none", "revalidate", "native", "again", "tunnel"} :
              LET c == [a EXCEPT !.step = s]
              IN  c \in Attempts /\ c.pc = a.pc /\ c.over = a.over /\ c.step = s
  <1>1. \A p \in Places : LET c == [a EXCEPT !.pc = p]
                        IN c \in Attempts /\ c.pc = p /\ c.over = a.over /\ c.step = a.step
    BY DEF Attempts, Places
  <1>2. \A o \in Transports : LET c == [a EXCEPT !.over = o]
                            IN c \in Attempts /\ c.pc = a.pc /\ c.over = o /\ c.step = a.step
    BY DEF Attempts
  <1>3. \A r \in Results : Like([a EXCEPT !.res = r], a)
    BY DEF Attempts, Like
  <1>4. \A b \in BOOLEAN : Like([a EXCEPT !.auto = b], a)
    BY DEF Attempts, Like
  <1>5. \A s \in {"none", "revalidate", "native", "again", "tunnel"} :
          LET c == [a EXCEPT !.step = s]
          IN  c \in Attempts /\ c.pc = a.pc /\ c.over = a.over /\ c.step = s
    BY DEF Attempts
  <1> QED
    BY <1>1, <1>2, <1>3, <1>4, <1>5

\* A step of the phase leaves a result behind, and goes on or leaves it.
LEMMA ResultIn ==
  ASSUME att \in Attempts, att.over = Transport(att.step), NEW r \in Results, NEW p \in Places,
         att' = [[att EXCEPT !.pc = p] EXCEPT !.res = r]
  PROVE  AttemptOK'
  <1> DEFINE c == [att EXCEPT !.pc = p]
  <1>1. c \in Attempts /\ c.over = att.over /\ c.step = att.step
    BY AttemptSet
  <1>2. att' = [c EXCEPT !.res = r]
    OBVIOUS
  <1> HIDE DEF c
  <1>3. Like([c EXCEPT !.res = r], c)
    BY <1>1, AttemptSet
  <1>4. att' \in Attempts /\ att'.over = att.over /\ att'.step = att.step
    BY <1>1, <1>2, <1>3 DEF Like
  <1> QED
    BY <1>4 DEF AttemptOK, Transport

\* The places outside a phase ask nothing of the override.
LEMMA OutsidePhase ==
  ASSUME att' \in Attempts, att'.pc \notin {"cached", "scan", "found", "leave"}
  PROVE  AttemptOK'
  BY DEF AttemptOK

LEMMA JudgeTyped ==
  ASSUME TypeOK, Now("scan"), NEW alive \in BOOLEAN, NEW ran \in BOOLEAN, NEW silent \in BOOLEAN,
         NEW blocked \in BOOLEAN, Judge(alive, ran, silent, blocked)
  PROVE  AttemptOK'
  <1>0. att \in Attempts /\ att.pc = "scan" /\ att.over = Transport(att.step)
    BY DEF TypeOK, AttemptOK, Now
  <1>1. PICK x \in BOOLEAN, y \in BOOLEAN, z \in BOOLEAN :
          \/ att' = [att EXCEPT !.pc = "leave", !.res.alive = alive, !.res.silent = x]
          \/ att' = [att EXCEPT !.pc = "leave", !.res.alive = alive, !.res.blocked = x,
                                !.res.wfp = y, !.res.silent = z]
    BY DEF Judge
  <1>2. att.res \in Results /\ "leave" \in Places
    BY <1>0 DEF Attempts, Places
  <1> DEFINE r1 == [att.res EXCEPT !.alive = alive]
             r2 == [r1 EXCEPT !.silent = x]
             r3 == [r1 EXCEPT !.blocked = x]
             r4 == [r3 EXCEPT !.wfp = y]
             r5 == [r4 EXCEPT !.silent = z]
  <1>3. \/ att' = [[att EXCEPT !.pc = "leave"] EXCEPT !.res = r2]
        \/ att' = [[att EXCEPT !.pc = "leave"] EXCEPT !.res = r5]
    BY <1>0, <1>1 DEF Attempts, Results
  <1>4. r1 \in Results
    BY <1>2, ResultSet
  <1> HIDE DEF r1
  <1>5. r2 \in Results /\ r3 \in Results
    BY <1>4, ResultSet
  <1> HIDE DEF r2, r3
  <1>6. r4 \in Results
    BY <1>5, ResultSet
  <1> HIDE DEF r4
  <1>7. r5 \in Results
    BY <1>6, ResultSet
  <1> HIDE DEF r5
  <1> QED
    BY <1>0, <1>2, <1>3, <1>5, <1>7, ResultIn

\* The phase to enter has no result yet.
LEMMA EnterTyped ==
  ASSUME att \in Attempts, NEW step \in {"none", "revalidate", "native", "again", "tunnel"},
         NEW a, a = [att EXCEPT !.pc = "enter", !.step = step, !.res = NoResult]
  PROVE  a \in Attempts /\ a.pc = "enter"
  <1> DEFINE c == [att EXCEPT !.pc = "enter"]
             d == [c EXCEPT !.step = step]
  <1>1. c \in Attempts /\ c.pc = "enter"
    BY AttemptSet DEF Places
  <1>2. a = [d EXCEPT !.res = NoResult]
    OBVIOUS
  <1> HIDE DEF c
  <1>3. d \in Attempts /\ d.pc = "enter"
    BY <1>1, AttemptSet
  <1> HIDE DEF d
  <1>4. Like([d EXCEPT !.res = NoResult], d)
    BY <1>3, AttemptSet, FreshAttempt
  <1> QED
    BY <1>2, <1>3, <1>4 DEF Like

LEMMA EntersTyped ==
  ASSUME TypeOK, NEW step \in {"revalidate", "native", "tunnel"}
  PROVE  Enters(step) \in Attempts /\ Enters(step).pc = "enter"
  <1> DEFINE c == [att EXCEPT !.pc = "enter", !.step = step, !.res = NoResult]
  <1>1. att \in Attempts /\ setting \in BOOLEAN
    BY DEF TypeOK, AttemptOK, WorldOK
  <1>2. c \in Attempts /\ c.pc = "enter"
    BY <1>1, EnterTyped
  <1>3. Enters(step) = [c EXCEPT !.auto = setting]
    BY <1>1 DEF Enters, Attempts
  <1> HIDE DEF c
  <1>4. Like([c EXCEPT !.auto = setting], c)
    BY <1>1, <1>2, AttemptSet
  <1> QED
    BY <1>2, <1>3, <1>4 DEF Like

\* What Enter writes into the attempt.
LEMMA EnterSets ==
  ASSUME att \in Attempts, Enter
  PROVE  \E f \in BOOLEAN, r \in BOOLEAN, p \in {"leave", "cached"} :
           att' = [att EXCEPT !.over = Transport(att.step), !.res.local = f, !.remembered = r,
                              !.pc = p]
  <1>1. PICK works, again :
          LET t == Transport(att.step)
              first == Push(View("host"), t, works)
              repeats == Unprepared(first, t) /\ net.peer # "none"
              s == IF repeats THEN Push(first, t, again) ELSE first
              fails == t = "tunnel" /\ (asleep \/ Unprepared(s, t))
          IN  att' = [att EXCEPT !.over = t, !.res.local = fails,
                        !.remembered = IF repeats THEN net.peer = "remembered" ELSE @,
                        !.pc = IF fails THEN "leave" ELSE "cached"]
    BY DEF Enter
  <1> DEFINE t == Transport(att.step)
             first == Push(View("host"), t, works)
             repeats == Unprepared(first, t) /\ net.peer # "none"
             s == IF repeats THEN Push(first, t, again) ELSE first
             fails == t = "tunnel" /\ (asleep \/ Unprepared(s, t))
             renewed == IF repeats THEN net.peer = "remembered" ELSE att.remembered
  <1>2. fails \in BOOLEAN
    OBVIOUS
  <1>3. att.remembered \in BOOLEAN
    BY DEF Attempts
  <1>4. renewed \in BOOLEAN
    BY <1>3
  <1>5. att' = [att EXCEPT !.over = t, !.res.local = fails, !.remembered = renewed,
                           !.pc = IF fails THEN "leave" ELSE "cached"]
    BY <1>1
  <1> HIDE DEF fails, renewed, t
  <1>6. (IF fails THEN "leave" ELSE "cached") \in {"leave", "cached"}
    OBVIOUS
  <1> QED
    BY <1>2, <1>4, <1>5, <1>6 DEF t

\* What Continue writes into it.
LEMMA ContinueSets ==
  ASSUME att \in Attempts, Continue
  PROVE  \E step \in NextStep, r \in BOOLEAN :
           att' = [att EXCEPT !.pc = "enter", !.step = step, !.res = NoResult, !.remembered = r]
  <1>1. PICK step \in NextStep :
          att' = [att EXCEPT !.pc = "enter", !.step = step, !.res = NoResult,
                             !.remembered = @ /\ step # "again"]
    BY DEF Continue
  <1> DEFINE r == att.remembered /\ step # "again"
  <1>2. r \in BOOLEAN
    OBVIOUS
  <1>3. att' = [att EXCEPT !.pc = "enter", !.step = step, !.res = NoResult, !.remembered = r]
    BY <1>1
  <1> HIDE DEF r
  <1> QED
    BY <1>2, <1>3

LEMMA AttemptStep == TypeOK /\ [Next]_vars => AttemptOK'
  <1> SUFFICES ASSUME TypeOK, [Next]_vars PROVE AttemptOK'
    OBVIOUS
  <1>0. AttemptOK /\ HeldOK /\ WorldOK /\ att \in Attempts /\ att.moved \in BOOLEAN
        /\ att.cancelled \in BOOLEAN
    BY DEF TypeOK, AttemptOK, Attempts
  <1>1. CASE Start
    BY <1>0, <1>1, FreshAttempt, OutsidePhase DEF Start, Places
  <1>2. CASE Gate
    <2>1. PICK r \in BOOLEAN, p \in {"idle", "retry", "pick"} :
            att' = [att EXCEPT !.moved = FALSE, !.remembered = r, !.pc = p]
      BY <1>2 DEF Gate, Over
    <2>2. att' \in Attempts /\ att'.pc = p
      BY <1>0, <2>1 DEF Attempts
    <2> QED
      BY <2>2, OutsidePhase
  <1>3. CASE Pick
    <2>1. \/ att' = [att EXCEPT !.pc = "idle"]
          \/ att' \in {Enters("revalidate"), Enters("native"), Enters("tunnel")}
      BY <1>3 DEF Pick
    <2>2. CASE att' = [att EXCEPT !.pc = "idle"]
      BY <1>0, <2>2, AttemptSet, OutsidePhase DEF Places
    <2>3. ASSUME NEW step \in {"revalidate", "native", "tunnel"}, att' = Enters(step)
          PROVE  AttemptOK'
      BY <1>0, <2>3, EntersTyped, OutsidePhase
    <2> QED
      BY <2>1, <2>2, <2>3
  <1>4. CASE Enter
    <2>1. PICK f \in BOOLEAN, r \in BOOLEAN, p \in {"leave", "cached"} :
            att' = [att EXCEPT !.over = Transport(att.step), !.res.local = f, !.remembered = r,
                               !.pc = p]
      BY <1>0, <1>4, EnterSets
    <2> QED
      BY <1>0, <2>1 DEF AttemptOK, Attempts, Results, Transport, Transports
  <1>5. CASE TryCachedBridgePort
    <2> DEFINE t == Transport(att.step)
               d(w) == Dialling(View("host"), t, w)
               Ok(w, ev) == ev = "Ok" \/ Replayed(t, d(w).mode, ev)
    <2>1. PICK works \in Works :
            \E ev \in IF cache = NoPort THEN {"LocalError"} ELSE Evidence(d(works), t, cache.svc) :
              att' = AfterCached(ev, Ok(works, ev))
      BY <1>5 DEF TryCachedBridgePort
    <2> DEFINE Seen == IF cache = NoPort THEN {"LocalError"} ELSE Evidence(d(works), t, cache.svc)
    <2>2. PICK ev \in Seen : att' = AfterCached(ev, Ok(works, ev))
      BY <2>1
    <2>a. Seen \subseteq {"Ok", "Refused", "Positive", "Silent", "Blocked", "LocalError"}
      BY DEF Evidence, Dial
    <2> DEFINE ok == Ok(works, ev)
               bl == ev = "Blocked" /\ att.auto /\ ~att.cancelled /\ att.step # "revalidate"
               p == IF ok \/ bl \/ att.cancelled \/ att.step = "revalidate" THEN "leave" ELSE "scan"
    <2>3. att' = [att EXCEPT !.res.ev = ev, !.res.ok = ok, !.res.alive = ok,
                             !.res.blocked = bl, !.res.wfp = bl, !.pc = p]
      BY <2>2 DEF AfterCached
    <2>4. ok \in BOOLEAN /\ bl \in BOOLEAN /\ p \in Places
      BY DEF Places
    <2>c. ev \in {"Ok", "Refused", "Positive", "Silent", "Blocked", "LocalError"}
      BY <2>a, <2>2
    <2> HIDE DEF ok, bl, p, Ok, Seen
    <2> DEFINE r1 == [att.res EXCEPT !.ev = ev]
               r2 == [r1 EXCEPT !.ok = ok]
               r3 == [r2 EXCEPT !.alive = ok]
               r4 == [r3 EXCEPT !.blocked = bl]
               r5 == [r4 EXCEPT !.wfp = bl]
    <2>5. att' = [[att EXCEPT !.pc = p] EXCEPT !.res = r5]
      BY <1>0, <2>3 DEF Attempts, Results
    <2>6. r1 \in Results
      BY <1>0, <2>c, ResultSet DEF Attempts
    <2> HIDE DEF r1
    <2>7. r2 \in Results
      BY <2>4, <2>6, ResultSet
    <2> HIDE DEF r2
    <2>8. r3 \in Results
      BY <2>4, <2>7, ResultSet
    <2> HIDE DEF r3
    <2>9. r4 \in Results
      BY <2>4, <2>8, ResultSet
    <2> HIDE DEF r4
    <2>10. r5 \in Results
      BY <2>4, <2>9, ResultSet
    <2> HIDE DEF r5
    <2>11. att.over = Transport(att.step)
      BY <1>0, <1>5 DEF TryCachedBridgePort, Now, AttemptOK
    <2> QED
      BY <1>0, <2>4, <2>5, <2>10, <2>11, ResultIn
  <1>6. CASE ScanCools
    <2>1. CachedAlive \in BOOLEAN
      BY DEF CachedAlive
    <2>2. Now("scan") /\ Judge(CachedAlive, FALSE, FALSE, FALSE)
      BY <1>6 DEF ScanCools
    <2> QED
      BY <2>1, <2>2, JudgeTyped
  <1>7. CASE ScanFinds
    <2>1. att' = [att EXCEPT !.pc = "found"] /\ att.pc = "scan"
      BY <1>7 DEF ScanFinds, Now
    <2> QED
      BY <1>0, <2>1 DEF AttemptOK, Attempts, Transport
  <1>8. CASE ScanFails
    <2>1. PICK alive \in BOOLEAN, silent \in BOOLEAN, blocked \in BOOLEAN :
            Judge(alive, TRUE, silent, blocked)
      BY <1>8 DEF ScanFails, CachedAlive, SilentAbort
    <2>2. Now("scan")
      BY <1>8 DEF ScanFails
    <2> QED
      BY <2>1, <2>2, JudgeTyped
  <1>9. CASE ConnectFoundPort
    <2>1. PICK ok \in BOOLEAN :
            att' = [att EXCEPT !.pc = "leave", !.res.ok = ok, !.res.alive = TRUE]
      BY <1>9 DEF ConnectFoundPort
    <2>2. att.pc = "found"
      BY <1>9 DEF ConnectFoundPort, Now
    <2> QED
      BY <1>0, <2>1, <2>2 DEF AttemptOK, Attempts, Results, Transport
  <1>10. CASE Restore
    <2>1. PICK b \in BOOLEAN :
            att' = [att EXCEPT !.over = "none", !.pc = "decide", !.sawSilent = b]
      BY <1>10 DEF Restore
    <2>2. att' \in Attempts /\ att'.pc = "decide"
      BY <1>0, <2>1 DEF Attempts
    <2> QED
      BY <2>2, OutsidePhase
  <1>11. CASE Connected \/ Restart
    <2>1. att' = NoAttempt \/ att' = [NoAttempt EXCEPT !.moved = att.moved]
      BY <1>11 DEF Connected, Restart
    <2>2. \A b \in BOOLEAN : LET a == [NoAttempt EXCEPT !.moved = b]
                           IN  a \in Attempts /\ a.pc = NoAttempt.pc
      BY FreshAttempt DEF Attempts
    <2>3. att' \in Attempts /\ att'.pc = "idle"
      BY <1>0, <2>1, <2>2, FreshAttempt
    <2> QED
      BY <2>3, OutsidePhase
  <1>12. CASE Continue
    <2>1. PICK step \in NextStep, r \in BOOLEAN :
            att' = [att EXCEPT !.pc = "enter", !.step = step, !.res = NoResult, !.remembered = r]
      BY <1>0, <1>12, ContinueSets
    <2> DEFINE a == [att EXCEPT !.pc = "enter", !.step = step, !.res = NoResult]
    <2>2. step \in {"tunnel", "again"}
      BY <2>1 DEF NextStep
    <2>3. a \in Attempts /\ a.pc = "enter"
      BY <1>0, <2>2, EnterTyped
    <2>4. att' = [a EXCEPT !.remembered = r]
      BY <2>1
    <2> HIDE DEF a
    <2>5. att' \in Attempts /\ att'.pc = "enter"
      BY <2>3, <2>4 DEF Attempts
    <2> QED
      BY <2>5, OutsidePhase
  <1>13. CASE GiveUp
    <2>1. Over \in {"idle", "retry"} /\ Over \in Places
      BY DEF Over, Places
    <2>2. att' \in Attempts /\ att'.pc = Over
      BY <1>0, <1>13, <2>1, FreshAttempt DEF GiveUp
    <2> QED
      BY <2>1, <2>2, OutsidePhase
  <1>14. CASE Suspend \/ Cancel
    <2>1. \/ att' = att
          \/ att' = [att EXCEPT !.cancelled = TRUE, !.pc = IF @ = "retry" THEN "idle" ELSE @]
      BY <1>14 DEF Suspend, Cancel, Cancelled
    <2> QED
      BY <1>0, <2>1 DEF AttemptOK, Attempts, Transport
  <1>15. CASE Reload
    <2>1. att' = [att EXCEPT !.moved = TRUE]
      BY <1>15 DEF Reload
    <2> QED
      BY <1>0, <2>1 DEF AttemptOK, Attempts, Transport
  <1>16. CASE \/ CooldownEnds \/ NetChanges \/ SettingChanges \/ Unlock \/ Resume
              \/ CliStart \/ CliConnect \/ UNCHANGED vars
    <2>1. att' = att
      BY <1>16 DEF CooldownEnds, NetChanges, SettingChanges, Unlock, Resume, CliStart, CliConnect,
         vars
    <2> QED
      BY <1>0, <2>1 DEF AttemptOK, Transport
  <1> QED
    BY <1>1, <1>2, <1>3, <1>4, <1>5, <1>6, <1>7, <1>8, <1>9, <1>10, <1>11, <1>12, <1>13, <1>14,
       <1>15, <1>16
       DEF Next, Attempt, Surroundings

\* Types, for every step.
THEOREM TypeCorrect == Spec => []TypeOK
  <1>1. TypeOK /\ [Next]_vars => TypeOK'
    BY WorldStep, HeldStep, ProgressStep, AttemptStep, OwedStep DEF TypeOK
  <1> QED
    BY <1>1, InitTypes, PTL DEF Spec

-----------------------------------------------------------------------------
(* Mode and flag.                                                           *)

\* Outside a phase, or about to leave that: the committed mode rules.
Settled == att.pc \in {"idle", "retry", "gate", "pick", "decide"}

\* The command-line tool never connects unnoticed.
CliNoted == cli # "off" => "cli" \in lapses
\* Why the flag is earned: it and its copy rest on the last handshake, and once seeded the copy
\* is no older than the flag.
EarnedHeld == lapses \subseteq {"reload"} => Earned(View("host"), shaken)
\* Why the mode is right: what was pushed last is what the driver has, and outside a phase the
\* driver has the committed mode, and no flag that the process has yet to take over, if the last
\* phase could tell it.
CommittedHeld ==
  lapses \subseteq {"untold"} =>
    /\ Coherent(View("host"))
    /\ Settled /\ ~owed =>
         /\ mem["host"].seed = "no" => ~mem["host"].auto /\ ~driver.sticky
         /\ driver.mode = Mode(mem["host"].auto)

IInv == TypeOK /\ CliNoted /\ EarnedHeld /\ CommittedHeld

LEMMA InitIInv == Init => IInv
  <1> SUFFICES ASSUME Init PROVE IInv
    OBVIOUS
  <1>1. TypeOK
    BY InitTypes
  <1>2. mem["host"] = FreshProcess /\ driver = [mode |-> "native", sticky |-> FALSE]
    BY DEF Init, Processes
  <1>3. CliNoted
    BY DEF Init, CliNoted
  <1>4. Earned(View("host"), shaken) /\ Coherent(View("host"))
    BY <1>2 DEF Earned, Coherent, View, FreshProcess
  <1>5. ~mem["host"].auto /\ ~driver.sticky /\ driver.mode = Mode(mem["host"].auto)
    BY <1>2 DEF FreshProcess, Mode
  <1> QED
    BY <1>1, <1>3, <1>4, <1>5 DEF IInv, EarnedHeld, CommittedHeld

\* A step that spends a request which was answered adds no lapse.
LEMMA SpentWell ==
  ASSUME NEW works \in BOOLEAN, Spend(works)
  PROVE  /\ lapses \subseteq lapses'
         /\ lapses' \subseteq {"reload"} => works /\ ~asleep
  BY DEF Spend

\* What is held of the driver does not change.
LEMMA SameHeld ==
  ASSUME driver' = driver, mem'["host"] = mem["host"]
  PROVE  \A s : /\ Earned(View("host"), s) => Earned(View("host")', s)
                /\ Coherent(View("host")) => Coherent(View("host"))'
  BY DEF View, Earned, Coherent

\* After a move the view is what was written.
LEMMA HostMoved ==
  ASSUME TypeOK, NEW works, NEW s, HostMoves(works, s)
  PROVE  /\ driver'.mode = s.mode /\ driver'.sticky = s.sticky
         /\ mem'["host"].auto = s.auto /\ mem'["host"].seed = s.seed
         /\ mem'["host"].pushed = s.pushed
         /\ Coherent(s) => Coherent(View("host")')
         /\ \A h : Earned(s, h) => Earned(View("host")', h)
  <1>1. /\ driver'.mode = s.mode /\ driver'.sticky = s.sticky
        /\ mem'["host"].auto = s.auto /\ mem'["host"].seed = s.seed
        /\ mem'["host"].pushed = s.pushed
    BY BecomeTyped DEF HostMoves, TypeOK, Processes
  <1>2. View("host")' = [mode |-> driver'.mode, sticky |-> driver'.sticky,
           auto |-> mem'["host"].auto, seed |-> mem'["host"].seed,
           pushed |-> mem'["host"].pushed, off |-> "host" = "host" /\ asleep']
    BY DEF View
  <1> QED
    BY <1>1, <1>2 DEF Coherent, Earned

\* The steps that move to a new phase, or on in one, say nothing of the committed mode.
LEMMA HostHeld ==
  ASSUME IInv, HostAction
  PROVE  /\ CliNoted' /\ EarnedHeld'
         /\ lapses' \subseteq {"untold"} => Coherent(View("host")') /\ lapses \subseteq {"untold"}
  <1>1. PICK works \in BOOLEAN, s \in Views : HostMoves(works, s)
    BY HostSteps DEF IInv
  <1>2. lapses \subseteq lapses' /\ (lapses' \subseteq {"reload"} => works /\ ~asleep)
    BY <1>1, SpentWell DEF HostMoves
  <1>3. CliNoted'
    BY <1>1, <1>2 DEF HostMoves, IInv, CliNoted
  <1>4. EarnedHeld'
    <2> SUFFICES ASSUME lapses' \subseteq {"reload"} PROVE Earned(View("host")', shaken')
      BY DEF EarnedHeld
    <2>1. works /\ ~asleep /\ Earned(View("host"), shaken)
      BY <1>2 DEF IInv, EarnedHeld
    <2> QED
      BY <1>1, <2>1, HostMoved DEF HostMoves, IInv
  <1>5. ASSUME lapses' \subseteq {"untold"}
        PROVE  Coherent(View("host")') /\ lapses \subseteq {"untold"}
    <2>1. lapses \subseteq {"untold"} /\ Coherent(View("host"))
      BY <1>2, <1>5 DEF IInv, CommittedHeld
    <2> QED
      BY <1>1, <2>1, HostMoved DEF HostMoves, IInv
  <1> QED
    BY <1>3, <1>4, <1>5

\* Where each of them leads.
LEMMA HostPlaces ==
  ASSUME TypeOK, HostAction
  PROVE  \/ ~Settled'
         \/ Pick /\ setting /\ att.pc = "pick"
         \/ Restore
  <1>0. att \in Attempts
    BY DEF TypeOK, AttemptOK
  <1>1. CASE Pick
    <2>1. \/ att' \in {Enters("revalidate"), Enters("native"), Enters("tunnel")}
          \/ setting
      <3>1. CASE setting
        BY <3>1
      <3>2. CASE ~setting
        BY <1>1, <3>2 DEF Pick
      <3> QED
        BY <3>1, <3>2
    <2>2. att.pc = "pick"
      BY <1>1 DEF Pick, Now
    <2>3. \A step \in {"revalidate", "native", "tunnel"} : Enters(step).pc = "enter"
      BY EntersTyped
    <2> QED
      BY <1>1, <2>1, <2>2, <2>3 DEF Settled
  <1>2. CASE Enter
    <2>1. PICK f \in BOOLEAN, r \in BOOLEAN, p \in {"leave", "cached"} :
            att' = [att EXCEPT !.over = Transport(att.step), !.res.local = f, !.remembered = r,
                               !.pc = p]
      BY <1>0, <1>2, EnterSets
    <2> QED
      BY <1>0, <2>1 DEF Settled, Attempts
  <1>3. CASE TryCachedBridgePort
    <2>1. PICK ev, ok : att' = AfterCached(ev, ok)
      BY <1>3 DEF TryCachedBridgePort
    <2>2. att'.pc \in {"leave", "scan"}
      BY <1>0, <2>1 DEF AfterCached, Attempts
    <2> QED
      BY <2>2 DEF Settled
  <1>4. CASE ScanFinds
    BY <1>0, <1>4 DEF ScanFinds, Attempts, Settled
  <1>5. CASE ScanFails
    <2>1. PICK alive, ran, silent, blocked : Judge(alive, ran, silent, blocked)
      BY <1>5 DEF ScanFails
    <2>2. PICK x, y, z :
            \/ att' = [att EXCEPT !.pc = "leave", !.res.alive = alive, !.res.silent = x]
            \/ att' = [att EXCEPT !.pc = "leave", !.res.alive = alive, !.res.blocked = x,
                                  !.res.wfp = y, !.res.silent = z]
      BY <2>1 DEF Judge
    <2>3. att'.pc = "leave"
      BY <1>0, <2>2 DEF Attempts
    <2> QED
      BY <2>3 DEF Settled
  <1>6. CASE ConnectFoundPort
    <2>1. PICK ok \in BOOLEAN :
            att' = [att EXCEPT !.pc = "leave", !.res.ok = ok, !.res.alive = TRUE]
      BY <1>6 DEF ConnectFoundPort
    <2> QED
      BY <1>0, <2>1 DEF Settled, Attempts
  <1>7. CASE Restore
    BY <1>7
  <1> QED
    BY <1>1, <1>2, <1>3, <1>4, <1>5, <1>6, <1>7 DEF HostAction

\* Seeding outside a phase changes nothing that the mode depends on.
LEMMA PickSettles ==
  ASSUME IInv, Pick, setting, att.pc = "pick", lapses \subseteq {"untold"}, ~owed
  PROVE  /\ mem'["host"].seed = "no" => ~mem'["host"].auto /\ ~driver'.sticky
         /\ driver'.mode = Mode(mem'["host"].auto)
  <1>1. PICK works \in BOOLEAN : Become("host", Seeded(View("host"), works))
    BY WorksBoolean DEF Pick
  <1> DEFINE s == Seeded(View("host"), works)
  <1>2. /\ s \in Views /\ SameMode(s, View("host")) /\ (View("host").seed # "no" => s = View("host"))
        /\ View("host") \in Views
    BY HostView, SeededKeeps DEF IInv
  <1>3. Become("host", s)
    BY <1>1
  <1>4. /\ mem["host"].seed = "no" => ~mem["host"].auto /\ ~driver.sticky
        /\ driver.mode = Mode(mem["host"].auto)
    BY DEF IInv, CommittedHeld, Settled
  <1>5. View("host").seed = "no" => ~View("host").auto /\ ~View("host").sticky
    BY <1>4 DEF View
  <1>6. s.auto = View("host").auto /\ s.sticky = View("host").sticky
        /\ (s.seed = "no" => View("host").seed = "no")
    BY <1>2, <1>5 DEF Seeded, Views
  <1> HIDE DEF s
  <1>7. /\ mem'["host"].auto = s.auto /\ mem'["host"].seed = s.seed
        /\ driver'.mode = s.mode /\ driver'.sticky = s.sticky
    BY <1>2, <1>3, BecomeTyped DEF IInv, TypeOK, Processes
  <1> QED
    BY <1>2, <1>4, <1>6, <1>7 DEF View, SameMode

\* Leaving a phase, with a driver that answers, seeds the flag and gives it the committed mode.
LEMMA RestoreSettles ==
  ASSUME IInv, Restore, lapses \subseteq {"untold"}, ~owed'
  PROVE  mem'["host"].seed # "no" /\ driver'.mode = Mode(mem'["host"].auto)
  <1>1. PICK works \in BOOLEAN :
          LET s == Seeded(View("host"), works)
          IN  Become("host", Push(s, Mode(s.auto), works)) /\ owed' = (asleep \/ ~works)
    BY WorksBoolean DEF Restore
  <1> DEFINE s == Seeded(View("host"), works)
             r == Push(s, Mode(s.auto), works)
  <1>2. ~asleep /\ works
    BY <1>1
  <1>3. s \in Views /\ s.seed # "no" /\ ~s.off /\ SameMode(s, View("host"))
    BY <1>2, AwakeView, SeededKeeps DEF IInv, SameMode
  <1>4. Become("host", r)
    BY <1>1
  <1>5. Coherent(s)
    BY <1>3, SameCoherent DEF IInv, CommittedHeld
  <1> HIDE DEF s
  <1>6. r \in Views /\ SameFlags(r, s)
    BY <1>3, PushKeeps DEF Mode, Transports
  <1>7. r.mode = Mode(s.auto)
    BY <1>2, <1>3, <1>5 DEF Push, Coherent, Views, Mode, Transports
  <1> HIDE DEF r
  <1>8. /\ mem'["host"].auto = r.auto /\ mem'["host"].seed = r.seed /\ driver'.mode = r.mode
    BY <1>4, <1>6, BecomeTyped DEF IInv, TypeOK, Processes
  <1> QED
    BY <1>3, <1>6, <1>7, <1>8 DEF SameFlags

LEMMA HostInv ==
  ASSUME IInv, HostAction
  PROVE  CliNoted' /\ EarnedHeld' /\ CommittedHeld'
  <1>1. /\ CliNoted' /\ EarnedHeld'
        /\ lapses' \subseteq {"untold"} => Coherent(View("host")') /\ lapses \subseteq {"untold"}
    BY HostHeld
  <1>2. Pick => owed' = owed
    BY DEF Pick
  <1>3. \/ ~Settled' \/ Restore
        \/ Pick /\ setting /\ att.pc = "pick"
    BY HostPlaces DEF IInv
  <1>4. lapses' \subseteq {"untold"} /\ Settled' /\ ~owed' =>
          /\ mem'["host"].seed = "no" => ~mem'["host"].auto /\ ~driver'.sticky
          /\ driver'.mode = Mode(mem'["host"].auto)
    BY <1>1, <1>2, <1>3, PickSettles, RestoreSettles
  <1> QED
    BY <1>1, <1>4 DEF CommittedHeld

\* A step that leaves the driver and the sensor driver's memory of it alone, and does not come
\* out of a phase.
LEMMA QuietInv ==
  ASSUME IInv, driver' = driver, mem'["host"] = mem["host"], shaken' = shaken,
         lapses \subseteq lapses', cli' = "off" \/ cli' = cli \/ "cli" \in lapses',
         Settled' => Settled, owed' = owed
  PROVE  CliNoted' /\ EarnedHeld' /\ CommittedHeld'
  <1>1. /\ Earned(View("host"), shaken) => Earned(View("host")', shaken)
        /\ Coherent(View("host")) => Coherent(View("host"))'
    BY SameHeld
  <1>2. CliNoted'
    BY DEF IInv, CliNoted
  <1>3. EarnedHeld'
    BY <1>1 DEF IInv, EarnedHeld
  <1>4. CommittedHeld'
    BY <1>1 DEF IInv, CommittedHeld
  <1> QED
    BY <1>2, <1>3, <1>4

\* A step after which nothing is assumed of the driver's mode.
LEMMA UnknownInv ==
  ASSUME IInv, driver' = driver, mem'["host"].pushed = "unknown", shaken' = shaken,
         lapses' = lapses, cli' = cli,
         \/ /\ mem'["host"].auto = mem["host"].auto /\ mem'["host"].seed = mem["host"].seed
            /\ Settled' => Settled
            /\ owed' = owed
         \/ ~mem'["host"].auto /\ mem'["host"].seed = "no" /\ owed' = TRUE
  PROVE  CliNoted' /\ EarnedHeld' /\ CommittedHeld'
  <1>1. CliNoted'
    BY DEF IInv, CliNoted
  <1>2. Earned(View("host"), shaken) => Earned(View("host")', shaken)
    BY DEF View, Earned
  <1>3. Coherent(View("host")')
    BY DEF View, Coherent
  <1> QED
    BY <1>1, <1>2, <1>3 DEF IInv, EarnedHeld, CommittedHeld

LEMMA CliInv ==
  ASSUME IInv, CliStart \/ CliConnect
  PROVE  CliNoted' /\ EarnedHeld' /\ CommittedHeld'
  <1>1. "cli" \in lapses'
    BY DEF CliStart, CliConnect, IInv, CliNoted
  <1> QED
    BY <1>1 DEF CliNoted, EarnedHeld, CommittedHeld

LEMMA ReloadInv ==
  ASSUME IInv, Reload
  PROVE  CliNoted' /\ EarnedHeld' /\ CommittedHeld'
  <1>1. /\ driver' = [mode |-> "native", sticky |-> FALSE] /\ mem' = mem /\ shaken' = shaken
        /\ lapses' = lapses \cup {"reload"} /\ cli' = cli
    BY DEF Reload, shared
  <1>2. Earned(View("host"), shaken) => Earned(View("host")', shaken')
    BY <1>1 DEF View, Earned
  <1>3. CliNoted'
    BY <1>1 DEF IInv, CliNoted
  <1> QED
    BY <1>1, <1>2, <1>3 DEF IInv, EarnedHeld, CommittedHeld

LEMMA NextIInv == IInv /\ [Next]_vars => IInv'
  <1> SUFFICES ASSUME IInv, [Next]_vars PROVE IInv'
    OBVIOUS
  <1> USE DEF shared, history
  <1>0. TypeOK' /\ att \in Attempts /\ asleep \in BOOLEAN /\ mem \in [Processes -> Processed]
        /\ "host" \in Processes
    BY WorldStep, HeldStep, ProgressStep, AttemptStep, OwedStep
       DEF IInv, TypeOK, AttemptOK, HeldOK, Processes
  <1> SUFFICES CliNoted' /\ EarnedHeld' /\ CommittedHeld'
    BY <1>0 DEF IInv
  <1>1. CASE HostAction
    BY <1>1, HostInv
  <1>2. CASE Start
    BY <1>0, <1>2, QuietInv DEF Start, Settled
  <1>3. CASE Gate
    BY <1>0, <1>3, QuietInv DEF Gate, Settled, Now
  <1>4. CASE ScanCools
    <2>1. att'.pc = "leave"
      BY <1>0, <1>4 DEF ScanCools, Judge, Attempts
    <2> QED
      BY <1>0, <1>4, <2>1, QuietInv DEF ScanCools, Settled
  <1>5. CASE Connected \/ Continue
    BY <1>0, <1>5, QuietInv DEF Connected, Continue, Settled, Now
  <1>6. CASE GiveUp
    <2>1. CASE mem' = mem
      BY <1>0, <1>6, <2>1, QuietInv DEF GiveUp, Settled, Now
    <2>2. CASE mem' = [mem EXCEPT !["host"].pushed = "unknown"]
      <3>1. mem'["host"].pushed = "unknown" /\ mem'["host"].auto = mem["host"].auto
            /\ mem'["host"].seed = mem["host"].seed
        BY <1>0, <2>2 DEF Processed
      <3>2. Settled
        BY <1>6 DEF GiveUp, Settled, Now
      <3> QED
        BY <1>6, <3>1, <3>2, UnknownInv DEF GiveUp
    <2> QED
      BY <1>6, <2>1, <2>2 DEF GiveUp
  <1>7. CASE CooldownEnds \/ NetChanges \/ SettingChanges \/ Unlock
    BY <1>0, <1>7, QuietInv DEF CooldownEnds, NetChanges, SettingChanges, Unlock, Settled
  <1>8. CASE Suspend \/ Cancel
    <2>1. Settled' => Settled
      BY <1>0, <1>8 DEF Suspend, Cancel, Cancelled, Settled, Now, Attempts
    <2> QED
      BY <1>0, <1>8, <2>1, QuietInv DEF Suspend, Cancel
  <1>9. CASE Resume
    <2>1. mem'["host"].pushed = "unknown" /\ mem'["host"].auto = mem["host"].auto
          /\ mem'["host"].seed = mem["host"].seed
      BY <1>0, <1>9 DEF Resume, Processed
    <2>2. driver' = driver /\ att' = att /\ cli' = cli
      BY <1>9 DEF Resume
    <2>3. shaken' = shaken /\ lapses' = lapses /\ owed' = owed
      BY <1>9 DEF Resume
    <2>4. Settled' => Settled
      BY <2>2 DEF Settled
    <2> QED
      BY <2>1, <2>2, <2>3, <2>4, UnknownInv
  <1>10. CASE Restart
    <2>1. mem'["host"] = FreshProcess
      BY <1>0, <1>10 DEF Restart
    <2>2. /\ mem'["host"].pushed = "unknown" /\ ~mem'["host"].auto
          /\ mem'["host"].seed = "no"
      BY <2>1 DEF FreshProcess
    <2>3. driver' = driver /\ cli' = cli /\ shaken' = shaken /\ lapses' = lapses /\ owed' = TRUE
      BY <1>10 DEF Restart
    <2> QED
      BY <2>2, <2>3, UnknownInv
  <1>11. CASE Reload
    BY <1>11, ReloadInv
  <1>12. CASE CliStart \/ CliConnect
    BY <1>12, CliInv
  <1>13. CASE UNCHANGED vars
    BY <1>0, <1>13, QuietInv DEF vars, Settled
  <1> QED
    BY <1>1, <1>2, <1>3, <1>4, <1>5, <1>6, <1>7, <1>8, <1>9, <1>10, <1>11, <1>12, <1>13
       DEF Next, Attempt, Surroundings, HostAction

LEMMA Inductive == Spec => []IInv
  BY InitIInv, NextIInv, PTL DEF Spec

\* Between the phases the driver is in the committed mode if the last request of the last phase
\* was carried out, whatever failed, slept, died or was distrusted before, as long as only the
\* sensor driver writes the driver's memory.
THEOREM PhaseEndsAlways == Spec => []PhaseEndsCommitted
  <1>1. IInv => PhaseEndsCommitted
    <2> SUFFICES ASSUME IInv, lapses \subseteq {"untold"}, ~owed, Resting
                 PROVE  driver.mode = Mode(mem["host"].auto)
      BY DEF PhaseEndsCommitted, ModeIsCommitted
    <2>1. Settled
      BY DEF Resting, Settled
    <2> QED
      BY <2>1 DEF IInv, CommittedHeld
  <1> QED
    BY <1>1, Inductive, PTL

\* The sensor driver holds the tunnel only on the strength of a tunnel handshake that no native
\* one has followed.
THEOREM StickyEarnedAlways == Spec => []StickyEarned
  <1>1. IInv => StickyEarned
    BY DEF IInv, EarnedHeld, Earned, View, StickyEarned
  <1> QED
    BY <1>1, Inductive, PTL

-----------------------------------------------------------------------------
(* Why the tunnel is committed to.                                          *)

\* In this attempt IPv6 was unusable or a request failed, or somebody else wrote the flag.
Caused == cause \/ lapses \cap {"reload", "cli"} # {}

Running == att.pc \notin {"idle", "retry"}

\* What an attempt goes by is of its own making: the verdict on IPv6, the blocked path, and
\* the step that leads to the tunnel.
Unusable == Running /\ ~NativeUsable => cause
Verdict  == att.pc = "pick" /\ seen.v6 => cause
Asleep   == /\ asleep /\ att.pc # "idle" => att.cancelled
            /\ att.pc = "retry" => ~att.cancelled
Fresh    == att.pc \in {"gate", "pick"} => att.step = "none" /\ att.res = NoResult
Found    == Running /\ att.res.ok => att.pc \in {"leave", "decide"}
Blocked  == Running /\ att.res.blocked => Caused \/ att.cancelled
Tunnels  == Running /\ att.step \in {"revalidate", "tunnel"}
              => Caused \/ mem["host"].auto \/ att.res.ok

WhyInv == IInv /\ Unusable /\ Verdict /\ Asleep /\ Fresh /\ Found /\ Blocked /\ Tunnels

LEMMA SeededAuto ==
  ASSUME NEW s \in Views, NEW works \in BOOLEAN
  PROVE  /\ s.auto => Seeded(s, works).auto
         /\ ~s.sticky => Seeded(s, works).auto = s.auto
  BY DEF Seeded, Views

LEMMA NativeCommits ==
  ASSUME NEW s \in Views, NEW works \in BOOLEAN
  PROVE  CommitAutoTunnel(s, FALSE, works).auto = FALSE
  <1> DEFINE t == Seeded(s, works)
             u == [t EXCEPT !.auto = FALSE]
  <1>1. t \in Views
    BY SeededKeeps
  <1> HIDE DEF t
  <1>2. u \in Views /\ u.auto = FALSE
    BY <1>1 DEF Views
  <1> HIDE DEF u
  <1>3. PushSticky(u, FALSE, works).auto = FALSE
    BY <1>2 DEF PushSticky, Views
  <1>4. CommitAutoTunnel(s, FALSE, works) = IF t.auto = FALSE THEN t ELSE PushSticky(u, FALSE, works)
    BY DEF CommitAutoTunnel, t, u
  <1> QED
    BY <1>3, <1>4

\* What becomes of the process's copy of the flag.
LEMMA BecomeAuto ==
  ASSUME TypeOK, NEW s \in Views, Become("host", s)
  PROVE  mem'["host"].auto = s.auto
  BY BecomeTyped DEF TypeOK, Processes

LEMMA HostAuto ==
  ASSUME TypeOK
  PROVE  View("host") \in Views /\ View("host").auto = mem["host"].auto
         /\ View("host").sticky = driver.sticky
  BY HostView DEF View

LEMMA PickAuto ==
  ASSUME TypeOK, Pick
  PROVE  LET noV6 == setting /\ seen.v6
         IN  /\ ~driver.sticky => (mem'["host"].auto => mem["host"].auto)
             /\ \/ att' = [att EXCEPT !.pc = "idle"]
                \/ att' \in {Enters("revalidate"), Enters("tunnel")}
                   /\ (mem'["host"].auto \/ noV6)
                \/ att' = Enters("native")
  <1>1. PICK works \in BOOLEAN :
          LET s == Seeded(View("host"), works)
              t == IF setting THEN s ELSE CommitAutoTunnel(s, FALSE, works)
              sticky == setting /\ t.auto
              noV6 == setting /\ seen.v6
          IN  /\ Become("host", t)
              /\ att' = IF sticky /\ ~noV6 /\ recheck /\ ~att.cancelled THEN Enters("revalidate")
                        ELSE IF ~sticky /\ ~noV6 THEN Enters("native")
                        ELSE IF att.cancelled THEN [att EXCEPT !.pc = "idle"]
                        ELSE Enters("tunnel")
    BY WorksBoolean DEF Pick
  <1> DEFINE s == Seeded(View("host"), works)
             t == IF setting THEN s ELSE CommitAutoTunnel(s, FALSE, works)
  <1>2. s \in Views /\ (~driver.sticky => s.auto = mem["host"].auto)
    BY HostAuto, SeededKeeps, SeededAuto
  <1>3. t \in Views /\ (~setting => t.auto = FALSE) /\ (setting => t = s)
    BY <1>2, CommitKeeps, NativeCommits
  <1>4. mem'["host"].auto = t.auto
    BY <1>1, <1>3, BecomeAuto
  <1>5. ~driver.sticky => (mem'["host"].auto => mem["host"].auto)
    <2>1. CASE setting
      BY <1>2, <1>3, <1>4, <2>1
    <2>2. CASE ~setting
      BY <1>3, <1>4, <2>2
    <2> QED
      BY <2>1, <2>2
  <1> HIDE DEF t
  <1>6. att' = IF setting /\ t.auto /\ ~(setting /\ seen.v6) /\ recheck /\ ~att.cancelled
               THEN Enters("revalidate")
               ELSE IF ~(setting /\ t.auto) /\ ~(setting /\ seen.v6) THEN Enters("native")
               ELSE IF att.cancelled THEN [att EXCEPT !.pc = "idle"]
               ELSE Enters("tunnel")
    BY <1>1 DEF t
  <1> HIDE DEF s
  <1>7. \/ att' = [att EXCEPT !.pc = "idle"]
        \/ att' \in {Enters("revalidate"), Enters("tunnel")}
           /\ (t.auto \/ (setting /\ seen.v6))
        \/ att' = Enters("native")
    BY <1>6 DEF Enters
  <1> QED
    BY <1>4, <1>5, <1>7

LEMMA PushAuto ==
  ASSUME TypeOK, att.over \in Transports, ScanFinds \/ ScanFails
  PROVE  mem'["host"].auto = mem["host"].auto
  <1>1. \E works \in BOOLEAN, want \in Transports : Become("host", Push(View("host"), want, works))
    <2>2. CASE ScanFinds
      <3>1. PICK works \in BOOLEAN : Become("host", Push(View("host"), att.over, works))
        BY <2>2, WorksBoolean DEF ScanFinds
      <3> QED
        BY <3>1
    <2>3. CASE ScanFails
      <3>1. PICK works \in BOOLEAN : Become("host", Push(View("host"), att.over, works))
        BY <2>3, WorksBoolean DEF ScanFails
      <3> QED
        BY <3>1
    <2> QED
      BY <2>2, <2>3
  <1>2. PICK works \in BOOLEAN, want \in Transports : Become("host", Push(View("host"), want, works))
    BY <1>1
  <1>3. Push(View("host"), want, works) \in Views
        /\ Push(View("host"), want, works).auto = mem["host"].auto
    BY HostAuto, PushKeeps DEF SameFlags
  <1> QED
    BY <1>2, <1>3, BecomeAuto

LEMMA EnterAuto ==
  ASSUME TypeOK, Enter
  PROVE  mem'["host"].auto = mem["host"].auto
  <1>1. PICK works \in BOOLEAN, again \in BOOLEAN : Become("host", EnterView(works, again))
    BY WorksBoolean DEF Enter, EnterView
  <1>2. EnterView(works, again) \in Views /\ EnterView(works, again).auto = mem["host"].auto
    BY HostAuto, EnterViewKeeps DEF SameFlags
  <1> QED
    BY <1>1, <1>2, BecomeAuto

LEMMA RestoreAuto ==
  ASSUME TypeOK, Restore
  PROVE  /\ mem["host"].auto => mem'["host"].auto
         /\ ~driver.sticky => mem'["host"].auto = mem["host"].auto
  <1>1. PICK works \in BOOLEAN :
          LET s == Seeded(View("host"), works)
          IN  Become("host", Push(s, Mode(s.auto), works))
    BY WorksBoolean DEF Restore
  <1> DEFINE s == Seeded(View("host"), works)
             r == Push(s, Mode(s.auto), works)
  <1>2. /\ s \in Views /\ (mem["host"].auto => s.auto)
        /\ ~driver.sticky => s.auto = mem["host"].auto
    BY HostAuto, SeededKeeps, SeededAuto
  <1>3. Become("host", r)
    BY <1>1
  <1> HIDE DEF s
  <1>4. r \in Views /\ r.auto = s.auto
    BY <1>2, PushKeeps DEF Mode, Transports, SameFlags
  <1> HIDE DEF r
  <1> QED
    BY <1>2, <1>3, <1>4, BecomeAuto

\* A dialled view keeps its flags, and a handshake over native IPv6 clears them.
LEMMA DialAuto ==
  ASSUME TypeOK, NEW t \in Transports, NEW works \in BOOLEAN
  PROVE  LET d == Dialling(View("host"), t, works)
         IN  /\ d \in Views /\ d.auto = mem["host"].auto
             /\ Succeeded(d, t, works) \in Views
             /\ t = "native" => Succeeded(d, t, works).auto = FALSE
             /\ \A ev : Dialled(d, t, ev) \in Views /\ Dialled(d, t, ev).auto = mem["host"].auto
  <1> DEFINE d == Dialling(View("host"), t, works)
  <1>1. d \in Views /\ d.auto = mem["host"].auto
    BY HostAuto, PushKeeps DEF Dialling, SameFlags
  <1> HIDE DEF d
  <1>2. Succeeded(d, t, works) \in Views
    BY <1>1, SucceededKeeps
  <1>3. t = "native" => Succeeded(d, t, works).auto = FALSE
    <2>1. t = "native" => Succeeded(d, t, works) = CommitAutoTunnel(d, FALSE, works)
      BY DEF Succeeded
    <2> QED
      BY <1>1, <2>1, NativeCommits
  <1>4. \A ev : Dialled(d, t, ev) \in Views /\ Dialled(d, t, ev).auto = mem["host"].auto
    BY <1>1, DialledKeeps DEF SameFlags
  <1> QED
    BY <1>1, <1>2, <1>3, <1>4 DEF d

\* What a connect may yield.
Answers == {"Ok", "Refused", "Positive", "Silent", "Blocked", "LocalError"}

LEMMA CachedAuto ==
  ASSUME TypeOK, TryCachedBridgePort
  PROVE  \E ok \in BOOLEAN, ev \in Answers :
           /\ att' = AfterCached(ev, ok)
           /\ ev = "Blocked" => net.filter = "wfp"
           /\ ~ok => mem'["host"].auto = mem["host"].auto
           /\ ok /\ Transport(att.step) = "native" => ~mem'["host"].auto
  <1> DEFINE t == Transport(att.step)
  <1>0. t \in Transports
    BY DEF Transport, Transports
  <1>1. PICK works \in BOOLEAN :
          LET d == Dialling(View("host"), t, works)
          IN  \E ev \in IF cache = NoPort THEN {"LocalError"} ELSE Evidence(d, t, cache.svc) :
                LET ok == ev = "Ok" \/ Replayed(t, d.mode, ev)
                    s == IF cache = NoPort THEN View("host") ELSE Dialled(d, t, ev)
                IN  Become("host", IF ok THEN Succeeded(d, t, works) ELSE s)
                    /\ att' = AfterCached(ev, ok)
    BY WorksBoolean DEF TryCachedBridgePort
  <1> DEFINE d == Dialling(View("host"), t, works)
  <1>2. PICK ev \in IF cache = NoPort THEN {"LocalError"} ELSE Evidence(d, t, cache.svc) :
          LET ok == ev = "Ok" \/ Replayed(t, d.mode, ev)
              s == IF cache = NoPort THEN View("host") ELSE Dialled(d, t, ev)
          IN  Become("host", IF ok THEN Succeeded(d, t, works) ELSE s)
              /\ att' = AfterCached(ev, ok)
    BY <1>1
  <1>3. /\ Succeeded(d, t, works) \in Views
        /\ t = "native" => Succeeded(d, t, works).auto = FALSE
        /\ Dialled(d, t, ev) \in Views /\ Dialled(d, t, ev).auto = mem["host"].auto
    BY <1>0, DialAuto
  <1>4. ev \in Answers /\ (ev = "Blocked" => net.filter = "wfp")
    BY <1>2 DEF Evidence, Dial, Answers
  <1> DEFINE ok == ev = "Ok" \/ Replayed(t, d.mode, ev)
  <1>5. ok \in BOOLEAN /\ att' = AfterCached(ev, ok)
    BY <1>2
  <1>6. CASE ok
    <2>1. Become("host", Succeeded(d, t, works))
      BY <1>2, <1>6
    <2> HIDE DEF d, t
    <2>2. mem'["host"].auto = Succeeded(d, t, works).auto
      BY <1>3, <2>1, BecomeAuto
    <2>3. t = "native" => ~mem'["host"].auto
      BY <1>3, <2>2
    <2>4. Transport(att.step) = "native" => ~mem'["host"].auto
      BY <2>3 DEF t
    <2> HIDE DEF ok
    <2> QED
      BY <1>4, <1>5, <1>6, <2>4
  <1>7. CASE ~ok
    <2>1. Become("host", View("host")) \/ Become("host", Dialled(d, t, ev))
      BY <1>2, <1>7
    <2> HIDE DEF d, t
    <2>2. mem'["host"].auto = mem["host"].auto
      BY <1>3, <2>1, HostAuto, BecomeAuto
    <2> HIDE DEF ok
    <2> QED
      BY <1>4, <1>5, <1>7, <2>2
  <1> QED
    BY <1>6, <1>7

LEMMA FoundAuto ==
  ASSUME TypeOK, ConnectFoundPort
  PROVE  \E ok \in BOOLEAN :
           /\ att' = [att EXCEPT !.pc = "leave", !.res.ok = ok, !.res.alive = TRUE]
           /\ ~ok => mem'["host"].auto = mem["host"].auto
           /\ ok /\ Transport(att.step) = "native" => ~mem'["host"].auto
  <1> DEFINE t == Transport(att.step)
  <1>0. t \in Transports
    BY DEF Transport, Transports
  <1>1. PICK works \in BOOLEAN :
          LET d == Dialling(View("host"), t, works)
          IN  \E ev \in Evidence(d, t, cache.svc) :
                /\ Become("host", IF ev = "Ok" THEN Succeeded(d, t, works) ELSE Dialled(d, t, ev))
                /\ att' = [att EXCEPT !.pc = "leave", !.res.ok = ev = "Ok", !.res.alive = TRUE]
    BY WorksBoolean DEF ConnectFoundPort
  <1> DEFINE d == Dialling(View("host"), t, works)
  <1>2. PICK ev : /\ Become("host", IF ev = "Ok" THEN Succeeded(d, t, works) ELSE Dialled(d, t, ev))
                  /\ att' = [att EXCEPT !.pc = "leave", !.res.ok = ev = "Ok", !.res.alive = TRUE]
    BY <1>1
  <1>3. /\ Succeeded(d, t, works) \in Views
        /\ t = "native" => Succeeded(d, t, works).auto = FALSE
        /\ Dialled(d, t, ev) \in Views /\ Dialled(d, t, ev).auto = mem["host"].auto
    BY <1>0, DialAuto
  <1> DEFINE ok == ev = "Ok"
  <1>4. ok \in BOOLEAN /\ att' = [att EXCEPT !.pc = "leave", !.res.ok = ok, !.res.alive = TRUE]
    BY <1>2
  <1>5. CASE ok
    <2>1. Become("host", Succeeded(d, t, works))
      BY <1>2, <1>5
    <2> HIDE DEF d, t
    <2>2. t = "native" => ~mem'["host"].auto
      BY <1>3, <2>1, BecomeAuto
    <2> QED
      BY <1>4, <1>5, <2>2 DEF t
  <1>6. CASE ~ok
    <2>1. Become("host", Dialled(d, t, ev))
      BY <1>2, <1>6
    <2> HIDE DEF d, t
    <2>2. mem'["host"].auto = mem["host"].auto
      BY <1>3, <2>1, BecomeAuto
    <2> QED
      BY <1>4, <1>6, <2>2
  <1> QED
    BY <1>5, <1>6

LEMMA CauseGrows ==
  ASSUME TypeOK, [Next]_vars, ~Start
  PROVE  /\ cause => cause'
         /\ lapses \subseteq lapses'
         /\ Caused => Caused'
         /\ net' = net \/ NetChanges
  <1> USE DEF registry, shared, history, progress
  <1>1. CASE Pick \/ Enter \/ TryCachedBridgePort \/ ScanFinds \/ ScanFails \/ ConnectFoundPort
             \/ Restore
    <2>1. PICK works : Spend(works)
      BY <1>1 DEF Pick, Enter, TryCachedBridgePort, ScanFinds, ScanFails, ConnectFoundPort, Restore
    <2>2. net' = net
      BY <1>1 DEF Pick, Enter, TryCachedBridgePort, ScanFinds, ScanFails, ConnectFoundPort, Restore
    <2>3. cause => cause'
      BY <2>1, Zenon DEF Spend
    <2>4. lapses \subseteq lapses'
      BY <2>1 DEF Spend
    <2> QED
      BY <2>2, <2>3, <2>4 DEF Caused
  <1>2. CASE Gate \/ ScanCools \/ Connected \/ Continue \/ GiveUp \/ CooldownEnds
    <2>1. UNCHANGED history /\ net' = net
      BY <1>2 DEF Gate, ScanCools, Connected, Continue, GiveUp, CooldownEnds
    <2> QED
      BY <2>1, Zenon DEF Caused
  <1>3. CASE SettingChanges \/ Unlock \/ Suspend \/ Resume \/ Cancel \/ Restart \/ UNCHANGED vars
    <2>1. UNCHANGED <<cause, lapses, net>>
      BY <1>3 DEF SettingChanges, Unlock, Suspend, Resume, Cancel, Restart, vars
    <2> QED
      BY <2>1, Zenon DEF Caused
  <1>4. CASE Reload \/ CliStart \/ CliConnect
    <2>1. UNCHANGED <<cause, net>> /\ lapses \subseteq lapses'
      BY <1>4 DEF Reload, CliStart, CliConnect
    <2> QED
      BY <2>1 DEF Caused
  <1>5. CASE NetChanges
    <2>1. lapses' = lapses
      BY <1>5 DEF NetChanges
    <2>2. cause => cause'
      BY <1>5, Zenon DEF NetChanges
    <2> QED
      BY <1>5, <2>1, <2>2 DEF Caused
  <1> QED
    BY <1>1, <1>2, <1>3, <1>4, <1>5 DEF Next, Attempt, Surroundings

\* What the steps of an attempt leave as it is.
LEMMA UnusableStays ==
  ASSUME TypeOK, [Next]_vars, ~Start, Unusable, net' = net, Running' => Running
  PROVE  Unusable'
  BY CauseGrows DEF Unusable, NativeUsable

\* Nothing that the attempt goes by has moved.
LEMMA AttemptStays ==
  ASSUME WhyInv, [Next]_vars, ~Start, net' = net,
         att'.pc = att.pc, att'.step = att.step, att'.res = att.res,
         att.cancelled => att'.cancelled, att'.pc = "retry" => att'.cancelled = att.cancelled,
         asleep' => asleep, seen'.v6 => seen.v6, mem'["host"].auto = mem["host"].auto
  PROVE  Unusable' /\ Verdict' /\ Asleep' /\ Fresh' /\ Found' /\ Blocked' /\ Tunnels'
  <1>0. TypeOK
    BY DEF WhyInv, IInv
  <1>1. (Caused => Caused') /\ (cause => cause')
    BY <1>0, CauseGrows
  <1>2. Unusable'
    BY <1>0, UnusableStays DEF WhyInv, Running
  <1>3. Verdict' /\ Fresh' /\ Found'
    BY <1>1 DEF WhyInv, Verdict, Fresh, Found, Running
  <1>4. Asleep'
    BY DEF WhyInv, Asleep
  <1>5. Blocked' /\ Tunnels'
    BY <1>1 DEF WhyInv, Blocked, Tunnels, Running
  <1> QED
    BY <1>2, <1>3, <1>4, <1>5

\* The attempt is over.
LEMMA AttemptEnds ==
  ASSUME att'.pc = "idle" \/ (att'.pc = "retry" /\ ~att'.cancelled /\ ~asleep')
  PROVE  Unusable' /\ Verdict' /\ Asleep' /\ Fresh' /\ Found' /\ Blocked' /\ Tunnels'
  BY DEF Unusable, Verdict, Asleep, Fresh, Found, Blocked, Tunnels, Running

LEMMA QuietWhy ==
  ASSUME WhyInv, [Next]_vars,
         \/ SettingChanges \/ CooldownEnds \/ Unlock \/ Resume \/ CliStart \/ CliConnect \/ Reload
         \/ UNCHANGED vars,
         ~Start
  PROVE  Unusable' /\ Verdict' /\ Asleep' /\ Fresh' /\ Found' /\ Blocked' /\ Tunnels'
  <1> USE DEF registry, shared, history, progress
  <1>0. TypeOK /\ att \in Attempts /\ seen \in Verdicts /\ mem \in [Processes -> Processed]
        /\ "host" \in Processes
    BY DEF WhyInv, IInv, TypeOK, AttemptOK, ProgressOK, HeldOK, Processes
  <1>1. CASE SettingChanges \/ CooldownEnds \/ UNCHANGED vars
    BY <1>1, AttemptStays DEF SettingChanges, CooldownEnds, vars
  <1>2. CASE Unlock
    BY <1>0, <1>2, AttemptStays DEF Unlock, Verdicts
  <1>3. CASE Resume
    <2>1. mem'["host"].auto = mem["host"].auto /\ asleep' = FALSE
      BY <1>0, <1>3 DEF Resume, Processed
    <2> QED
      BY <1>3, <2>1, AttemptStays DEF Resume
  <1>4. CASE CliStart \/ CliConnect
    <2>1. mem'["host"] = mem["host"]
      <3>1. PICK s : Become("cli", s)
        BY <1>0, <1>4, CliMoves
      <3> QED
        BY <1>0, <3>1 DEF Become
    <2>2. UNCHANGED <<net, asleep, seen, att>>
      BY <1>4 DEF CliStart, CliConnect
    <2> QED
      BY <2>1, <2>2, AttemptStays
  <1>5. CASE Reload
    <2>1. /\ att'.pc = att.pc /\ att'.step = att.step /\ att'.res = att.res
          /\ att'.cancelled = att.cancelled
      BY <1>0, <1>5 DEF Reload, Attempts
    <2> QED
      BY <1>5, <2>1, AttemptStays DEF Reload
  <1> QED
    BY <1>1, <1>2, <1>3, <1>4, <1>5

LEMMA NetWhy ==
  ASSUME WhyInv, [Next]_vars, NetChanges, ~Start
  PROVE  Unusable' /\ Verdict' /\ Asleep' /\ Fresh' /\ Found' /\ Blocked' /\ Tunnels'
  <1> USE DEF shared, progress
  <1>1. TypeOK /\ UNCHANGED <<att, mem, asleep, seen>>
    BY DEF WhyInv, IInv, NetChanges
  <1>2. (Caused => Caused') /\ (cause => cause')
    BY <1>1, CauseGrows
  <1>3. ~NativeUsable' => cause'
    <2>1. PICK n : net' = n /\ cause' = (cause \/ n.filter # "none" \/ n.v6 # "ready" \/ n.t2 # "up")
      BY DEF NetChanges
    <2>2. CASE NativeUsable'
      BY <2>2
    <2>3. CASE ~NativeUsable'
      <3>1. n.filter # "none" \/ n.v6 # "ready" \/ n.t2 # "up"
        BY <2>1, <2>3 DEF NativeUsable
      <3> QED
        BY <2>1, <3>1, Zenon
    <2> QED
      BY <2>2, <2>3
  <1>4. Unusable'
    BY <1>3 DEF Unusable
  <1>5. Verdict' /\ Asleep' /\ Fresh' /\ Found' /\ Blocked' /\ Tunnels'
    BY <1>1, <1>2 DEF WhyInv, Verdict, Asleep, Fresh, Found, Blocked, Tunnels, Running
  <1> QED
    BY <1>4, <1>5

LEMMA CancelWhy ==
  ASSUME WhyInv, [Next]_vars, Suspend \/ Cancel, ~Start
  PROVE  Unusable' /\ Verdict' /\ Asleep' /\ Fresh' /\ Found' /\ Blocked' /\ Tunnels'
  <1> USE DEF registry, shared, history, progress
  <1>1. TypeOK /\ att \in Attempts /\ seen \in Verdicts
    BY DEF WhyInv, IInv, TypeOK, AttemptOK, ProgressOK
  <1>2. (Caused => Caused') /\ (cause => cause')
    BY <1>1, CauseGrows
  <1>3. /\ UNCHANGED <<net, mem>> /\ (seen'.v6 => seen.v6)
        /\ att' = Cancelled
    BY DEF Suspend, Cancel, NewGeneration, FreshSeen
  <1>4. CASE Now("idle")
    BY <1>3, <1>4, AttemptEnds DEF Cancelled, Now
  <1>5. CASE ~Now("idle")
    <2>1. /\ att'.cancelled /\ att'.step = att.step /\ att'.res = att.res
          /\ att'.pc = IF att.pc = "retry" THEN "idle" ELSE att.pc
      BY <1>1, <1>3, <1>5 DEF Cancelled, Attempts
    <2>2. CASE att.pc = "retry"
      BY <2>1, <2>2, AttemptEnds
    <2>3. CASE att.pc # "retry"
      <3>1. Unusable'
        BY <1>1, <1>3, <2>1, <2>3, UnusableStays DEF WhyInv, Running
      <3>2. Verdict' /\ Asleep' /\ Fresh' /\ Found' /\ Blocked' /\ Tunnels'
        BY <1>2, <1>3, <2>1, <2>3
           DEF WhyInv, Verdict, Asleep, Fresh, Found, Blocked, Tunnels, Running
      <3> QED
        BY <3>1, <3>2
    <2> QED
      BY <2>2, <2>3
  <1> QED
    BY <1>4, <1>5

LEMMA StartWhy ==
  ASSUME WhyInv, Start
  PROVE  Unusable' /\ Verdict' /\ Asleep' /\ Fresh' /\ Found' /\ Blocked' /\ Tunnels'
  <1>1. att' = [NoAttempt EXCEPT !.pc = "gate", !.moved = att.moved]
    BY DEF Start
  <1>2. att'.pc = "gate" /\ att'.step = "none" /\ att'.res = NoResult /\ ~att'.cancelled
    BY <1>1 DEF NoAttempt
  <1>3. ~asleep /\ asleep' = asleep /\ net' = net /\ cause' = ~NativeUsable
    BY DEF Start, WhyInv, Asleep
  <1>4. Unusable'
    BY <1>3 DEF Unusable, NativeUsable
  <1>5. ~NoResult.ok /\ ~NoResult.blocked
    BY DEF NoResult
  <1> QED
    BY <1>2, <1>3, <1>4, <1>5
       DEF Verdict, Asleep, Fresh, Found, Blocked, Tunnels, Running

LEMMA EndWhy ==
  ASSUME WhyInv, Connected \/ GiveUp \/ Restart
  PROVE  Unusable' /\ Verdict' /\ Asleep' /\ Fresh' /\ Found' /\ Blocked' /\ Tunnels'
  <1> USE DEF shared
  <1>1. CASE Connected
    <2>1. att'.pc = "idle"
      BY <1>1 DEF Connected, NoAttempt
    <2> QED
      BY <2>1, AttemptEnds
  <1>2. CASE Restart
    <2>1. att'.pc = "idle"
      BY <1>2 DEF Restart, NoAttempt
    <2> QED
      BY <2>1, AttemptEnds
  <1>3. CASE GiveUp
    <2>1. att'.pc = Over /\ ~att'.cancelled /\ asleep' = asleep
      BY <1>3 DEF GiveUp, NoAttempt
    <2>2. att.pc = "decide"
      BY <1>3 DEF GiveUp, Now
    <2>3. att.cancelled \/ ~asleep
      BY <2>2 DEF WhyInv, Asleep
    <2> QED
      BY <2>1, <2>3, AttemptEnds DEF Over
  <1> QED
    BY <1>1, <1>2, <1>3

LEMMA GateWhy ==
  ASSUME WhyInv, [Next]_vars, Gate, ~Start
  PROVE  Unusable' /\ Verdict' /\ Asleep' /\ Fresh' /\ Found' /\ Blocked' /\ Tunnels'
  <1> USE DEF registry, shared, history, progress
  <1>0. TypeOK /\ att \in Attempts /\ att.pc = "gate" /\ att.step = "none" /\ att.res = NoResult
    BY DEF WhyInv, IInv, TypeOK, AttemptOK, Gate, Now, Fresh
  <1>1. PICK r, p : /\ att' = [att EXCEPT !.moved = FALSE, !.remembered = r, !.pc = p]
                    /\ p \in {Over, "pick"}
    BY DEF Gate
  <1>2. /\ att'.pc = p /\ att'.step = att.step /\ att'.res = att.res
        /\ att'.cancelled = att.cancelled
    BY <1>0, <1>1 DEF Attempts
  <1>3. UNCHANGED <<net, mem, asleep, cause, lapses>>
    BY DEF Gate
  <1>4. CASE p = Over
    <2>1. att.cancelled \/ ~asleep
      BY <1>0 DEF WhyInv, Asleep
    <2> QED
      BY <1>2, <1>3, <1>4, <2>1, AttemptEnds DEF Over
  <1>5. CASE p = "pick"
    <2>1. Unusable'
      BY <1>0, <1>2, <1>3, <1>5, UnusableStays DEF WhyInv, Running
    <2>2. seen'.v6 => net.v6 # "ready"
      <3>1. CASE GateReady /\ UNCHANGED <<seen, scan>>
        BY <3>1 DEF GateReady
      <3>2. CASE seen' = [gate |-> GateOutcome = "ready" \/ (~att.moved /\ seen.gate),
                          v6 |-> GateOutcome = "none",
                          silent |-> IF att.moved THEN 0 ELSE seen.silent]
        BY <3>2 DEF GateOutcome
      <3> QED
        BY <3>1, <3>2 DEF Gate
    <2>3. Verdict'
      BY <1>2, <1>3, <1>5, <2>1, <2>2 DEF Verdict, Unusable, Running, NativeUsable
    <2>4. ~NoResult.ok /\ ~NoResult.blocked
      BY DEF NoResult
    <2>5. Asleep' /\ Fresh' /\ Found' /\ Blocked' /\ Tunnels'
      BY <1>0, <1>2, <1>3, <1>5, <2>4
         DEF WhyInv, Asleep, Fresh, Found, Blocked, Tunnels, Running
    <2> QED
      BY <2>1, <2>3, <2>5
  <1> QED
    BY <1>1, <1>4, <1>5

LEMMA PickWhy ==
  ASSUME WhyInv, [Next]_vars, Pick, ~Start
  PROVE  Unusable' /\ Verdict' /\ Asleep' /\ Fresh' /\ Found' /\ Blocked' /\ Tunnels'
  <1> USE DEF registry, shared, history, progress
  <1>0. TypeOK /\ att \in Attempts /\ att.pc = "pick"
    BY DEF WhyInv, IInv, TypeOK, AttemptOK, Pick, Now
  <1>1. UNCHANGED <<net, asleep>>
    BY DEF Pick
  <1>2. \/ att' = [att EXCEPT !.pc = "idle"]
        \/ att' \in {Enters("revalidate"), Enters("tunnel")}
           /\ (mem'["host"].auto \/ (setting /\ seen.v6))
        \/ att' = Enters("native")
    BY <1>0, PickAuto
  <1>3. CASE att' = [att EXCEPT !.pc = "idle"]
    <2>1. att'.pc = "idle"
      BY <1>0, <1>3 DEF Attempts
    <2> QED
      BY <2>1, AttemptEnds
  <1>4. ASSUME NEW step \in {"revalidate", "native", "tunnel"}, att' = Enters(step),
               step # "native" => mem'["host"].auto \/ seen.v6
        PROVE  Unusable' /\ Verdict' /\ Asleep' /\ Fresh' /\ Found' /\ Blocked' /\ Tunnels'
    <2>1. /\ att'.pc = "enter" /\ att'.step = step /\ att'.res = NoResult
          /\ att'.cancelled = att.cancelled
      BY <1>0, <1>4 DEF Enters, Attempts
    <2>2. ~NoResult.ok /\ ~NoResult.blocked
      BY DEF NoResult
    <2>3. Unusable'
      BY <1>0, <1>1, <2>1, UnusableStays DEF WhyInv, Running
    <2>4. seen.v6 => Caused'
      BY <1>0, CauseGrows DEF WhyInv, Verdict, Caused
    <2> QED
      BY <1>0, <1>1, <1>4, <2>1, <2>2, <2>3, <2>4
         DEF WhyInv, Verdict, Asleep, Fresh, Found, Blocked, Tunnels, Running
  <1> QED
    BY <1>2, <1>3, <1>4

\* A step within a phase.
LEMMA WithinWhy ==
  ASSUME WhyInv, [Next]_vars, ~Start, net' = net, asleep' = asleep, Running,
         att'.pc \in {"cached", "scan", "found", "leave", "decide"},
         att'.cancelled = att.cancelled, att'.step = att.step, Found', Blocked',
         mem["host"].auto => mem'["host"].auto \/ att'.res.ok, att.res.ok => att'.res.ok
  PROVE  Unusable' /\ Verdict' /\ Asleep' /\ Fresh' /\ Found' /\ Blocked' /\ Tunnels'
  <1>0. TypeOK
    BY DEF WhyInv, IInv
  <1>1. Caused => Caused'
    BY <1>0, CauseGrows
  <1>2. Unusable'
    BY <1>0, UnusableStays DEF WhyInv
  <1>3. Asleep'
    BY DEF WhyInv, Asleep, Running
  <1>4. Verdict' /\ Fresh'
    BY DEF Verdict, Fresh
  <1>5. Tunnels'
    BY <1>1 DEF WhyInv, Tunnels, Running
  <1> QED
    BY <1>2, <1>3, <1>4, <1>5

LEMMA EnterWhy ==
  ASSUME WhyInv, [Next]_vars, Enter, ~Start
  PROVE  Unusable' /\ Verdict' /\ Asleep' /\ Fresh' /\ Found' /\ Blocked' /\ Tunnels'
  <1>0. TypeOK /\ att \in Attempts /\ att.pc = "enter"
    BY DEF WhyInv, IInv, TypeOK, AttemptOK, Enter, Now
  <1>1. PICK f \in BOOLEAN, r \in BOOLEAN, p \in {"leave", "cached"} :
          att' = [att EXCEPT !.over = Transport(att.step), !.res.local = f, !.remembered = r,
                             !.pc = p]
    BY <1>0, EnterSets
  <1>2. /\ att'.pc = p /\ att'.step = att.step /\ att'.cancelled = att.cancelled
        /\ att'.res.ok = att.res.ok /\ att'.res.blocked = att.res.blocked
    BY <1>0, <1>1 DEF Attempts, Results
  <1>3. ~att.res.ok /\ (att.res.blocked => Caused \/ att.cancelled)
    BY <1>0 DEF WhyInv, Found, Blocked, Running
  <1>4. Caused => Caused'
    BY <1>0, CauseGrows
  <1>5. Found' /\ Blocked'
    BY <1>2, <1>3, <1>4 DEF Found, Blocked
  <1>6. mem'["host"].auto = mem["host"].auto
    BY <1>0, EnterAuto
  <1>7. net' = net /\ asleep' = asleep
    BY DEF Enter
  <1> QED
    BY <1>0, <1>1, <1>2, <1>5, <1>6, <1>7, WithinWhy DEF Running

LEMMA FindsWhy ==
  ASSUME WhyInv, [Next]_vars, ScanFinds, ~Start
  PROVE  Unusable' /\ Verdict' /\ Asleep' /\ Fresh' /\ Found' /\ Blocked' /\ Tunnels'
  <1>0. TypeOK /\ att \in Attempts /\ att.pc = "scan" /\ att.over \in Transports
    BY DEF WhyInv, IInv, TypeOK, AttemptOK, ScanFinds, Now, Transport, Transports
  <1>1. att' = [att EXCEPT !.pc = "found"]
    BY DEF ScanFinds
  <1>2. /\ att'.pc = "found" /\ att'.step = att.step /\ att'.cancelled = att.cancelled
        /\ att'.res = att.res
    BY <1>0, <1>1 DEF Attempts
  <1>3. ~att.res.ok /\ (att.res.blocked => Caused \/ att.cancelled)
    BY <1>0 DEF WhyInv, Found, Blocked, Running
  <1>4. Caused => Caused'
    BY <1>0, CauseGrows
  <1>5. Found' /\ Blocked'
    BY <1>2, <1>3, <1>4 DEF Found, Blocked
  <1>6. mem'["host"].auto = mem["host"].auto
    BY <1>0, PushAuto
  <1>7. net' = net /\ asleep' = asleep
    BY DEF ScanFinds
  <1> QED
    BY <1>0, <1>2, <1>5, <1>6, <1>7, WithinWhy DEF Running

LEMMA CachedWhy ==
  ASSUME WhyInv, [Next]_vars, TryCachedBridgePort, ~Start
  PROVE  Unusable' /\ Verdict' /\ Asleep' /\ Fresh' /\ Found' /\ Blocked' /\ Tunnels'
  <1>0. TypeOK /\ att \in Attempts /\ att.pc = "cached"
    BY DEF WhyInv, IInv, TypeOK, AttemptOK, TryCachedBridgePort, Now
  <1>1. PICK ok \in BOOLEAN, ev \in Answers :
          /\ att' = AfterCached(ev, ok)
          /\ ev = "Blocked" => net.filter = "wfp"
          /\ ~ok => mem'["host"].auto = mem["host"].auto
    BY <1>0, CachedAuto
  <1>2. /\ att'.pc \in {"leave", "scan"} /\ (ok => att'.pc = "leave")
        /\ att'.step = att.step /\ att'.cancelled = att.cancelled
        /\ att'.res.ok = ok /\ (att'.res.blocked => ev = "Blocked")
    BY <1>0, <1>1 DEF AfterCached, Attempts, Results
  <1>3. ~att.res.ok
    BY <1>0 DEF WhyInv, Found, Running
  <1>4. att'.res.blocked => Caused
    BY <1>0, <1>1, <1>2 DEF WhyInv, Unusable, Running, NativeUsable, Caused
  <1>5. Caused => Caused'
    BY <1>0, CauseGrows
  <1>6. Found' /\ Blocked'
    BY <1>2, <1>4, <1>5 DEF Found, Blocked
  <1>7. net' = net /\ asleep' = asleep
    BY DEF TryCachedBridgePort
  <1> QED
    BY <1>0, <1>1, <1>2, <1>3, <1>6, <1>7, WithinWhy DEF Running

LEMMA FoundWhy ==
  ASSUME WhyInv, [Next]_vars, ConnectFoundPort, ~Start
  PROVE  Unusable' /\ Verdict' /\ Asleep' /\ Fresh' /\ Found' /\ Blocked' /\ Tunnels'
  <1>0. TypeOK /\ att \in Attempts /\ att.pc = "found"
    BY DEF WhyInv, IInv, TypeOK, AttemptOK, ConnectFoundPort, Now
  <1>1. PICK ok \in BOOLEAN :
          /\ att' = [att EXCEPT !.pc = "leave", !.res.ok = ok, !.res.alive = TRUE]
          /\ ~ok => mem'["host"].auto = mem["host"].auto
    BY <1>0, FoundAuto
  <1>2. /\ att'.pc = "leave" /\ att'.step = att.step /\ att'.cancelled = att.cancelled
        /\ att'.res.ok = ok /\ att'.res.blocked = att.res.blocked
    BY <1>0, <1>1 DEF Attempts, Results
  <1>3. ~att.res.ok /\ (att.res.blocked => Caused \/ att.cancelled)
    BY <1>0 DEF WhyInv, Found, Blocked, Running
  <1>4. Caused => Caused'
    BY <1>0, CauseGrows
  <1>5. Found' /\ Blocked'
    BY <1>2, <1>3, <1>4 DEF Found, Blocked
  <1>6. net' = net /\ asleep' = asleep
    BY DEF ConnectFoundPort
  <1> QED
    BY <1>0, <1>1, <1>2, <1>3, <1>5, <1>6, WithinWhy DEF Running

LEMMA RestoreWhy ==
  ASSUME WhyInv, [Next]_vars, Restore, ~Start
  PROVE  Unusable' /\ Verdict' /\ Asleep' /\ Fresh' /\ Found' /\ Blocked' /\ Tunnels'
  <1>0. TypeOK /\ att \in Attempts /\ att.pc = "leave"
    BY DEF WhyInv, IInv, TypeOK, AttemptOK, Restore, Now
  <1>1. PICK b : att' = [att EXCEPT !.over = "none", !.pc = "decide", !.sawSilent = b]
    BY DEF Restore
  <1>2. /\ att'.pc = "decide" /\ att'.step = att.step /\ att'.cancelled = att.cancelled
        /\ att'.res = att.res
    BY <1>0, <1>1 DEF Attempts
  <1>3. Caused => Caused'
    BY <1>0, CauseGrows
  <1>4. Found' /\ Blocked'
    BY <1>0, <1>2, <1>3 DEF WhyInv, Found, Blocked, Running
  <1>5. mem["host"].auto => mem'["host"].auto
    BY <1>0, RestoreAuto
  <1>6. net' = net /\ asleep' = asleep
    BY DEF Restore
  <1> QED
    BY <1>0, <1>2, <1>4, <1>5, <1>6, WithinWhy DEF Running

LEMMA ContinueWhy ==
  ASSUME WhyInv, [Next]_vars, Continue, ~Start
  PROVE  Unusable' /\ Verdict' /\ Asleep' /\ Fresh' /\ Found' /\ Blocked' /\ Tunnels'
  <1> USE DEF shared, history
  <1>0. TypeOK /\ att \in Attempts /\ att.pc = "decide" /\ ~att.res.ok
    BY DEF WhyInv, IInv, TypeOK, AttemptOK, Continue, Now
  <1>1. PICK step \in NextStep, r \in BOOLEAN :
          att' = [att EXCEPT !.pc = "enter", !.step = step, !.res = NoResult, !.remembered = r]
    BY <1>0, ContinueSets
  <1>2. /\ ~att.cancelled /\ step \in {"again", "tunnel"}
        /\ step = "tunnel" => att.step = "revalidate" \/ att.res.blocked
    BY <1>1 DEF NextStep
  <1>3. /\ att'.pc = "enter" /\ att'.step = step /\ att'.cancelled = att.cancelled
        /\ att'.res = NoResult
    BY <1>0, <1>1 DEF Attempts
  <1>4. UNCHANGED <<net, asleep, mem, cause, lapses>>
    BY DEF Continue
  <1>5. ~NoResult.ok /\ ~NoResult.blocked
    BY DEF NoResult
  <1>6. Unusable'
    BY <1>0, <1>3, <1>4, UnusableStays DEF WhyInv, Running
  <1>7. step = "tunnel" => Caused \/ mem["host"].auto
    BY <1>0, <1>2 DEF WhyInv, Tunnels, Blocked, Running
  <1>8. Tunnels'
    BY <1>2, <1>3, <1>4, <1>7 DEF Tunnels, Caused
  <1>9. Verdict' /\ Fresh' /\ Found' /\ Blocked'
    BY <1>3, <1>5 DEF Verdict, Fresh, Found, Blocked
  <1>10. Asleep'
    BY <1>0, <1>3, <1>4 DEF WhyInv, Asleep
  <1> QED
    BY <1>6, <1>8, <1>9, <1>10

\* What a scan that did not connect concludes.
LEMMA JudgeWhy ==
  ASSUME att \in Attempts, NEW alive \in BOOLEAN, NEW ran \in BOOLEAN, NEW silent \in BOOLEAN,
         NEW blocked \in BOOLEAN, Judge(alive, ran, silent, blocked)
  PROVE  /\ att'.pc = "leave" /\ att'.step = att.step /\ att'.cancelled = att.cancelled
         /\ att'.res.ok = att.res.ok
         /\ att'.res.blocked => \/ att.step = "tunnel" /\ att.res.blocked
                                \/ att.step # "tunnel" /\ ran /\ (silent \/ blocked)
  <1>1. CASE att.step = "tunnel"
    <2>1. PICK x : att' = [att EXCEPT !.pc = "leave", !.res.alive = alive, !.res.silent = x]
      BY <1>1 DEF Judge
    <2> QED
      BY <1>1, <2>1 DEF Attempts, Results
  <1>2. CASE att.step # "tunnel"
    <2> DEFINE dead == ~alive /\ ran /\ (silent \/ blocked)
               held == (dead /\ ~blocked /\ att.auto) /\ Holds
    <2>1. att' = [att EXCEPT !.pc = "leave", !.res.alive = alive, !.res.blocked = dead /\ ~held,
                             !.res.wfp = dead /\ blocked,
                             !.res.silent = dead /\ ~blocked /\ ~held]
      BY <1>2 DEF Judge
    <2>2. dead => ran /\ (silent \/ blocked)
      OBVIOUS
    <2> HIDE DEF dead, held
    <2>3. /\ att'.pc = "leave" /\ att'.step = att.step /\ att'.cancelled = att.cancelled
          /\ att'.res.ok = att.res.ok /\ att'.res.blocked = (dead /\ ~held)
      BY <2>1 DEF Attempts, Results
    <2> QED
      BY <1>2, <2>2, <2>3
  <1> QED
    BY <1>1, <1>2

\* While a native scan finds a wholly silent path, IPv6 is unusable, or the driver was not
\* brought into native mode.
LEMMA SilenceCaused ==
  ASSUME WhyInv, [Next]_vars, ~Start, att.pc = "scan", att.over = "native",
         NEW works \in BOOLEAN, Spend(works),
         ~Carries("native", Push(View("host"), "native", works).mode)
  PROVE  Caused' \/ att.cancelled
  <1> DEFINE s == Push(View("host"), "native", works)
  <1>0. TypeOK /\ lapses \subseteq {"reload", "cli", "untold"}
    BY DEF WhyInv, IInv, TypeOK, WorldOK
  <1>1. Caused => Caused'
    BY <1>0, CauseGrows
  <1>2. View("host") \in Views /\ (View("host").off <=> asleep)
    BY <1>0, HostView
  <1>3. CASE ~NativeUsable
    BY <1>1, <1>3 DEF WhyInv, Unusable, Running, Caused
  <1>4. CASE asleep
    BY <1>4 DEF WhyInv, Asleep
  <1>5. CASE NativeUsable /\ ~asleep
    <2>1. s.mode # "native"
      BY <1>5 DEF NativeUsable, Carries
    <2>2. CASE ~works
      BY <2>2 DEF Spend, Caused
    <2>3. CASE works
      <3>1. View("host").pushed = "native" /\ View("host").mode # "native"
        BY <1>2, <1>5, <2>1, <2>3 DEF Push, Views
      <3>2. ~Coherent(View("host"))
        BY <3>1 DEF Coherent
      <3>3. ~(lapses \subseteq {"untold"})
        BY <3>2 DEF WhyInv, IInv, CommittedHeld
      <3>4. Caused
        BY <1>0, <3>3 DEF Caused
      <3> QED
        BY <1>1, <3>4
    <2> QED
      BY <2>2, <2>3
  <1> QED
    BY <1>3, <1>4, <1>5

LEMMA CoolsWhy ==
  ASSUME WhyInv, [Next]_vars, ScanCools, ~Start
  PROVE  Unusable' /\ Verdict' /\ Asleep' /\ Fresh' /\ Found' /\ Blocked' /\ Tunnels'
  <1> USE DEF shared
  <1>0. TypeOK /\ att \in Attempts /\ att.pc = "scan"
    BY DEF WhyInv, IInv, TypeOK, AttemptOK, ScanCools, Now
  <1>1. CachedAlive \in BOOLEAN
    BY DEF CachedAlive
  <1>2. Judge(CachedAlive, FALSE, FALSE, FALSE)
    BY DEF ScanCools
  <1>3. /\ att'.pc = "leave" /\ att'.step = att.step /\ att'.cancelled = att.cancelled
        /\ att'.res.ok = att.res.ok /\ (att'.res.blocked => att.res.blocked)
    BY <1>0, <1>1, <1>2, JudgeWhy
  <1>4. ~att.res.ok /\ (att.res.blocked => Caused \/ att.cancelled)
    BY <1>0 DEF WhyInv, Found, Blocked, Running
  <1>5. Caused => Caused'
    BY <1>0, CauseGrows
  <1>6. Found' /\ Blocked'
    BY <1>3, <1>4, <1>5 DEF Found, Blocked
  <1>7. UNCHANGED <<net, asleep, mem>>
    BY DEF ScanCools
  <1> QED
    BY <1>0, <1>3, <1>6, <1>7, WithinWhy DEF Running

LEMMA FailsWhy ==
  ASSUME WhyInv, [Next]_vars, ScanFails, ~Start
  PROVE  Unusable' /\ Verdict' /\ Asleep' /\ Fresh' /\ Found' /\ Blocked' /\ Tunnels'
  <1> DEFINE t == Transport(att.step)
             m(w) == Push(View("host"), att.over, w).mode
  <1>0. /\ TypeOK /\ att \in Attempts /\ att.pc = "scan"
        /\ att.over = t /\ att.over \in Transports
    BY DEF WhyInv, IInv, TypeOK, AttemptOK, ScanFails, Now, Transport, Transports
  <1>1. PICK works, to :
          LET carries == Carries(t, m(works))
              wfp == t = "native" /\ net.filter = "wfp" /\ net.v6 = "ready"
          IN  /\ works \in BOOLEAN /\ Spend(works)
              /\ Judge(CachedAlive \/ (carries /\ to > scan[t].cursor), TRUE,
                       SilentAbort(scan[t], carries, to), wfp /\ to > scan[t].cursor)
    BY WorksBoolean DEF ScanFails
  <1> DEFINE carries == Carries(t, m(works))
             wfp == t = "native" /\ net.filter = "wfp" /\ net.v6 = "ready"
             aborts == SilentAbort(scan[t], carries, to)
             alive == CachedAlive \/ (carries /\ to > scan[t].cursor)
             blocked == wfp /\ to > scan[t].cursor
  <1>2. alive \in BOOLEAN /\ aborts \in BOOLEAN /\ blocked \in BOOLEAN
        /\ Judge(alive, TRUE, aborts, blocked) /\ Spend(works) /\ works \in BOOLEAN
    BY <1>1 DEF CachedAlive, SilentAbort
  <1>3. (aborts => ~carries) /\ (blocked => net.filter = "wfp")
    BY DEF SilentAbort
  <1> HIDE DEF alive, aborts, blocked, wfp
  <1>4. /\ att'.pc = "leave" /\ att'.step = att.step /\ att'.cancelled = att.cancelled
        /\ att'.res.ok = att.res.ok
        /\ att'.res.blocked => \/ att.step = "tunnel" /\ att.res.blocked
                               \/ att.step # "tunnel" /\ (aborts \/ blocked)
    BY <1>0, <1>2, JudgeWhy
  <1>5. ~att.res.ok /\ (att.res.blocked => Caused \/ att.cancelled)
    BY <1>0 DEF WhyInv, Found, Blocked, Running
  <1>6. Caused => Caused'
    BY <1>0, CauseGrows
  <1>7. att.step # "tunnel" /\ aborts => Caused' \/ att.cancelled
    <2>1. SUFFICES ASSUME att.step # "tunnel", aborts PROVE Caused' \/ att.cancelled
      OBVIOUS
    <2>2. t = "native"
      BY <2>1 DEF Transport
    <2>3. ~Carries("native", Push(View("host"), "native", works).mode)
      BY <1>0, <1>3, <2>1, <2>2
    <2> QED
      BY <1>0, <1>2, <2>2, <2>3, SilenceCaused
  <1>8. blocked => Caused
    BY <1>0, <1>3 DEF WhyInv, Unusable, Running, NativeUsable, Caused
  <1>9. Found' /\ Blocked'
    BY <1>4, <1>5, <1>6, <1>7, <1>8 DEF Found, Blocked
  <1>10. mem'["host"].auto = mem["host"].auto
    BY <1>0, PushAuto
  <1>11. net' = net /\ asleep' = asleep
    BY DEF ScanFails
  <1> QED
    BY <1>0, <1>4, <1>5, <1>9, <1>10, <1>11, WithinWhy DEF Running

LEMMA InitWhy == Init => WhyInv
  <1> SUFFICES ASSUME Init PROVE WhyInv
    OBVIOUS
  <1>1. IInv
    BY InitIInv
  <1>2. att.pc = "idle"
    BY DEF Init, NoAttempt
  <1> QED
    BY <1>1, <1>2
       DEF WhyInv, Unusable, Verdict, Asleep, Fresh, Found, Blocked, Tunnels, Running

LEMMA NextWhy == WhyInv /\ [Next]_vars => WhyInv'
  <1> SUFFICES ASSUME WhyInv, [Next]_vars PROVE WhyInv'
    OBVIOUS
  <1>1. IInv'
    BY NextIInv DEF WhyInv
  <1> SUFFICES Unusable' /\ Verdict' /\ Asleep' /\ Fresh' /\ Found' /\ Blocked' /\ Tunnels'
    BY <1>1 DEF WhyInv
  <1>2. CASE Start
    BY <1>2, StartWhy
  <1>3. CASE ~Start
    <2>1. CASE \/ SettingChanges \/ CooldownEnds \/ Unlock \/ Resume \/ CliStart \/ CliConnect
               \/ Reload \/ UNCHANGED vars
      BY <1>3, <2>1, QuietWhy
    <2>2. CASE NetChanges
      BY <1>3, <2>2, NetWhy
    <2>3. CASE Suspend \/ Cancel
      BY <1>3, <2>3, CancelWhy
    <2>4. CASE Connected \/ GiveUp \/ Restart
      BY <2>4, EndWhy
    <2>5. CASE Gate
      BY <1>3, <2>5, GateWhy
    <2>6. CASE Pick
      BY <1>3, <2>6, PickWhy
    <2>7. CASE Enter
      BY <1>3, <2>7, EnterWhy
    <2>8. CASE TryCachedBridgePort
      BY <1>3, <2>8, CachedWhy
    <2>9. CASE ScanCools
      BY <1>3, <2>9, CoolsWhy
    <2>10. CASE ScanFinds
      BY <1>3, <2>10, FindsWhy
    <2>11. CASE ScanFails
      BY <1>3, <2>11, FailsWhy
    <2>12. CASE ConnectFoundPort
      BY <1>3, <2>12, FoundWhy
    <2>13. CASE Restore
      BY <1>3, <2>13, RestoreWhy
    <2>14. CASE Continue
      BY <1>3, <2>14, ContinueWhy
    <2> QED
      BY <1>3, <2>1, <2>2, <2>3, <2>4, <2>5, <2>6, <2>7, <2>8, <2>9, <2>10, <2>11, <2>12, <2>13,
         <2>14 DEF Next, Attempt, Surroundings
  <1> QED
    BY <1>2, <1>3

\* The flag rises without the driver's word for it only in a phase that runs over the tunnel.
LEMMA RisesInTunnel ==
  ASSUME TypeOK, [Next]_vars, ~mem["host"].auto, mem'["host"].auto, ~driver.sticky
  PROVE  /\ TryCachedBridgePort \/ ConnectFoundPort
         /\ att.step = "tunnel"
  <1> USE DEF shared
  <1>0. att \in Attempts /\ mem \in [Processes -> Processed] /\ "host" \in Processes
    BY DEF TypeOK, AttemptOK, HeldOK, Processes
  <1>1. ~(\/ Start \/ Gate \/ ScanCools \/ Connected \/ Continue \/ CooldownEnds
          \/ NetChanges \/ SettingChanges \/ Unlock \/ Suspend \/ Cancel \/ Reload \/ UNCHANGED vars)
    BY DEF Start, Gate, ScanCools, Connected, Continue, CooldownEnds, NetChanges, SettingChanges,
       Unlock, Suspend, Cancel, Reload, vars
  <1>2. ~(GiveUp \/ Resume)
    <2>1. GiveUp \/ Resume => mem' = mem \/ mem' = [mem EXCEPT !["host"].pushed = "unknown"]
      BY DEF GiveUp, Resume
    <2>2. [mem EXCEPT !["host"].pushed = "unknown"]["host"].auto = mem["host"].auto
      BY <1>0 DEF Processed
    <2> QED
      BY <2>1, <2>2
  <1>3. ~Restart
    <2>1. Restart => mem'["host"] = FreshProcess
      BY <1>0 DEF Restart
    <2> QED
      BY <2>1 DEF FreshProcess
  <1>4. ~(CliStart \/ CliConnect)
    <2>1. CliStart \/ CliConnect => mem'["host"] = mem["host"]
      <3>1. SUFFICES ASSUME CliStart \/ CliConnect PROVE mem'["host"] = mem["host"]
        OBVIOUS
      <3>2. PICK s : Become("cli", s)
        BY <3>1, CliMoves
      <3> QED
        BY <1>0, <3>2 DEF Become
    <2> QED
      BY <2>1
  <1>5. ~Pick
    BY PickAuto
  <1>6. ~Enter /\ ~Restore
    BY EnterAuto, RestoreAuto
  <1>7. ~(ScanFinds \/ ScanFails)
    <2>1. ScanFinds \/ ScanFails => att.over \in Transports
      BY DEF TypeOK, AttemptOK, ScanFinds, ScanFails, Now, Transport, Transports
    <2> QED
      BY <2>1, PushAuto
  <1>8. TryCachedBridgePort \/ ConnectFoundPort
    BY <1>1, <1>2, <1>3, <1>4, <1>5, <1>6, <1>7 DEF Next, Attempt, Surroundings
  <1>9. att.step = "tunnel"
    <2>1. Transport(att.step) # "native"
      <3>1. CASE TryCachedBridgePort
        BY <3>1, CachedAuto
      <3>2. CASE ConnectFoundPort
        BY <3>2, FoundAuto
      <3> QED
        BY <1>8, <3>1, <3>2
    <2> QED
      BY <2>1 DEF Transport
  <1> QED
    BY <1>8, <1>9

\* The sensor driver commits to the tunnel of its own accord only in an attempt during which
\* IPv6 was really unusable or the driver refused a request: the commits of TunnelStep are reached
\* only by a sticky flag, a verdict or a blocked path (BridgeDiscovery.cpp:614, :628).
THEOREM CommitHasCauseAlways == Spec => CommitHasCause
  <1>1. Init => WhyInv
    BY InitWhy
  <1>2. WhyInv /\ [Next]_vars => WhyInv'
    BY NextWhy
  <1>3. WhyInv /\ [Next]_vars
          => [~mem["host"].auto /\ mem'["host"].auto /\ ~driver.sticky
                => cause' \/ lapses \cap {"reload", "cli"} # {}]_vars
    <2> SUFFICES ASSUME WhyInv, [Next]_vars,
                        ~mem["host"].auto, mem'["host"].auto, ~driver.sticky
                 PROVE  cause' \/ lapses \cap {"reload", "cli"} # {}
      OBVIOUS
    <2>1. TypeOK
      BY DEF WhyInv, IInv
    <2>2. (TryCachedBridgePort \/ ConnectFoundPort) /\ att.step = "tunnel"
      BY <2>1, RisesInTunnel
    <2>3. att.pc \in {"cached", "found"}
      BY <2>2 DEF TryCachedBridgePort, ConnectFoundPort, Now
    <2>4. Caused
      BY <2>2, <2>3 DEF WhyInv, Tunnels, Found, Running
    <2>5. ~Start
      BY <2>3 DEF Start
    <2>6. cause => cause'
      BY <2>1, <2>5, CauseGrows
    <2> QED
      BY <2>4, <2>6 DEF Caused
  <1> QED
    BY <1>1, <1>2, <1>3, PTL DEF Spec, CommitHasCause
=============================================================================
