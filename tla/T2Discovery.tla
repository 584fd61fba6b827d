----------------------------- MODULE T2Discovery -----------------------------
(***************************************************************************)
(* How the sensor driver reaches the T2 (BridgeDiscovery.cpp with           *)
(* TransportMode.h): the choice between native IPv6 and the IPv4 tunnel,    *)
(* the mode and the sticky flag it keeps in the memory of T2Ncm.sys, the    *)
(* cached port, the resumable port scan, and the command-line tool, which   *)
(* connects through the same header from a process of its own.  The         *)
(* network and the T2 are external, and the T2 keeps its address.  ARP and  *)
(* peer publishing are abstracted to succeed; a deadline or a cancel ends a *)
(* scan anywhere.                                                           *)
(***************************************************************************)
EXTENDS Naturals

CONSTANTS
  Ports,      \* how many ports a scan pass visits, in the order it visits them
  Grace,      \* silent native attempts that fit into NativeSilenceGraceMs
  Events,     \* what may happen around the driver, see "The surroundings"
  MaxChanges  \* bound on all of it together

ASSUME BoundsAssumption == Ports \in Nat \ {0} /\ Grace \in Nat /\ MaxChanges \in Nat

VARIABLES
  net,       \* the network and the T2
  setting,   \* the registry value AutoSwitch
  cache,     \* the port cache in the registry
  driver,    \* T2Ncm.sys memory: the mode and the sticky flag
  mem,       \* what each process holds of them
  asleep,    \* the sensor driver's TransportIoSuspendedFlag
  recheck,   \* g_nativeRevalidate
  seen,      \* what the sensor driver knows of this generation
  scan,      \* g_scan of this generation, by transport
  streak,    \* PathSilentStreak
  att,       \* the connect attempt of the sensor driver
  cli,       \* the connect of the command-line tool
  changes,   \* events so far
  shaken,    \* history: the transport of the last handshake
  cause,     \* history: in this attempt IPv6 was unusable, or T2Ncm.sys failed a request
  owed,      \* history: the driver was not told the mode at the end of the last phase
  lapses     \* history: what else changed the driver's memory, "reload" or "cli", and
             \* "untold": it failed a request, or one was withheld as the machine slept

registry == <<setting, cache>>
shared   == <<driver, mem>>
progress == <<seen, scan, streak>>
history  == <<shaken, cause, lapses, owed>>
vars == <<net, registry, shared, asleep, recheck, progress, att, cli, changes, history>>

Processes  == {"host", "cli"}
Transports == {"native", "tunnel"}
Mode(on)   == IF on THEN "tunnel" ELSE "native"

NoPort == [svc |-> 0, rsd |-> 0]
NoCandidate == [port |-> 0, fails |-> 0]
FreshScan == [cursor |-> 0, cooling |-> FALSE, candidate |-> NoCandidate]
FreshSeen == [gate |-> FALSE, v6 |-> FALSE, silent |-> 0]
FreshProcess == [auto |-> FALSE, seed |-> "no", pushed |-> "unknown"]
NoResult == [ev |-> "LocalError", ok |-> FALSE, alive |-> FALSE, blocked |-> FALSE,
             wfp |-> FALSE, silent |-> FALSE, local |-> FALSE]
NoAttempt == [pc |-> "idle", step |-> "none", over |-> "none", auto |-> TRUE,
              cancelled |-> FALSE, moved |-> FALSE, remembered |-> FALSE, sawSilent |-> FALSE,
              res |-> NoResult]

Init ==
  /\ net = [filter |-> "none", t2 |-> "up", v6 |-> "ready", peer |-> "seen", svc |-> 1, rsd |-> 1]
  /\ setting = TRUE /\ cache = NoPort
  /\ driver = [mode |-> "native", sticky |-> FALSE]
  /\ mem = [p \in Processes |-> FreshProcess]
  /\ asleep = FALSE /\ recheck = FALSE /\ streak = 0
  /\ seen = FreshSeen /\ scan = [t \in Transports |-> FreshScan]
  /\ att = NoAttempt /\ cli = "off" /\ changes = 0
  /\ shaken = "none" /\ cause = FALSE /\ lapses = {} /\ owed = FALSE

-----------------------------------------------------------------------------
(* A process and the driver: its copy of the sticky flag, whether that was  *)
(* seeded, the mode it last pushed, and the driver's memory, in one record. *)

View(p) == [mode |-> driver.mode, sticky |-> driver.sticky, auto |-> mem[p].auto,
            seed |-> mem[p].seed, pushed |-> mem[p].pushed, off |-> p = "host" /\ asleep]

Become(p, s) ==
  /\ driver' = [mode |-> s.mode, sticky |-> s.sticky]
  /\ mem' = [mem EXCEPT ![p] = [auto |-> s.auto, seed |-> s.seed, pushed |-> s.pushed]]

\* Mutant of Push: a failed request is taken for done.
PushAssumed(s, want, works) ==
  IF s.off \/ s.pushed = want THEN s
  ELSE [s EXCEPT !.mode = IF works THEN want ELSE @, !.pushed = want]

Push(s, want, works) ==
  IF s.off \/ s.pushed = want THEN s
  ELSE IF works THEN [s EXCEPT !.mode = want, !.pushed = want]
  ELSE [s EXCEPT !.pushed = "unknown"]

Seeded(s, works) ==
  IF s.off \/ s.seed # "no" THEN s
  ELSE IF works THEN [s EXCEPT !.auto = @ \/ s.sticky, !.seed = "yes"]
  ELSE [s EXCEPT !.seed = "alone"]

PushSticky(s, on, works) ==
  IF s.off \/ s.seed = "alone" \/ ~works THEN s ELSE [s EXCEPT !.sticky = on]

CommitAutoTunnel(s, on, works) ==
  LET t == Seeded(s, works)
  IN  IF t.auto = on THEN t ELSE PushSticky([t EXCEPT !.auto = on], on, works)

\* IOCTLs to the driver may fail; each failure is one of the bounded events.
Works == IF "ioctl" \in Events /\ changes < MaxChanges THEN BOOLEAN ELSE {TRUE}
Spend(works) ==
  /\ changes' = IF works THEN changes ELSE changes + 1
  /\ cause' = (cause \/ ~works)
  /\ lapses' = IF works /\ ~asleep THEN lapses ELSE lapses \cup {"untold"}

-----------------------------------------------------------------------------
(* The network, seen from a socket.                                         *)

NativeUsable == net.filter = "none" /\ net.v6 = "ready" /\ net.t2 = "up"
TunnelUsable == net.t2 = "up" /\ net.v6 # "down"

\* The T2 answers TCP on transport t while the driver is in mode m.
Carries(t, m) ==
  /\ t = m /\ net.t2 \in {"bare", "up"} /\ net.v6 # "down"
  /\ t = "native" => net.filter = "none" /\ net.v6 = "ready"

\* What a connect to a port yields: a HELO, or the evidence of its failure.
Dial(t, m, port) ==
  IF t = "native" /\ net.v6 # "ready" THEN {"LocalError"}
  ELSE IF t = "native" /\ net.filter = "wfp" THEN {"Blocked"}
  ELSE IF ~Carries(t, m) THEN {"Silent"}
  ELSE IF net.t2 = "up" /\ port = net.svc THEN {"Ok"} ELSE {"Refused", "Positive"}

\* ConnectOnce pushes the mode again; a tunnel that stays silent voids what is cached of it.
Dialling(s, t, works) == Push(s, t, works)
Dialled(s, t, ev) ==
  IF t = "tunnel" /\ ev \in {"Silent", "Positive"} THEN [s EXCEPT !.pushed = "unknown"] ELSE s
Unprepared(s, t) == t = "tunnel" /\ ~s.off /\ s.pushed # "tunnel"
Evidence(s, t, port) == IF Unprepared(s, t) THEN {"LocalError"} ELSE Dial(t, s.mode, port)

\* Mutant of Succeeded: native success does not end the commitment.
SucceededForGood(s, t, works) == IF t = "tunnel" THEN CommitAutoTunnel(s, TRUE, works) ELSE s

\* A handshake: RecordNativeSuccess or CommitAutoTunnel(true), by transport.
Succeeded(s, t, works) == CommitAutoTunnel(s, t = "tunnel", works)
HostSucceeded(t) ==
  /\ recheck' = FALSE /\ shaken' = t
  /\ seen' = IF t = "native" THEN [seen EXCEPT !.v6 = FALSE, !.silent = 0] ELSE seen

-----------------------------------------------------------------------------
(* One connect attempt: ConnectToBiometricKitBridge.                        *)

Now(pc) == att.pc = pc
Transport(step) == IF step = "tunnel" THEN "tunnel" ELSE "native"

\* A capture asks for the bridge, not while the machine sleeps (WaitUntilDisplayAllowsScan);
\* the attempt is repeated until it connects.
Start ==
  /\ att.pc = "retry" \/ (att.pc = "idle" /\ ~asleep)
  /\ att' = [NoAttempt EXCEPT !.pc = "gate", !.moved = att.moved]
  /\ cause' = ~NativeUsable
  /\ UNCHANGED <<net, registry, shared, asleep, recheck, progress, cli, changes, shaken, lapses,
                 owed>>

Over == IF att.cancelled THEN "idle" ELSE "retry"
\* The generation moved: gate, verdicts on IPv6 and scan progress are void.
NewGeneration == seen' = FreshSeen /\ scan' = [t \in Transports |-> FreshScan]

\* EnsureGate and RunReadinessGate.
GateReady == seen.gate /\ ~att.moved /\ net.peer # "none" /\ ~seen.v6
\* With the interface down nothing is concluded of IPv6, unless it was before.
GateOutcome ==
  IF net.v6 \in {"ready", "none"} THEN net.v6
  ELSE IF net.v6 = "down" /\ seen.v6 /\ ~att.moved THEN "none" ELSE "timeout"
Gate ==
  /\ Now("gate")
  /\ \/ GateReady /\ UNCHANGED <<seen, scan>>
     \/ /\ ~GateReady
        /\ seen' = [gate |-> GateOutcome = "ready" \/ (~att.moved /\ seen.gate),
                    v6 |-> GateOutcome = "none",
                    silent |-> IF att.moved THEN 0 ELSE seen.silent]
        /\ scan' = IF att.moved THEN [t \in Transports |-> FreshScan] ELSE scan
  /\ att' = [att EXCEPT !.moved = FALSE, !.remembered = net.peer = "remembered",
               !.pc = IF att.cancelled \/ net.peer = "none"
                         \/ (~GateReady /\ GateOutcome = "timeout")
                      THEN Over ELSE "pick"]
  /\ UNCHANGED <<net, registry, shared, asleep, recheck, streak, cli, changes, history>>

Enters(step) == [att EXCEPT !.pc = "enter", !.step = step, !.auto = setting, !.res = NoResult]

ConsumeNativeRevalidate(sticky) ==
  recheck' = (recheck /\ ~(sticky /\ ~att.cancelled))

\* Which transport this attempt begins with.
Pick ==
  /\ Now("pick")
  /\ \E works \in Works :
       LET s == Seeded(View("host"), works)
           t == IF setting THEN s ELSE CommitAutoTunnel(s, FALSE, works)
           sticky == setting /\ t.auto
           noV6 == setting /\ seen.v6
       IN  /\ Become("host", t) /\ Spend(works)
           /\ ConsumeNativeRevalidate(sticky /\ ~noV6)
           /\ att' = IF sticky /\ ~noV6 /\ recheck /\ ~att.cancelled THEN Enters("revalidate")
                     ELSE IF ~sticky /\ ~noV6 THEN Enters("native")
                     ELSE IF att.cancelled THEN [att EXCEPT !.pc = "idle"]
                     ELSE Enters("tunnel")
  /\ UNCHANGED <<net, registry, asleep, progress, cli, shaken, owed>>

\* A TransportPhase begins: the override and the driver's mode; the tunnel needs its peer.
\* For the tunnel a failed request is repeated, if a new look finds the peer.
Enter ==
  /\ Now("enter")
  /\ \E works \in Works, again \in Works :
       LET t == Transport(att.step)
           first == Push(View("host"), t, works)
           repeats == Unprepared(first, t) /\ net.peer # "none"
           s == IF repeats THEN Push(first, t, again) ELSE first
           fails == t = "tunnel" /\ (asleep \/ Unprepared(s, t))
       IN  /\ Become("host", s) /\ Spend(works)
           /\ att' = [att EXCEPT !.over = t, !.res.local = fails,
                        !.remembered = IF repeats THEN net.peer = "remembered" ELSE @,
                        !.pc = IF fails THEN "leave" ELSE "cached"]
  /\ UNCHANGED <<net, registry, asleep, recheck, progress, cli, shaken, owed>>

\* The saved port, else the one its RemoteXPC port advertises now.
Replayed(t, m, ev) ==
  ev \in {"Refused", "Positive"} /\ cache.rsd = net.rsd /\ Carries(t, m) /\ net.t2 = "up"
AfterCached(ev, ok) ==
  LET blocked == ev = "Blocked" /\ att.auto /\ ~att.cancelled /\ att.step # "revalidate"
  IN  [att EXCEPT !.res.ev = ev, !.res.ok = ok, !.res.alive = ok,
                  !.res.blocked = blocked, !.res.wfp = blocked,
                  !.pc = IF ok \/ blocked \/ att.cancelled \/ att.step = "revalidate"
                         THEN "leave" ELSE "scan"]
TryCachedBridgePort ==
  /\ Now("cached")
  /\ \E works \in Works :
       LET t == Transport(att.step)
           d == Dialling(View("host"), t, works)
       IN  \E ev \in IF cache = NoPort THEN {"LocalError"} ELSE Evidence(d, t, cache.svc) :
             LET ok == ev = "Ok" \/ Replayed(t, d.mode, ev)
                 s == IF cache = NoPort THEN View("host") ELSE Dialled(d, t, ev)
             IN  /\ Spend(works) /\ Become("host", IF ok THEN Succeeded(d, t, works) ELSE s)
                 /\ cache' = IF ok THEN [cache EXCEPT !.svc = net.svc] ELSE cache
                 /\ IF ok THEN HostSucceeded(t)
                    ELSE UNCHANGED <<recheck, shaken, seen>>
                 /\ att' = AfterCached(ev, ok)
  /\ UNCHANGED <<net, setting, asleep, scan, streak, cli, owed>>

-----------------------------------------------------------------------------
(* The resumable scan.                                                      *)

\* RecheckCandidates: the second failure drops the candidate.
Recheck(c) ==
  IF c.port = 0 THEN c ELSE IF c.fails = 1 THEN NoCandidate ELSE [c EXCEPT !.fails = 1]

\* The HTTP/2 ports a pass meets whose service is not advertised yet.
Met(c, met) == IF met /\ c.port # net.rsd THEN [port |-> net.rsd, fails |-> 0] ELSE c

\* NativeStep's judgement: silence while the T2 answers echoes is held back for the grace.
EchoAlive == net.t2 # "off" /\ net.filter \in {"none", "tcp"} /\ net.v6 = "ready"
Holds == EchoAlive /\ seen.silent < Grace
\* Mutant of NoteSilent: every silent attempt starts the grace over.
NoteSilentAnew == seen' = [seen EXCEPT !.silent = 0]
NoteSilent ==
  seen' = [seen EXCEPT !.silent = IF ~EchoAlive THEN 0 ELSE IF @ < Grace THEN @ + 1 ELSE @]

\* What a step concludes from a scan that did not connect.
Judge(alive, ran, silent, blocked) ==
  LET dead == ~alive /\ ran /\ (silent \/ blocked)
      judged == dead /\ ~blocked /\ att.auto
  IN  IF att.step = "tunnel"
      THEN /\ att' = [att EXCEPT !.pc = "leave", !.res.alive = alive,
                        !.res.silent = ~alive /\ (silent \/ att.res.ev = "Silent")]
           /\ UNCHANGED seen
      ELSE /\ att' = [att EXCEPT !.pc = "leave", !.res.alive = alive,
                        !.res.blocked = dead /\ ~(judged /\ Holds),
                        !.res.wfp = dead /\ blocked,
                        !.res.silent = dead /\ ~blocked /\ ~(judged /\ Holds)]
           /\ IF alive THEN seen' = [seen EXCEPT !.silent = 0]
              ELSE IF judged THEN NoteSilent ELSE UNCHANGED seen

CachedAlive == att.res.ev \in {"Positive", "Refused"}

\* An empty pass just ended: the next scan waits, this attempt does not.
ScanCools ==
  /\ Now("scan") /\ scan[Transport(att.step)].cursor = 0 /\ scan[Transport(att.step)].cooling
  /\ Judge(CachedAlive, FALSE, FALSE, FALSE)
  /\ UNCHANGED <<net, registry, shared, asleep, recheck, scan, streak, cli, changes, history>>

\* The service is found: by rechecking a candidate, or within the ports the slice claims.
ScanFinds ==
  /\ Now("scan")
  /\ \E works \in Works :
       LET t == Transport(att.step)
           s == Push(View("host"), att.over, works)
           k == scan[t]
           recheckHit == k.candidate.port = net.rsd
       IN  /\ ~(k.cursor = 0 /\ k.cooling) /\ ~att.cancelled
           /\ Carries(t, s.mode) /\ net.t2 = "up"
           /\ recheckHit \/ net.rsd > k.cursor
           /\ scan' = [scan EXCEPT ![t] =
                IF recheckHit THEN [k EXCEPT !.candidate = NoCandidate]
                ELSE [FreshScan EXCEPT !.candidate = Recheck(k.candidate)]]
           /\ cache' = [svc |-> net.svc, rsd |-> net.rsd]
           /\ Become("host", s) /\ Spend(works)
  /\ att' = [att EXCEPT !.pc = "found"]
  /\ UNCHANGED <<net, setting, asleep, recheck, seen, streak, cli, shaken, owed>>

\* How far ScanHttp2Preface claims ports from the cursor on: to the end, or to where the deadline
\* or a cancel stops it; at the very start it aborts if nothing answers.
Claims(k) == {to \in k.cursor .. Ports : to = k.cursor => att.cancelled \/ to = Ports}
SilentAbort(k, carries, to) == k.cursor = 0 /\ ~carries /\ to > 0

\* The slice finds nothing, or aborts on silence.
ScanFails ==
  /\ Now("scan")
  /\ \E works \in Works :
       LET t == Transport(att.step)
           s == Push(View("host"), att.over, works)
           k == scan[t]
           carries == Carries(t, s.mode)
           wfp == t = "native" /\ net.filter = "wfp" /\ net.v6 = "ready"
       IN  \E to \in Claims(k) :
             LET aborts == SilentAbort(k, carries, to)
                 done == to = Ports /\ ~att.cancelled
                 met == carries /\ net.rsd \in k.cursor + 1 .. to
                 hit == carries /\ net.t2 = "up" /\ k.candidate.port = net.rsd
             IN  /\ ~(k.cursor = 0 /\ k.cooling)
                 /\ att.cancelled \/ ~(hit \/ (met /\ net.t2 = "up"))
                 /\ scan' = [scan EXCEPT ![t] =
                      [cursor |-> IF aborts \/ done THEN 0 ELSE to,
                       cooling |-> IF done /\ k.cursor = 0 /\ ~aborts THEN TRUE ELSE k.cooling,
                       candidate |-> IF att.cancelled THEN k.candidate
                                     ELSE Met(Recheck(k.candidate), met)]]
                 /\ Become("host", s) /\ Spend(works)
                 /\ Judge(CachedAlive \/ (carries /\ to > k.cursor), TRUE, aborts,
                          wfp /\ to > k.cursor)
  /\ UNCHANGED <<net, registry, asleep, recheck, streak, cli, shaken, owed>>

\* CooldownMs passes.
CooldownEnds ==
  \E t \in Transports :
    /\ scan[t].cooling
    /\ scan' = [scan EXCEPT ![t].cooling = FALSE]
    /\ UNCHANGED <<net, registry, shared, asleep, recheck, seen, streak, att, cli, changes, history>>

\* The port found is saved already; now it is connected to.
ConnectFoundPort ==
  /\ Now("found")
  /\ \E works \in Works :
       LET t == Transport(att.step)
           d == Dialling(View("host"), t, works)
       IN  \E ev \in Evidence(d, t, cache.svc) :
             /\ Spend(works)
             /\ Become("host", IF ev = "Ok" THEN Succeeded(d, t, works) ELSE Dialled(d, t, ev))
             /\ IF ev = "Ok" THEN HostSucceeded(t)
                ELSE /\ seen' = IF t = "native" THEN [seen EXCEPT !.silent = 0] ELSE seen
                     /\ UNCHANGED <<recheck, shaken>>
             /\ att' = [att EXCEPT !.pc = "leave", !.res.ok = ev = "Ok", !.res.alive = TRUE]
  /\ UNCHANGED <<net, registry, asleep, scan, streak, cli, owed>>

-----------------------------------------------------------------------------
(* The phase ends, and the attempt goes on to its next one or is over.      *)

\* Mutant of Restore: the mode is put back while the override still decides it.
RestoreTooEarly ==
  /\ Now("leave")
  /\ \E works \in Works :
       /\ Become("host", Push(Seeded(View("host"), works), att.over, works)) /\ Spend(works)
       /\ owed' = (asleep \/ ~works)
  /\ att' = [att EXCEPT !.over = "none", !.pc = "decide",
                        !.sawSilent = @ \/ att.res.silent]
  /\ UNCHANGED <<net, registry, asleep, recheck, progress, cli, shaken>>

\* ~ModeScope: the override goes, the committed mode comes back.
Restore ==
  /\ Now("leave")
  /\ \E works \in Works :
       LET s == Seeded(View("host"), works)
       IN  /\ Become("host", Push(s, Mode(s.auto), works)) /\ Spend(works)
           /\ owed' = (asleep \/ ~works)
  /\ att' = [att EXCEPT !.over = "none", !.pc = "decide",
                        !.sawSilent = @ \/ att.res.silent]
  /\ UNCHANGED <<net, registry, asleep, recheck, progress, cli, shaken>>

Connected ==
  /\ Now("decide") /\ att.res.ok
  /\ streak' = 0 /\ att' = [NoAttempt EXCEPT !.moved = att.moved]
  /\ UNCHANGED <<net, registry, shared, asleep, recheck, seen, scan, cli, changes, history>>

\* The next transport of the attempt: after a silent native path the peer is asked for once
\* more, and native IPv6 tried again if it answers; a blocked path leads to the tunnel.
NextStep ==
  IF att.cancelled THEN {}
  ELSE CASE att.step = "revalidate" -> {"tunnel"}
         [] att.step = "native" /\ att.auto /\ att.res.blocked ->
              IF att.res.wfp THEN {"tunnel"} ELSE {"again", "tunnel"}
         [] att.step = "again" /\ att.auto /\ att.res.blocked -> {"tunnel"}
         [] OTHER -> {}
Continue ==
  /\ Now("decide") /\ ~att.res.ok
  /\ \E step \in NextStep :
       att' = [att EXCEPT !.pc = "enter", !.step = step, !.res = NoResult,
                          !.remembered = @ /\ step # "again"]
  /\ UNCHANGED <<net, registry, shared, asleep, recheck, progress, cli, changes, history>>

\* Two silent attempts at a remembered peer: it is distrusted, what is cached of it void.
NotePathSilent ==
  ~att.cancelled /\ att.remembered /\ att.sawSilent /\ ~att.res.alive /\ ~att.res.local
GiveUp ==
  /\ Now("decide") /\ ~att.res.ok /\ NextStep = {}
  /\ att' = [NoAttempt EXCEPT !.pc = Over, !.moved = att.moved]
  /\ streak' = IF NotePathSilent THEN 1 - streak ELSE streak
  /\ mem' = IF NotePathSilent /\ streak = 1 THEN [mem EXCEPT !["host"].pushed = "unknown"]
            ELSE mem
  /\ UNCHANGED <<net, registry, driver, asleep, recheck, seen, scan, cli, changes, history>>

-----------------------------------------------------------------------------
(* The command-line tool: Connection::Connect in a process of its own,      *)
(* outside any TransportPhase.                                              *)

CliStart ==
  /\ cli = "off" /\ "cli" \in Events /\ changes < MaxChanges
  /\ LET s == Seeded([View("cli") EXCEPT !.auto = FALSE, !.seed = "no", !.pushed = "unknown"], TRUE)
         t == IF setting THEN s ELSE CommitAutoTunnel(s, FALSE, TRUE)
     IN  Become("cli", t) /\ cli' = Mode(t.auto)
  /\ changes' = changes + 1 /\ lapses' = lapses \cup {"cli"}
  /\ UNCHANGED <<net, registry, asleep, recheck, progress, att, shaken, cause, owed>>

\* ConnectOnce over the active transport; if native TCP failed, over the tunnel ("again").
CliConnect ==
  /\ cli # "off"
  /\ LET t == Mode(cli # "native")
         d == Dialling(View("cli"), t, TRUE)
     IN  \E ev \in Evidence(d, t, net.svc) :
           LET answered == ev \in {"Ok", "Refused", "Positive"}
               s == Dialled(d, t, ev)
           IN  /\ Become("cli", IF answered /\ cli # "tunnel" THEN Succeeded(s, t, TRUE) ELSE s)
               /\ cli' = IF cli = "native" /\ setting /\ ~answered THEN "again" ELSE "off"
               /\ shaken' = IF ev = "Ok" THEN t ELSE shaken
  /\ UNCHANGED <<net, registry, asleep, recheck, progress, att, changes, cause, lapses, owed>>

-----------------------------------------------------------------------------
(* The surroundings.                                                        *)

Happens(event) == event \in Events /\ changes < MaxChanges /\ changes' = changes + 1

\* VPN filters come and go, the T2 boots, its service moves, addresses and peers change.
NetChanges ==
  /\ Happens("net")
  /\ \E n \in {[net EXCEPT !.filter = f] : f \in {"none", "all", "tcp", "wfp"}}
              \cup {[net EXCEPT !.t2 = b] : b \in {"off", "echo", "bare", "up"}}
              \cup {[net EXCEPT !.v6 = v] : v \in {"ready", "tentative", "none", "down"}}
              \cup {[net EXCEPT !.peer = q] : q \in {"seen", "remembered", "none"}}
              \cup {[net EXCEPT !.svc = q] : q \in 1 .. Ports} \cup {[net EXCEPT !.rsd = q] : q \in 1 .. Ports} :
       /\ n # net /\ net' = n
       /\ cause' = (cause \/ n.filter # "none" \/ n.v6 # "ready" \/ n.t2 # "up")
  /\ UNCHANGED <<registry, shared, asleep, recheck, progress, att, cli, shaken, lapses,
                 owed>>

SettingChanges ==
  /\ Happens("setting") /\ setting' = ~setting
  /\ UNCHANGED <<net, cache, shared, asleep, recheck, progress, att, cli, history>>

\* WTS_SESSION_UNLOCK: RequestNativeReprobe.
Unlock ==
  /\ Happens("unlock") /\ recheck' = TRUE
  /\ seen' = [seen EXCEPT !.v6 = FALSE]
  /\ UNCHANGED <<net, registry, shared, asleep, scan, streak, att, cli, shaken, cause,
                 lapses, owed>>

\* OnSuspendResume: the IOCTLs stop, the generation moves, and the capture in progress is
\* cancelled (BeginCaptureSuspend) - in one step, as no attempt fits in between; on resume
\* nothing is assumed of the driver's mode.
Cancelled == IF Now("idle") THEN att
             ELSE [att EXCEPT !.cancelled = TRUE, !.pc = IF @ = "retry" THEN "idle" ELSE @]
Suspend ==
  /\ Happens("sleep") /\ ~asleep /\ asleep' = TRUE /\ NewGeneration /\ att' = Cancelled
  /\ UNCHANGED <<net, registry, shared, recheck, streak, cli, history>>
Resume ==
  /\ asleep /\ asleep' = FALSE /\ mem' = [mem EXCEPT !["host"].pushed = "unknown"]
  /\ UNCHANGED <<net, registry, driver, recheck, progress, att, cli, changes, history>>

Cancel ==
  /\ Happens("cancel") /\ att.pc # "idle" /\ ~att.cancelled
  /\ att' = Cancelled
  /\ UNCHANGED <<net, registry, shared, asleep, recheck, progress, cli, history>>

\* WUDFHost dies and comes back; its memory is lost, the driver's is not.
Restart ==
  /\ Happens("restart")
  /\ mem' = [mem EXCEPT !["host"] = FreshProcess]
  /\ asleep' = FALSE /\ recheck' = FALSE /\ streak' = 0 /\ att' = NoAttempt /\ NewGeneration
  /\ owed' = TRUE
  /\ UNCHANGED <<net, registry, driver, cli, shaken, cause, lapses>>

\* T2Ncm.sys is unloaded and loaded again: its memory is lost, the interface is a new one.
Reload ==
  /\ Happens("reload")
  /\ driver' = [mode |-> "native", sticky |-> FALSE]
  /\ att' = [att EXCEPT !.moved = TRUE] /\ lapses' = lapses \cup {"reload"}
  /\ UNCHANGED <<net, registry, mem, asleep, recheck, progress, cli, shaken,
                 cause, owed>>

Surroundings == \/ NetChanges \/ SettingChanges \/ Unlock \/ Suspend \/ Resume
                \/ Cancel \/ Restart \/ Reload \/ CliStart \/ CliConnect

Attempt == \/ Gate \/ Pick \/ Enter \/ TryCachedBridgePort \/ ScanCools \/ ScanFinds \/ ScanFails
           \/ ConnectFoundPort \/ Restore \/ Connected \/ Continue \/ GiveUp

Next == Start \/ Attempt \/ CooldownEnds \/ Surroundings

Spec == Init /\ [][Next]_vars

\* A capture's thread runs and retries (a new capture, from "idle", is up to Windows), and
\* time passes.
GoesOn   == Attempt \/ (Now("retry") /\ Start)
FairSpec == Spec /\ WF_vars(GoesOn) /\ WF_vars(CooldownEnds)

-----------------------------------------------------------------------------

Resting == att.pc \in {"idle", "retry", "decide"}

\* Types of the variables.
Memory    == [mode : Transports, sticky : BOOLEAN]
Processed == [auto : BOOLEAN, seed : {"no", "yes", "alone"}, pushed : Transports \cup {"unknown"}]
Results   == [ev : {"Ok", "Refused", "Positive", "Silent", "Blocked", "LocalError"}, ok : BOOLEAN,
              alive : BOOLEAN, blocked : BOOLEAN, wfp : BOOLEAN, silent : BOOLEAN,
              local : BOOLEAN]
Attempts  == [pc : {"idle", "retry", "gate", "pick", "enter", "cached", "scan", "found", "leave",
                    "decide"},
              step : {"none", "revalidate", "native", "again", "tunnel"},
              over : Transports \cup {"none"}, auto : BOOLEAN, cancelled : BOOLEAN,
              moved : BOOLEAN, remembered : BOOLEAN, sawSilent : BOOLEAN, res : Results]
Networks  == [filter : {"none", "all", "tcp", "wfp"}, t2 : {"off", "echo", "bare", "up"},
              v6 : {"ready", "tentative", "none", "down"}, peer : {"seen", "remembered", "none"},
              svc : 1 .. Ports, rsd : 1 .. Ports]
Verdicts  == [gate : BOOLEAN, v6 : BOOLEAN, silent : 0 .. Grace]
Scans     == [cursor : 0 .. Ports, cooling : BOOLEAN,
              candidate : [port : 0 .. Ports, fails : 0 .. 1]]

WorldOK ==
  /\ net \in Networks /\ setting \in BOOLEAN /\ cache \in [svc : 0 .. Ports, rsd : 0 .. Ports]
  /\ changes \in Nat /\ cli \in Transports \cup {"off", "again"}
  /\ shaken \in Transports \cup {"none"} /\ cause \in BOOLEAN
  /\ lapses \subseteq {"reload", "cli", "untold"}
HeldOK ==
  /\ driver \in Memory /\ mem \in [Processes -> Processed]
  /\ asleep \in BOOLEAN /\ recheck \in BOOLEAN
ProgressOK ==
  seen \in Verdicts /\ scan \in [Transports -> Scans] /\ streak \in 0 .. 1
AttemptOK ==
  /\ att \in Attempts
  /\ att.pc \in {"cached", "scan", "found", "leave"} => att.over = Transport(att.step)

TypeOK == WorldOK /\ HeldOK /\ ProgressOK /\ AttemptOK /\ owed \in BOOLEAN

\* Between the phases the driver is in the committed mode, "on every path"
\* (BridgeDiscovery.h:60-61, TransportMode.h:1325).  A suspend breaks it.
ModeIsCommitted == Resting => driver.mode = Mode(mem["host"].auto)
\* What the code keeps of that.  The request that ends a phase fails, is withheld as the machine
\* sleeps, or is never made as the process dies: then the driver stays in the mode of the phase,
\* but the first later phase whose last request is carried out puts it right: a record of the
\* mode that is wrong after a failure or a resume would suppress that request.  It stays right
\* through suspends, distrusted peers and changed settings, until a phase fails to restore it or
\* something else changes the driver's memory.
PhaseEndsCommitted == lapses \subseteq {"untold"} /\ ~owed => ModeIsCommitted

\* The sticky tunnel is held only on the strength of a tunnel handshake, and a native one
\* since then has cleared it (TransportMode.h:62-64): unless the driver missed an update, or the
\* command-line tool wrote the flag, there is no other way to come by it, a restart included.
StickyEarned == lapses \subseteq {"reload"} => (mem["host"].auto => shaken = "tunnel")

\* The tunnel is committed to only by an attempt during which IPv6 was really unusable, or
\* the driver refused a request: a driver left in the wrong mode by an earlier phase, or a
\* stale verdict, does not cost a reboot's IPv6.
CommitHasCause ==
  [][~mem["host"].auto /\ mem'["host"].auto /\ ~driver.sticky
       => cause' \/ lapses \cap {"reload", "cli"} # {}]_vars

\* Once some transport stays usable, an attempt that goes on retrying connects, whatever the
\* cache, the scan cursor, the sticky flag and the verdicts of before.
Usable == /\ ~asleep /\ net.peer # "none" /\ net.v6 \notin {"tentative", "down"} /\ "cli" \notin lapses
          /\ NativeUsable \/ (setting /\ TunnelUsable)
Reconnects == <>[]Usable => []<>(att.pc = "idle")

=============================================================================
