----------------------------- MODULE T2Bootstrap -----------------------------
(***************************************************************************)
(* The SEP bootstrap service (T2SepBootstrapService.cpp) over one boot: the  *)
(* service process with its main thread, control handler, START_PENDING pump *)
(* and lock watcher; the SEP exchanges it runs once; the status the          *)
(* transport driver keeps for it; and the sensor driver that reads it        *)
(* (CheckSepReady in umdf/Queue.cpp).  The SCM, the SEP and plug and play    *)
(* are external.  A control may arrive as soon as the handler is registered, *)
(* because ServiceMain accepts STOP and SHUTDOWN from START_PENDING on.      *)
(***************************************************************************)
EXTENDS Naturals

CONSTANTS
  MaxStarts,    \* bound on the starts of the service
  MaxAttempts,  \* attempts to open the transport that fit into its 60 s
  MaxIncidents, \* bound on controls, crashes and removals of the transport
  Incidents     \* what may happen: subset of {"control", "crash", "remove", "api"}

ASSUME BoundsAssumption ==
  MaxStarts \in Nat /\ MaxAttempts \in Nat /\ MaxIncidents \in Nat

VARIABLES
  scm,       \* the state last sent to the SCM
  service,   \* gStatus.dwCurrentState
  leaving,   \* STOPPED was sent: the dispatcher is about to return
  handler,   \* where ServiceCtrlHandler is
  main,      \* where ServiceMain is
  pump,      \* StartPendingPumpThread
  pumpStop,  \* its stop event
  stopEvent, lockEvent, watcher,  \* gStopEvent, gLockRequestEvent, gLockThread
  verdict,   \* the reason about to be reported
  attempts,  \* failed attempts to open the transport
  client,    \* the service's handle to the transport
  ready,     \* the object Global\T2SepReady, gone with the last handle to it
  sep,       \* the exchanges the SEP has carried out in this boot
  device,    \* the transport device is present
  status,    \* its BootstrapStatus.Reason
  cache,     \* the sensor driver's cached "Ok"
  sensor,    \* what CheckSepReady last answered, or "Ok": read and not yet cached
  starts, incidents  \* counters

control  == <<scm, service, leaving, handler>>
pumping  == <<pump, pumpStop>>
locking  == <<stopEvent, lockEvent, watcher>>
sequence == <<verdict, attempts, client, ready>>
driver   == <<device, status>>
reading  == <<cache, sensor>>
counters == <<starts, incidents>>
process  == <<control, main, pumping, locking, sequence>>
vars     == <<process, sep, driver, reading, counters>>

Events  == {"null", "clear", "set"}
Reasons == {"Unknown", "Ok", "VaultMissing", "Dpapi", "RegisterOolFailed", "SepHang", "SepRejected"}

\* The exchanges of the sequence and what each is followed by.
Exchanges == {"load", "system", "handle", "special"}
After == [load |-> "system", system |-> "handle", handle |-> "special", special |-> "announce"]

Init ==
  /\ scm = "STOPPED" /\ service = "none" /\ leaving = FALSE /\ handler = "idle" /\ main = "off"
  /\ pump = "off" /\ pumpStop = FALSE
  /\ stopEvent = "null" /\ lockEvent = "null" /\ watcher = "none"
  /\ verdict = "Unknown" /\ attempts = 0 /\ client = "closed" /\ ready = "gone"
  /\ sep = {}
  /\ device \in BOOLEAN /\ status = "Unknown"
  /\ cache = FALSE /\ sensor = "BUSY"
  /\ starts = 0 /\ incidents = 0

\* SetServiceStatus sends whatever gStatus holds by then.
SetServiceStatus == scm' = service /\ leaving' = (leaving \/ service = "STOPPED")

(***************************************************************************)
(* The process: the SCM starts it, it ends when the dispatcher returns.     *)
(***************************************************************************)
Start ==
  /\ main = "off" /\ starts < MaxStarts
  /\ scm' = "START_PENDING" /\ main' = "register" /\ starts' = starts + 1
  /\ UNCHANGED <<service, leaving, handler, pumping, locking, sequence, sep, driver, reading,
                 incidents>>

\* Threads and handles go with the process.
ProcessEnds ==
  /\ main # "off" /\ main' = "off"
  /\ scm' = "STOPPED" /\ service' = "none" /\ leaving' = FALSE /\ handler' = "idle"
  /\ pump' = "off" /\ pumpStop' = FALSE
  /\ stopEvent' = "null" /\ lockEvent' = "null" /\ watcher' = "none"
  /\ verdict' = "Unknown" /\ attempts' = 0 /\ client' = "closed" /\ ready' = "gone"

Incident(i) == i \in Incidents /\ incidents < MaxIncidents /\ incidents' = incidents + 1

wmain == leaving /\ ProcessEnds /\ UNCHANGED <<sep, driver, reading, counters>>

Crash == Incident("crash") /\ ProcessEnds /\ UNCHANGED <<sep, driver, reading, starts>>

(***************************************************************************)
(* ServiceMain up to the end of the sequence.                              *)
(***************************************************************************)
Step(from, to) == main = from /\ main' = to

\* The named event is created, or an existing one opened: a start that finds it
\* set leaves the SEP alone.
AlreadyPrepared == ready' = "set"

Register ==
  /\ main = "register" /\ service' = "START_PENDING" /\ scm' = "START_PENDING"
  /\ \/ ready' = IF ready = "gone" THEN "clear" ELSE ready
     \/ "api" \in Incidents /\ ready' = "gone"
  /\ main' = IF ready' = "gone" \/ AlreadyPrepared THEN "events" ELSE "pump"
  /\ UNCHANGED <<leaving, handler, pumping, locking, verdict, attempts, client, sep, driver,
                 reading, counters>>

\* The control handler cannot be registered: ServiceMain returns, and nobody ever
\* tells the SCM anything.
RegisterFails ==
  /\ Step("register", "left") /\ "api" \in Incidents
  /\ UNCHANGED <<control, pumping, locking, sequence, sep, driver, reading, counters>>

StartStartPendingPump ==
  /\ Step("pump", "open")
  /\ pump' = "wait" \/ ("api" \in Incidents /\ pump' = "off")
  /\ UNCHANGED <<control, pumpStop, locking, sequence, sep, driver, reading, counters>>

\* Mutant: the wait for the transport has no time-out.
KeepWaiting == main' = "open" /\ UNCHANGED attempts

\* One pass of the loop after a failed open.
NotOpened ==
  IF attempts = MaxAttempts THEN main' = "return" /\ UNCHANGED attempts
  ELSE main' = "open" /\ attempts' = attempts + 1

WaitForTransportOpen ==
  /\ main = "open"
  /\ IF device THEN main' = "vault" /\ client' = "open" /\ UNCHANGED attempts
     ELSE NotOpened /\ UNCHANGED client
  /\ UNCHANGED <<control, pumping, locking, verdict, ready, sep, driver, reading, counters>>

\* What the steps of the sequence leave alone.
SequenceOnly ==
  UNCHANGED <<control, pumping, locking, attempts, client, ready, driver, reading, counters>>

\* Mutant: a step fails without a word.
FailSilently(reason) == main' = "return" /\ verdict' = reason

Fail(reason) == main' = "report" /\ verdict' = reason

Pass(step) == main' = step /\ UNCHANGED verdict

\* ReadVaultFile and two Unprotect, before the SEP is touched.
ReadVault ==
  /\ main = "vault"
  /\ Pass("ool") \/ Fail("VaultMissing") \/ Fail("Dpapi")
  /\ UNCHANGED sep /\ SequenceOnly

RegisterOol ==
  /\ main = "ool"
  /\ (client = "open" /\ Pass("load")) \/ Fail("RegisterOolFailed")
  /\ UNCHANGED sep /\ SequenceOnly

\* Mutant: the sequence looks at the result of the exchange, not at the status
\* the SEP put into its reply.
IgnoreSepStatus(step) == Pass(After[step])

Refused(step) == Fail("SepRejected")

SepDoes(step) == sep' = sep \cup {step}

\* LoadKeybag, MakeSystemKeybag and the two Unlocks.  The SEP may have acted on
\* a request whose reply is lost.
Exchange(step) ==
  /\ main = step
  /\ \/ client = "open" /\ SepDoes(step) /\ (Pass(After[step]) \/ Fail("SepHang"))
     \/ client = "open" /\ Refused(step) /\ UNCHANGED sep
     \/ (Fail("SepHang") \/ Fail("RegisterOolFailed")) /\ UNCHANGED sep
  /\ SequenceOnly

\* Through the client's handle, which a removal of the device kills.
SetBootstrapStatus(reason) == status' = IF client = "open" THEN reason ELSE status

Report(from, to, reason) ==
  /\ Step(from, to) /\ SetBootstrapStatus(reason)
  /\ UNCHANGED <<control, pumping, locking, sequence, sep, device, reading, counters>>

ReportExchangeFailure == Report("report", "return", verdict)
ReportReady           == Report("announce", "signal", "Ok")

SignalReady ==
  /\ Step("signal", "return") /\ ready' = "set"
  /\ UNCHANGED <<control, pumping, locking, verdict, attempts, client, sep, driver, reading,
                 counters>>

\* RunBootstrapSequence returns, which closes its client; the pump is told to
\* stop and waited for.
StopStartPendingPump ==
  /\ Step("return", "joinPump") /\ client' = "closed" /\ pumpStop' = TRUE
  /\ UNCHANGED <<control, pump, locking, verdict, attempts, ready, sep, driver, reading, counters>>

JoinPump ==
  /\ Step("joinPump", "events") /\ pump = "off"
  /\ UNCHANGED <<control, pumping, locking, sequence, sep, driver, reading, counters>>

RunBootstrapSequence ==
  \/ WaitForTransportOpen \/ ReadVault \/ RegisterOol \/ (\E step \in Exchanges : Exchange(step))
  \/ ReportExchangeFailure \/ ReportReady \/ SignalReady

(***************************************************************************)
(* The pump.  Its budget may run out at any tick.                          *)
(***************************************************************************)
PumpTick ==
  /\ pump = "wait"
  /\ pump' = IF pumpStop \/ service # "START_PENDING" THEN "off" ELSE "tell"
  /\ UNCHANGED <<control, main, pumpStop, locking, sequence, sep, driver, reading, counters>>

PumpTell ==
  /\ pump = "tell" /\ SetServiceStatus /\ pump' \in {"wait", "off"}
  /\ UNCHANGED <<service, handler, main, pumpStop, locking, sequence, sep, driver, reading,
                 counters>>

StartPendingPumpThread == PumpTick \/ PumpTell

(***************************************************************************)
(* ServiceMain after the sequence, whatever its outcome.                   *)
(***************************************************************************)
CreateEvents ==
  /\ Step("events", "run")
  /\ \/ stopEvent' = "clear" /\ lockEvent' = "clear" /\ watcher' = "wait"
     \/ /\ "api" \in Incidents /\ stopEvent' \in {"null", "clear"}
        /\ lockEvent' \in {"null", "clear"} /\ watcher' = "none"
  /\ UNCHANGED <<control, pumping, sequence, sep, driver, reading, counters>>

Run ==
  /\ Step("run", "tellRun") /\ service' = "RUNNING"
  /\ UNCHANGED <<scm, leaving, handler, pumping, locking, sequence, sep, driver, reading, counters>>

TellRun ==
  /\ Step("tellRun", "idle") /\ SetServiceStatus
  /\ UNCHANGED <<service, handler, pumping, locking, sequence, sep, driver, reading, counters>>

\* On the stop event, or, without one, a look at gStatus every 5 s.
Idle ==
  /\ Step("idle", "join")
  /\ IF stopEvent = "null" THEN service # "RUNNING" ELSE stopEvent = "set"
  /\ UNCHANGED <<control, pumping, locking, sequence, sep, driver, reading, counters>>

\* The watcher is waited for, for 5 s at most; then every handle is closed.
Leave ==
  /\ Step("join", "left") /\ watcher # "wait"
  /\ stopEvent' = "null" /\ lockEvent' = "null" /\ ready' = "gone"
  /\ UNCHANGED <<control, pumping, watcher, verdict, attempts, client, sep, driver, reading,
                 counters>>

ServiceMain ==
  \/ Register \/ RegisterFails \/ StartStartPendingPump \/ RunBootstrapSequence
  \/ StopStartPendingPump \/ JoinPump \/ CreateEvents \/ Run \/ TellRun \/ Idle \/ Leave

(***************************************************************************)
(* ServiceCtrlHandler, on the dispatcher's thread.                         *)
(***************************************************************************)
Control ==
  /\ main # "off" /\ service # "none" /\ handler = "idle" /\ scm \in {"START_PENDING", "RUNNING"}
  /\ Incident("control")
  /\ service' = "STOP_PENDING" /\ handler' = "tellPending"
  /\ UNCHANGED <<scm, leaving, main, pumping, locking, sequence, sep, driver, reading, starts>>

Handle(from, to) ==
  /\ handler = from /\ handler' = to
  /\ UNCHANGED <<main, pumping, lockEvent, watcher, sequence, sep, driver, reading, counters>>

TellPending == Handle("tellPending", "signal") /\ SetServiceStatus /\ UNCHANGED <<service, stopEvent>>

SignalStop ==
  /\ Handle("signal", "stopped")
  /\ stopEvent' = IF stopEvent = "null" THEN "null" ELSE "set"
  /\ UNCHANGED <<scm, service, leaving>>

Stopped ==
  /\ Handle("stopped", "tellStopped")
  /\ service' = "STOPPED" /\ UNCHANGED <<scm, leaving, stopEvent>>

TellStopped == Handle("tellStopped", "idle") /\ SetServiceStatus /\ UNCHANGED <<service, stopEvent>>

ServiceCtrlHandler == Control \/ TellPending \/ SignalStop \/ Stopped \/ TellStopped

(***************************************************************************)
(* Locking the workstation: the sensor driver sets the event, the watcher   *)
(* has the lock event first in its list, so it wins over the stop event.    *)
(***************************************************************************)
RequestWorkstationLock ==
  /\ lockEvent = "clear"
  /\ lockEvent' = "set"
  /\ UNCHANGED <<control, main, pumping, stopEvent, watcher, sequence, sep, driver, reading,
                 counters>>

Watch ==
  /\ watcher = "wait"
  /\ \/ lockEvent = "set" /\ lockEvent' = "clear" /\ watcher' = "lock"
     \/ lockEvent # "set" /\ stopEvent # "clear" /\ watcher' = "gone" /\ UNCHANGED lockEvent
  /\ UNCHANGED <<control, main, pumping, stopEvent, sequence, sep, driver, reading, counters>>

\* Mutant: a session that cannot be locked ends the watcher.
GiveUpLocking == watcher' \in {"wait", "gone"}

WatchOn == watcher' = "wait"

\* LockInteractiveSession returns, whether it could lock or not.
LockInteractiveSession ==
  /\ watcher = "lock" /\ WatchOn
  /\ UNCHANGED <<control, main, pumping, stopEvent, lockEvent, sequence, sep, driver, reading, counters>>

LockWatcherThread == Watch \/ LockInteractiveSession

(***************************************************************************)
(* The transport device, whose context is new after every arrival.         *)
(***************************************************************************)
DeviceArrives ==
  /\ ~device /\ device' = TRUE /\ status' = "Unknown"
  /\ UNCHANGED <<process, sep, reading, counters>>

DeviceRemoved ==
  /\ device /\ Incident("remove") /\ device' = FALSE /\ status' = "Unknown"
  /\ client' = IF client = "open" THEN "dead" ELSE client
  /\ UNCHANGED <<control, main, pumping, locking, verdict, attempts, ready, sep, reading,
                 starts>>

(***************************************************************************)
(* The sensor driver.                                                      *)
(***************************************************************************)
Answer ==
  CASE cache               -> "READY"
    [] ~cache /\ ~device   -> "FAILURE"
    [] OTHER -> CASE status = "Ok" -> "Ok" [] status = "Unknown" -> "BUSY" [] OTHER -> "FAILURE"

CheckSepReady ==
  /\ sensor # "Ok" /\ sensor' = Answer
  /\ UNCHANGED <<process, sep, driver, cache, counters>>

StoreSepReady ==
  /\ sensor = "Ok" /\ cache' = TRUE /\ sensor' = "READY"
  /\ UNCHANGED <<process, sep, driver, counters>>

\* Suspend, resume, a failed capture, or ten minutes later.
InvalidateSepReadyCache ==
  /\ cache /\ cache' = FALSE
  /\ UNCHANGED <<process, sep, driver, sensor, counters>>

(***************************************************************************)
(* Specification.                                                          *)
(***************************************************************************)
Next ==
  \/ Start \/ wmain \/ Crash \/ ServiceMain \/ StartPendingPumpThread \/ ServiceCtrlHandler
  \/ RequestWorkstationLock \/ LockWatcherThread
  \/ DeviceArrives \/ DeviceRemoved
  \/ CheckSepReady \/ StoreSepReady \/ InvalidateSepReadyCache

\* Every thread of the process runs, every wait that is bounded ends, and a
\* service that said STOPPED goes.  Nothing is promised of the SCM, the device,
\* the user, or how often the sensor is asked.
Fairness ==
  /\ WF_vars(ServiceMain) /\ WF_vars(StartPendingPumpThread) /\ WF_vars(wmain)
  /\ WF_vars(TellPending \/ SignalStop \/ Stopped \/ TellStopped)
  /\ WF_vars(LockWatcherThread)

Spec == Init /\ [][Next]_vars

FairSpec == Spec /\ Fairness

(***************************************************************************)
(* Properties.                                                             *)
(***************************************************************************)
States    == {"none", "START_PENDING", "RUNNING", "STOP_PENDING", "STOPPED"}
Places    == {"off", "register", "pump", "open", "vault", "ool", "report", "announce", "signal",
              "return", "joinPump", "events", "run", "tellRun", "idle", "join", "left"} \cup Exchanges

\* A client is open from the first successful open to the end of the sequence,
\* the pump runs from START_PENDING to its join, and a watcher has its events.
Linked ==
  /\ main \in Exchanges \cup {"vault", "ool", "report", "announce", "signal"} => client # "closed"
  /\ main \in {"off", "register", "pump", "open", "joinPump", "events", "run", "tellRun", "idle",
               "join", "left"} => client = "closed"
  /\ client = "open" => device
  /\ main \in {"off", "register", "pump", "events", "run", "tellRun", "idle", "join", "left"}
       => pump = "off"
  /\ watcher \in {"wait", "lock"} => main = "left" \/ (stopEvent # "null" /\ lockEvent # "null")
  /\ main = "off" => ready = "gone" /\ handler = "idle"

TypeOK ==
  /\ scm \in States /\ service \in States /\ leaving \in BOOLEAN
  /\ handler \in {"idle", "tellPending", "signal", "stopped", "tellStopped"}
  /\ main \in Places
  /\ pump \in {"off", "wait", "tell"} /\ pumpStop \in BOOLEAN
  /\ stopEvent \in Events /\ lockEvent \in Events /\ watcher \in {"none", "wait", "lock", "gone"}
  /\ verdict \in Reasons /\ attempts \in 0..MaxAttempts /\ client \in {"closed", "open", "dead"}
  /\ ready \in {"gone", "clear", "set"} /\ sep \subseteq Exchanges
  /\ device \in BOOLEAN /\ status \in Reasons
  /\ cache \in BOOLEAN /\ sensor \in {"READY", "Ok", "BUSY", "FAILURE"}
  /\ starts \in 0..MaxStarts /\ incidents \in 0..MaxIncidents
  /\ Linked

\* Whoever is told that the SEP is ready, through the event, the status in the
\* driver or the answer of the sensor, can rely on it: the SEP has carried out
\* the whole sequence, both unlocks included, in this boot.
ReadyMeansUnlocked ==
  ready = "set" \/ status = "Ok" \/ cache \/ sensor \in {"Ok", "READY"} => sep = Exchanges

\* A sequence that reached the transport reports its outcome there, unless the
\* process ends or the transport is removed: no sensor waits in BUSY for it.
OutcomeReported == client = "open" ~> status # "Unknown" \/ client = "dead" \/ main = "off"

\* ServiceMain has returned without a control handler.
Unregistered == main = "left" /\ service = "none"

\* A start ends: wbiosrvc waits for RUNNING, and START_PENDING does not last for
\* ever, transport or no transport, unless the control handler could not be
\* registered, when nobody is left to report anything.  A control ends the process
\* that comes once gStatus says RUNNING, be it before the SCM hears of it.  One that
\* comes earlier may not: the handler finds no stop event, and Run overwrites STOPPED.
StartsAndStopsEnd ==
  /\ scm = "START_PENDING" ~> scm # "START_PENDING" \/ Unregistered
  /\ handler = "tellPending" /\ main \in {"tellRun", "idle"} ~> main = "off"

\* The same of every control: it does not hold.
EveryStopEnds == handler = "tellPending" ~> main = "off"

\* The watcher has taken a request: the event is reset and the session locked.
Taken == lockEvent = "clear" /\ watcher = "lock"

\* A lock request that finds the watcher waiting is taken even when a stop wakes it
\* together with the request; only the end of the process is faster.  One that finds
\* it busy with an earlier request is taken next, whether or not that session could be
\* locked, unless ServiceMain has waited its 5 s and closed the events by then.
LockRequestsServed ==
  /\ watcher = "wait" /\ lockEvent = "set" ~> Taken \/ main = "off"
  /\ watcher = "lock" /\ lockEvent = "set" ~> Taken \/ main \in {"left", "off"}

\* A service that is started again leaves a SEP alone which an earlier run of the
\* boot has unlocked, as the status in the driver says.
OncePerBoot == [][status = "Ok" => main' \notin Exchanges]_vars

=============================================================================
