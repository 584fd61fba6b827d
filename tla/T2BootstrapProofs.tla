-------------------------- MODULE T2BootstrapProofs --------------------------
(***************************************************************************)
(* What holds of T2Bootstrap for any number of starts, incidents and        *)
(* attempts: its types, and that READY is never claimed before the SEP has   *)
(* carried out the whole sequence.                                          *)
(***************************************************************************)
EXTENDS T2Bootstrap, TLAPS

LEMMA InitTypes == Init => TypeOK
  <1> SUFFICES ASSUME Init PROVE TypeOK
    OBVIOUS
  <1>1. leaving \in BOOLEAN /\ pumpStop \in BOOLEAN /\ device \in BOOLEAN /\ cache \in BOOLEAN
    BY Zenon DEF Init
  <1>2. device \in BOOLEAN => TypeOK
    BY <1>1, BoundsAssumption
       DEF Init, TypeOK, Linked, States, Places, Events, Reasons, Exchanges
  <1> QED
    BY <1>1, <1>2

\* One step per action.
LEMMA StepTypes == TypeOK /\ [Next]_vars => TypeOK'
  <1> SUFFICES ASSUME TypeOK, [Next]_vars PROVE TypeOK'
    OBVIOUS
  <1> USE BoundsAssumption
  <1>1. CASE Start
    BY <1>1 DEF Start, TypeOK, Linked, States, Places, Events, Reasons, Exchanges,
       process, control, pumping, locking, sequence, driver, reading, counters
  <1>2. CASE wmain
    <2>1. leaving' \in BOOLEAN
      <3>1. leaving' \in {TRUE, FALSE} \/ leaving' = leaving
        BY <1>2 DEF wmain, ProcessEnds,
           process, control, pumping, locking, sequence, driver, reading, counters
      <3> QED
        BY <3>1 DEF TypeOK
    <2>2. pumpStop' \in BOOLEAN
      <3>1. pumpStop' \in {TRUE, FALSE} \/ pumpStop' = pumpStop
        BY <1>2 DEF wmain, ProcessEnds,
           process, control, pumping, locking, sequence, driver, reading, counters
      <3> QED
        BY <3>1 DEF TypeOK
    <2>3. device' \in BOOLEAN
      <3>1. device' \in {TRUE, FALSE} \/ device' = device
        BY <1>2 DEF wmain, ProcessEnds,
           process, control, pumping, locking, sequence, driver, reading, counters
      <3> QED
        BY <3>1 DEF TypeOK
    <2>4. cache' \in BOOLEAN
      <3>1. cache' \in {TRUE, FALSE} \/ cache' = cache
        BY <1>2 DEF wmain, ProcessEnds,
           process, control, pumping, locking, sequence, driver, reading, counters
      <3> QED
        BY <3>1 DEF TypeOK
    <2> QED
      BY <1>2, <2>1, <2>2, <2>3, <2>4 DEF wmain, ProcessEnds, TypeOK, Linked, States, Places,
         Events, Reasons, Exchanges,
       process, control, pumping, locking, sequence, driver, reading, counters
  <1>3. CASE Crash
    <2>1. leaving' \in BOOLEAN
      <3>1. leaving' \in {TRUE, FALSE} \/ leaving' = leaving
        BY <1>3 DEF Crash, ProcessEnds, Incident,
           process, control, pumping, locking, sequence, driver, reading, counters
      <3> QED
        BY <3>1 DEF TypeOK
    <2>2. pumpStop' \in BOOLEAN
      <3>1. pumpStop' \in {TRUE, FALSE} \/ pumpStop' = pumpStop
        BY <1>3 DEF Crash, ProcessEnds, Incident,
           process, control, pumping, locking, sequence, driver, reading, counters
      <3> QED
        BY <3>1 DEF TypeOK
    <2>3. device' \in BOOLEAN
      <3>1. device' \in {TRUE, FALSE} \/ device' = device
        BY <1>3 DEF Crash, ProcessEnds, Incident,
           process, control, pumping, locking, sequence, driver, reading, counters
      <3> QED
        BY <3>1 DEF TypeOK
    <2>4. cache' \in BOOLEAN
      <3>1. cache' \in {TRUE, FALSE} \/ cache' = cache
        BY <1>3 DEF Crash, ProcessEnds, Incident,
           process, control, pumping, locking, sequence, driver, reading, counters
      <3> QED
        BY <3>1 DEF TypeOK
    <2> QED
      BY <1>3, <2>1, <2>2, <2>3, <2>4 DEF Crash, ProcessEnds, Incident, TypeOK, Linked, States,
         Places, Events, Reasons, Exchanges,
       process, control, pumping, locking, sequence, driver, reading, counters
  <1>4. CASE Register
    BY <1>4 DEF Register, AlreadyPrepared, TypeOK, Linked, States, Places, Events, Reasons,
       Exchanges,
       process, control, pumping, locking, sequence, driver, reading, counters
  <1>4b. CASE RegisterFails
    BY <1>4b DEF RegisterFails, Step, TypeOK, Linked, States, Places, Events, Reasons, Exchanges,
       process, control, pumping, locking, sequence, driver, reading, counters
  <1>5. CASE StartStartPendingPump
    BY <1>5 DEF StartStartPendingPump, Step, TypeOK, Linked, States, Places, Events, Reasons,
       Exchanges,
       process, control, pumping, locking, sequence, driver, reading, counters
  <1>6. CASE WaitForTransportOpen
    BY <1>6 DEF WaitForTransportOpen, NotOpened, TypeOK, Linked, States, Places, Events, Reasons,
       Exchanges,
       process, control, pumping, locking, sequence, driver, reading, counters
  <1>7. CASE ReadVault
    BY <1>7 DEF ReadVault, Pass, Fail, SequenceOnly, TypeOK, Linked, States, Places, Events,
       Reasons, Exchanges,
       process, control, pumping, locking, sequence, driver, reading, counters
  <1>8. CASE RegisterOol
    BY <1>8 DEF RegisterOol, Pass, Fail, SequenceOnly, TypeOK, Linked, States, Places, Events,
       Reasons, Exchanges,
       process, control, pumping, locking, sequence, driver, reading, counters
  <1>9. ASSUME NEW step \in Exchanges, Exchange(step) PROVE TypeOK'
    <2> DEFINE next == After[step]
    <2>1. /\ step = "load" => next = "system"
          /\ step = "system" => next = "handle"
          /\ step = "handle" => next = "special"
          /\ step = "special" => next = "announce"
      BY DEF After
    <2>2. step \in {"load", "system", "handle", "special"}
      BY <1>9 DEF Exchanges
    <2>3. /\ main = step
          /\ sep' = sep \cup {step} \/ sep' = sep
          /\ \/ main' = next /\ verdict' = verdict /\ sep' = sep \cup {step}
             \/ main' = "report" /\ verdict' \in Reasons \ {"Ok"}
          /\ client = "open" \/ main' = "report"
      BY <1>9 DEF Exchange, Pass, Fail, Refused, SepDoes, Reasons
    <2>4. SequenceOnly
      BY <1>9 DEF Exchange
    <2> HIDE DEF next
    <2>5. leaving' \in BOOLEAN
      <3>1. leaving' = leaving
        BY <2>4 DEF SequenceOnly,
           process, control, pumping, locking, sequence, driver, reading, counters
      <3> QED
        BY <3>1 DEF TypeOK
    <2>6. pumpStop' \in BOOLEAN
      <3>1. pumpStop' = pumpStop
        BY <2>4 DEF SequenceOnly,
           process, control, pumping, locking, sequence, driver, reading, counters
      <3> QED
        BY <3>1 DEF TypeOK
    <2>7. device' \in BOOLEAN
      <3>1. device' = device
        BY <2>4 DEF SequenceOnly,
           process, control, pumping, locking, sequence, driver, reading, counters
      <3> QED
        BY <3>1 DEF TypeOK
    <2>8. cache' \in BOOLEAN
      <3>1. cache' = cache
        BY <2>4 DEF SequenceOnly,
           process, control, pumping, locking, sequence, driver, reading, counters
      <3> QED
        BY <3>1 DEF TypeOK
    <2>9. sep' \subseteq Exchanges /\ main' \in Places /\ verdict' \in Reasons
      BY <2>1, <2>2, <2>3 DEF TypeOK, Places, Reasons, Exchanges
    <2>10. Linked'
      BY <2>1, <2>2, <2>3, <2>4 DEF SequenceOnly, TypeOK, Linked, Exchanges,
         process, control, pumping, locking, sequence, driver, reading, counters
    <2> QED
      BY <2>4, <2>5, <2>6, <2>7, <2>8, <2>9, <2>10 DEF SequenceOnly, TypeOK,
         process, control, pumping, locking, sequence, driver, reading, counters
  <1>10. CASE ReportExchangeFailure
    BY <1>10 DEF ReportExchangeFailure, Report, SetBootstrapStatus, Step, TypeOK, Linked, States,
       Places, Events, Reasons, Exchanges,
       process, control, pumping, locking, sequence, driver, reading, counters
  <1>11. CASE ReportReady
    BY <1>11 DEF ReportReady, Report, SetBootstrapStatus, Step, TypeOK, Linked, States, Places,
       Events, Reasons, Exchanges,
       process, control, pumping, locking, sequence, driver, reading, counters
  <1>12. CASE SignalReady
    BY <1>12 DEF SignalReady, Step, TypeOK, Linked, States, Places, Events, Reasons, Exchanges,
       process, control, pumping, locking, sequence, driver, reading, counters
  <1>13. CASE StopStartPendingPump
    BY <1>13 DEF StopStartPendingPump, Step, TypeOK, Linked, States, Places, Events, Reasons,
       Exchanges,
       process, control, pumping, locking, sequence, driver, reading, counters
  <1>14. CASE JoinPump
    BY <1>14 DEF JoinPump, Step, TypeOK, Linked, States, Places, Events, Reasons, Exchanges,
       process, control, pumping, locking, sequence, driver, reading, counters
  <1>15. CASE PumpTick
    BY <1>15 DEF PumpTick, TypeOK, Linked, States, Places, Events, Reasons, Exchanges,
       process, control, pumping, locking, sequence, driver, reading, counters
  <1>16. CASE PumpTell
    BY <1>16 DEF PumpTell, SetServiceStatus, TypeOK, Linked, States, Places, Events, Reasons,
       Exchanges,
       process, control, pumping, locking, sequence, driver, reading, counters
  <1>17. CASE CreateEvents
    BY <1>17 DEF CreateEvents, Step, TypeOK, Linked, States, Places, Events, Reasons, Exchanges,
       process, control, pumping, locking, sequence, driver, reading, counters
  <1>18. CASE Run
    BY <1>18 DEF Run, Step, TypeOK, Linked, States, Places, Events, Reasons, Exchanges,
       process, control, pumping, locking, sequence, driver, reading, counters
  <1>19. CASE TellRun
    BY <1>19 DEF TellRun, Step, SetServiceStatus, TypeOK, Linked, States, Places, Events,
       Reasons, Exchanges,
       process, control, pumping, locking, sequence, driver, reading, counters
  <1>20. CASE Idle
    BY <1>20 DEF Idle, Step, TypeOK, Linked, States, Places, Events, Reasons, Exchanges,
       process, control, pumping, locking, sequence, driver, reading, counters
  <1>21. CASE Leave
    BY <1>21 DEF Leave, Step, TypeOK, Linked, States, Places, Events, Reasons, Exchanges,
       process, control, pumping, locking, sequence, driver, reading, counters
  <1>22. CASE Control
    BY <1>22 DEF Control, Incident, TypeOK, Linked, States, Places, Events, Reasons, Exchanges,
       process, control, pumping, locking, sequence, driver, reading, counters
  <1>23. CASE TellPending
    BY <1>23 DEF TellPending, Handle, SetServiceStatus, TypeOK, Linked, States, Places, Events,
       Reasons, Exchanges,
       process, control, pumping, locking, sequence, driver, reading, counters
  <1>24. CASE SignalStop
    BY <1>24 DEF SignalStop, Handle, TypeOK, Linked, States, Places, Events, Reasons, Exchanges,
       process, control, pumping, locking, sequence, driver, reading, counters
  <1>25. CASE Stopped
    BY <1>25 DEF Stopped, Handle, TypeOK, Linked, States, Places, Events, Reasons, Exchanges,
       process, control, pumping, locking, sequence, driver, reading, counters
  <1>26. CASE TellStopped
    BY <1>26 DEF TellStopped, Handle, SetServiceStatus, TypeOK, Linked, States, Places, Events,
       Reasons, Exchanges,
       process, control, pumping, locking, sequence, driver, reading, counters
  <1>27. CASE RequestWorkstationLock
    BY <1>27 DEF RequestWorkstationLock, TypeOK, Linked, States, Places, Events, Reasons,
       Exchanges,
       process, control, pumping, locking, sequence, driver, reading, counters
  <1>28. CASE Watch
    BY <1>28 DEF Watch, TypeOK, Linked, States, Places, Events, Reasons, Exchanges,
       process, control, pumping, locking, sequence, driver, reading, counters
  <1>29. CASE LockInteractiveSession
    <2>1. leaving' \in BOOLEAN
      <3>1. leaving' \in {TRUE, FALSE} \/ leaving' = leaving
        BY <1>29 DEF LockInteractiveSession, WatchOn,
           process, control, pumping, locking, sequence, driver, reading, counters
      <3> QED
        BY <3>1 DEF TypeOK
    <2>2. pumpStop' \in BOOLEAN
      <3>1. pumpStop' \in {TRUE, FALSE} \/ pumpStop' = pumpStop
        BY <1>29 DEF LockInteractiveSession, WatchOn,
           process, control, pumping, locking, sequence, driver, reading, counters
      <3> QED
        BY <3>1 DEF TypeOK
    <2>3. device' \in BOOLEAN
      <3>1. device' \in {TRUE, FALSE} \/ device' = device
        BY <1>29 DEF LockInteractiveSession, WatchOn,
           process, control, pumping, locking, sequence, driver, reading, counters
      <3> QED
        BY <3>1 DEF TypeOK
    <2>4. cache' \in BOOLEAN
      <3>1. cache' \in {TRUE, FALSE} \/ cache' = cache
        BY <1>29 DEF LockInteractiveSession, WatchOn,
           process, control, pumping, locking, sequence, driver, reading, counters
      <3> QED
        BY <3>1 DEF TypeOK
    <2> QED
      BY <1>29, <2>1, <2>2, <2>3, <2>4 DEF LockInteractiveSession, WatchOn, TypeOK, Linked,
         States, Places, Events, Reasons, Exchanges,
       process, control, pumping, locking, sequence, driver, reading, counters
  <1>30. CASE DeviceArrives
    BY <1>30 DEF DeviceArrives, TypeOK, Linked, States, Places, Events, Reasons, Exchanges,
       process, control, pumping, locking, sequence, driver, reading, counters
  <1>31. CASE DeviceRemoved
    <2>1. leaving' \in BOOLEAN
      <3>1. leaving' \in {TRUE, FALSE} \/ leaving' = leaving
        BY <1>31 DEF DeviceRemoved, Incident,
           process, control, pumping, locking, sequence, driver, reading, counters
      <3> QED
        BY <3>1 DEF TypeOK
    <2>2. pumpStop' \in BOOLEAN
      <3>1. pumpStop' \in {TRUE, FALSE} \/ pumpStop' = pumpStop
        BY <1>31 DEF DeviceRemoved, Incident,
           process, control, pumping, locking, sequence, driver, reading, counters
      <3> QED
        BY <3>1 DEF TypeOK
    <2>3. device' \in BOOLEAN
      <3>1. device' \in {TRUE, FALSE} \/ device' = device
        BY <1>31 DEF DeviceRemoved, Incident,
           process, control, pumping, locking, sequence, driver, reading, counters
      <3> QED
        BY <3>1 DEF TypeOK
    <2>4. cache' \in BOOLEAN
      <3>1. cache' \in {TRUE, FALSE} \/ cache' = cache
        BY <1>31 DEF DeviceRemoved, Incident,
           process, control, pumping, locking, sequence, driver, reading, counters
      <3> QED
        BY <3>1 DEF TypeOK
    <2> QED
      BY <1>31, <2>1, <2>2, <2>3, <2>4 DEF DeviceRemoved, Incident, TypeOK, Linked, States,
         Places, Events, Reasons, Exchanges,
       process, control, pumping, locking, sequence, driver, reading, counters
  <1>32. CASE CheckSepReady
    BY <1>32 DEF CheckSepReady, Answer, TypeOK, Linked, States, Places, Events, Reasons,
       Exchanges,
       process, control, pumping, locking, sequence, driver, reading, counters
  <1>33. CASE StoreSepReady
    BY <1>33 DEF StoreSepReady, TypeOK, Linked, States, Places, Events, Reasons, Exchanges,
       process, control, pumping, locking, sequence, driver, reading, counters
  <1>34. CASE InvalidateSepReadyCache
    <2>1. leaving' \in BOOLEAN
      <3>1. leaving' \in {TRUE, FALSE} \/ leaving' = leaving
        BY <1>34 DEF InvalidateSepReadyCache,
           process, control, pumping, locking, sequence, driver, reading, counters
      <3> QED
        BY <3>1 DEF TypeOK
    <2>2. pumpStop' \in BOOLEAN
      <3>1. pumpStop' \in {TRUE, FALSE} \/ pumpStop' = pumpStop
        BY <1>34 DEF InvalidateSepReadyCache,
           process, control, pumping, locking, sequence, driver, reading, counters
      <3> QED
        BY <3>1 DEF TypeOK
    <2>3. device' \in BOOLEAN
      <3>1. device' \in {TRUE, FALSE} \/ device' = device
        BY <1>34 DEF InvalidateSepReadyCache,
           process, control, pumping, locking, sequence, driver, reading, counters
      <3> QED
        BY <3>1 DEF TypeOK
    <2>4. cache' \in BOOLEAN
      <3>1. cache' \in {TRUE, FALSE} \/ cache' = cache
        BY <1>34 DEF InvalidateSepReadyCache,
           process, control, pumping, locking, sequence, driver, reading, counters
      <3> QED
        BY <3>1 DEF TypeOK
    <2> QED
      BY <1>34, <2>1, <2>2, <2>3, <2>4 DEF InvalidateSepReadyCache, TypeOK, Linked, States,
         Places, Events, Reasons, Exchanges,
       process, control, pumping, locking, sequence, driver, reading, counters
  <1>35. CASE UNCHANGED vars
    BY <1>35 DEF TypeOK, Linked, States, Places, Events, Reasons, Exchanges,
       process, control, pumping, locking, sequence, driver, reading, counters, vars
  <1> QED
    BY <1>1, <1>2, <1>3, <1>4, <1>4b, <1>5, <1>6, <1>7, <1>8, <1>9, <1>10, <1>11, <1>12, <1>13,
       <1>14, <1>15, <1>16, <1>17, <1>18, <1>19, <1>20, <1>21, <1>22, <1>23, <1>24, <1>25, <1>26, <1>27,
       <1>28, <1>29, <1>30, <1>31, <1>32, <1>33, <1>34, <1>35 DEF Next, ServiceMain,
       RunBootstrapSequence, StartPendingPumpThread,
       ServiceCtrlHandler, LockWatcherThread

\* Every variable keeps its type, a client is open only during the sequence,
\* the pump has ended when gStatus becomes RUNNING, and a watcher waits on
\* handles that are open.
THEOREM TypeCorrect == Spec => []TypeOK
  BY InitTypes, StepTypes, PTL DEF Spec

\* The exchanges a place in the sequence rests on: what makes ReadyMeansUnlocked
\* inductive.
CarriedOut ==
  /\ main = "system" => {"load"} \subseteq sep
  /\ main = "handle" => {"load", "system"} \subseteq sep
  /\ main = "special" => {"load", "system", "handle"} \subseteq sep
  /\ main \in {"announce", "signal"} => sep = Exchanges

Earned == TypeOK /\ CarriedOut /\ ReadyMeansUnlocked /\ verdict # "Ok"

LEMMA InitEarned == Init => Earned
  BY InitTypes DEF Init, Earned, CarriedOut, ReadyMeansUnlocked

LEMMA StepEarned == Earned /\ [Next]_vars => Earned'
  <1> SUFFICES ASSUME Earned, [Next]_vars
               PROVE  (CarriedOut /\ ReadyMeansUnlocked /\ verdict # "Ok")'
    BY StepTypes DEF Earned
  <1>0. sep \subseteq Exchanges
    BY DEF Earned, TypeOK
  <1>1. CASE Start
    BY <1>1, <1>0 DEF Start, Earned, CarriedOut, ReadyMeansUnlocked, Exchanges,
       process, control, pumping, locking, sequence, driver, reading, counters
  <1>2. CASE wmain
    BY <1>2, <1>0 DEF wmain, ProcessEnds, Earned, CarriedOut, ReadyMeansUnlocked, Exchanges,
       process, control, pumping, locking, sequence, driver, reading, counters
  <1>3. CASE Crash
    BY <1>3, <1>0 DEF Crash, ProcessEnds, Incident, Earned, CarriedOut, ReadyMeansUnlocked,
       Exchanges,
       process, control, pumping, locking, sequence, driver, reading, counters
  <1>4. CASE Register
    BY <1>4, <1>0 DEF Register, AlreadyPrepared, Earned, CarriedOut, ReadyMeansUnlocked,
       Exchanges,
       process, control, pumping, locking, sequence, driver, reading, counters
  <1>4b. CASE RegisterFails
    BY <1>4b, <1>0 DEF RegisterFails, Step, Earned, CarriedOut, ReadyMeansUnlocked, Exchanges,
       process, control, pumping, locking, sequence, driver, reading, counters
  <1>5. CASE StartStartPendingPump
    BY <1>5, <1>0 DEF StartStartPendingPump, Step, Earned, CarriedOut, ReadyMeansUnlocked,
       Exchanges,
       process, control, pumping, locking, sequence, driver, reading, counters
  <1>6. CASE WaitForTransportOpen
    BY <1>6, <1>0 DEF WaitForTransportOpen, NotOpened, Earned, CarriedOut, ReadyMeansUnlocked,
       Exchanges,
       process, control, pumping, locking, sequence, driver, reading, counters
  <1>7. CASE ReadVault
    BY <1>7, <1>0 DEF ReadVault, Pass, Fail, SequenceOnly, Earned, CarriedOut,
       ReadyMeansUnlocked, Exchanges,
       process, control, pumping, locking, sequence, driver, reading, counters
  <1>8. CASE RegisterOol
    BY <1>8, <1>0 DEF RegisterOol, Pass, Fail, SequenceOnly, Earned, CarriedOut,
       ReadyMeansUnlocked, Exchanges,
       process, control, pumping, locking, sequence, driver, reading, counters
  <1>9. ASSUME NEW step \in Exchanges,
  Exchange(step) PROVE (CarriedOut /\ ReadyMeansUnlocked /\ verdict # "Ok")'
    <2> DEFINE next == After[step]
    <2>1. /\ step = "load" => next = "system"
          /\ step = "system" => next = "handle"
          /\ step = "handle" => next = "special"
          /\ step = "special" => next = "announce"
      BY DEF After
    <2>2. step \in {"load", "system", "handle", "special"}
      BY <1>9 DEF Exchanges
    <2>3. /\ main = step
          /\ sep' = sep \cup {step} \/ sep' = sep
          /\ \/ main' = next /\ verdict' = verdict /\ sep' = sep \cup {step}
             \/ main' = "report" /\ verdict' \in Reasons \ {"Ok"}
          /\ client = "open" \/ main' = "report"
      BY <1>9 DEF Exchange, Pass, Fail, Refused, SepDoes, Reasons
    <2>4. SequenceOnly
      BY <1>9 DEF Exchange
    <2> HIDE DEF next
    <2> QED
      BY <2>1, <2>2, <2>3, <2>4, <1>0 DEF SequenceOnly, Earned, CarriedOut, ReadyMeansUnlocked,
         Exchanges,
       process, control, pumping, locking, sequence, driver, reading, counters
  <1>10. CASE ReportExchangeFailure
    BY <1>10, <1>0 DEF ReportExchangeFailure, Report, SetBootstrapStatus, Step, Earned,
       CarriedOut, ReadyMeansUnlocked, Exchanges,
       process, control, pumping, locking, sequence, driver, reading, counters
  <1>11. CASE ReportReady
    BY <1>11, <1>0 DEF ReportReady, Report, SetBootstrapStatus, Step, Earned, CarriedOut,
       ReadyMeansUnlocked, Exchanges,
       process, control, pumping, locking, sequence, driver, reading, counters
  <1>12. CASE SignalReady
    BY <1>12, <1>0 DEF SignalReady, Step, Earned, CarriedOut, ReadyMeansUnlocked, Exchanges,
       process, control, pumping, locking, sequence, driver, reading, counters
  <1>13. CASE StopStartPendingPump
    BY <1>13, <1>0 DEF StopStartPendingPump, Step, Earned, CarriedOut, ReadyMeansUnlocked,
       Exchanges,
       process, control, pumping, locking, sequence, driver, reading, counters
  <1>14. CASE JoinPump
    BY <1>14, <1>0 DEF JoinPump, Step, Earned, CarriedOut, ReadyMeansUnlocked, Exchanges,
       process, control, pumping, locking, sequence, driver, reading, counters
  <1>15. CASE PumpTick
    BY <1>15, <1>0 DEF PumpTick, Earned, CarriedOut, ReadyMeansUnlocked, Exchanges,
       process, control, pumping, locking, sequence, driver, reading, counters
  <1>16. CASE PumpTell
    BY <1>16, <1>0 DEF PumpTell, SetServiceStatus, Earned, CarriedOut, ReadyMeansUnlocked,
       Exchanges,
       process, control, pumping, locking, sequence, driver, reading, counters
  <1>17. CASE CreateEvents
    BY <1>17, <1>0 DEF CreateEvents, Step, Earned, CarriedOut, ReadyMeansUnlocked, Exchanges,
       process, control, pumping, locking, sequence, driver, reading, counters
  <1>18. CASE Run
    BY <1>18, <1>0 DEF Run, Step, Earned, CarriedOut, ReadyMeansUnlocked, Exchanges,
       process, control, pumping, locking, sequence, driver, reading, counters
  <1>19. CASE TellRun
    BY <1>19, <1>0 DEF TellRun, Step, SetServiceStatus, Earned, CarriedOut, ReadyMeansUnlocked,
       Exchanges,
       process, control, pumping, locking, sequence, driver, reading, counters
  <1>20. CASE Idle
    BY <1>20, <1>0 DEF Idle, Step, Earned, CarriedOut, ReadyMeansUnlocked, Exchanges,
       process, control, pumping, locking, sequence, driver, reading, counters
  <1>21. CASE Leave
    BY <1>21, <1>0 DEF Leave, Step, Earned, CarriedOut, ReadyMeansUnlocked, Exchanges,
       process, control, pumping, locking, sequence, driver, reading, counters
  <1>22. CASE Control
    BY <1>22, <1>0 DEF Control, Incident, Earned, CarriedOut, ReadyMeansUnlocked, Exchanges,
       process, control, pumping, locking, sequence, driver, reading, counters
  <1>23. CASE TellPending
    BY <1>23, <1>0 DEF TellPending, Handle, SetServiceStatus, Earned, CarriedOut,
       ReadyMeansUnlocked, Exchanges,
       process, control, pumping, locking, sequence, driver, reading, counters
  <1>24. CASE SignalStop
    BY <1>24, <1>0 DEF SignalStop, Handle, Earned, CarriedOut, ReadyMeansUnlocked, Exchanges,
       process, control, pumping, locking, sequence, driver, reading, counters
  <1>25. CASE Stopped
    BY <1>25, <1>0 DEF Stopped, Handle, Earned, CarriedOut, ReadyMeansUnlocked, Exchanges,
       process, control, pumping, locking, sequence, driver, reading, counters
  <1>26. CASE TellStopped
    BY <1>26, <1>0 DEF TellStopped, Handle, SetServiceStatus, Earned, CarriedOut,
       ReadyMeansUnlocked, Exchanges,
       process, control, pumping, locking, sequence, driver, reading, counters
  <1>27. CASE RequestWorkstationLock
    BY <1>27, <1>0 DEF RequestWorkstationLock, Earned, CarriedOut, ReadyMeansUnlocked, Exchanges,
       process, control, pumping, locking, sequence, driver, reading, counters
  <1>28. CASE Watch
    BY <1>28, <1>0 DEF Watch, Earned, CarriedOut, ReadyMeansUnlocked, Exchanges,
       process, control, pumping, locking, sequence, driver, reading, counters
  <1>29. CASE LockInteractiveSession
    BY <1>29, <1>0 DEF LockInteractiveSession, WatchOn, Earned, CarriedOut, ReadyMeansUnlocked,
       Exchanges,
       process, control, pumping, locking, sequence, driver, reading, counters
  <1>30. CASE DeviceArrives
    BY <1>30, <1>0 DEF DeviceArrives, Earned, CarriedOut, ReadyMeansUnlocked, Exchanges,
       process, control, pumping, locking, sequence, driver, reading, counters
  <1>31. CASE DeviceRemoved
    BY <1>31, <1>0 DEF DeviceRemoved, Incident, Earned, CarriedOut, ReadyMeansUnlocked, Exchanges,
       process, control, pumping, locking, sequence, driver, reading, counters
  <1>32. CASE CheckSepReady
    BY <1>32, <1>0 DEF CheckSepReady, Answer, Earned, CarriedOut, ReadyMeansUnlocked, Exchanges,
       process, control, pumping, locking, sequence, driver, reading, counters
  <1>33. CASE StoreSepReady
    BY <1>33, <1>0 DEF StoreSepReady, Earned, CarriedOut, ReadyMeansUnlocked, Exchanges,
       process, control, pumping, locking, sequence, driver, reading, counters
  <1>34. CASE InvalidateSepReadyCache
    BY <1>34, <1>0 DEF InvalidateSepReadyCache, Earned, CarriedOut, ReadyMeansUnlocked, Exchanges,
       process, control, pumping, locking, sequence, driver, reading, counters
  <1>35. CASE UNCHANGED vars
    BY <1>35, <1>0 DEF Earned, CarriedOut, ReadyMeansUnlocked, Exchanges,
       process, control, pumping, locking, sequence, driver, reading, counters, vars
  <1> QED
    BY <1>1, <1>2, <1>3, <1>4, <1>4b, <1>5, <1>6, <1>7, <1>8, <1>9, <1>10, <1>11, <1>12, <1>13,
       <1>14, <1>15, <1>16, <1>17, <1>18, <1>19, <1>20, <1>21, <1>22, <1>23, <1>24, <1>25, <1>26, <1>27,
       <1>28, <1>29, <1>30, <1>31, <1>32, <1>33, <1>34, <1>35 DEF Next, ServiceMain,
       RunBootstrapSequence, StartPendingPumpThread,
       ServiceCtrlHandler, LockWatcherThread

\* The event, the status in the driver and the sensor speak of a ready SEP only
\* when it has carried out every exchange, whatever failed, crashed, was removed
\* or was started again on the way.
THEOREM ReadyIsEarned == Spec => []ReadyMeansUnlocked
  <1>1. Earned => ReadyMeansUnlocked
    BY DEF Earned
  <1> QED
    BY InitEarned, StepEarned, <1>1, PTL DEF Spec

=============================================================================
