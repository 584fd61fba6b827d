------------------------- MODULE T2TransportProofs -------------------------
(***************************************************************************)
(* Theorems about T2Transport.  Each invariant is proved inductive in      *)
(* the company of the ones stated before it.                               *)
(***************************************************************************)
EXTENDS T2Transport, SequenceTheorems, TLAPS

Active == {"HardwareReady", "RegisteringOol", "Ready"}

-----------------------------------------------------------------------------
(* Type correctness. *)

\* What the model does with messages and queues of them keeps them so.
LEMMA TypeFacts ==
  /\ NoMsg \in Messages
  /\ \A which \in {"in", "out"}, b \in Bufs \cup {NoBuf} : SetOol(which, b) \in Messages
  /\ \A t \in 0 .. TxnMod - 1 : Aks(t) \in Messages
  /\ \A m \in Messages, ok \in BOOLEAN : [m EXCEPT !.ok = ok] \in Messages
  /\ \A q \in Seq(Messages) : Age(q) \in Seq(Messages) /\ Estrange(q) \in Seq(Messages)
  /\ \A q \in Seq(Messages) :
       q # <<>> => Head(q) \in Messages /\ Tail(q) \in Seq(Messages)
  /\ \A q \in Seq(Messages), m \in Messages :
       Append(q, m) \in Seq(Messages) /\ <<m>> \in Seq(Messages)
<1> USE NumbersAssumption
<1>1. 0 \in 0 .. ForeignAge /\ 0 \in 0 .. TxnMod - 1
  BY DEF ForeignAge
<1>2. NoMsg \in Messages
  BY <1>1 DEF NoMsg, Messages
<1>3. \A which \in {"in", "out"}, b \in Bufs \cup {NoBuf} : SetOol(which, b) \in Messages
  BY <1>2 DEF SetOol, Messages
<1>4. \A t \in 0 .. TxnMod - 1 : Aks(t) \in Messages
  BY <1>2 DEF Aks, Messages
<1>5. \A m \in Messages : Older(m) \in Messages /\ Alien(m) \in Messages
  BY DEF Older, Alien, Messages, WrapAge, ForeignAge
<1>6. \A m \in Messages, ok \in BOOLEAN : [m EXCEPT !.ok = ok] \in Messages
  BY DEF Messages
<1>7. ASSUME NEW q \in Seq(Messages) PROVE Age(q) \in Seq(Messages) /\ Estrange(q) \in Seq(Messages)
  BY <1>5 DEF Age, Estrange
<1>8. ASSUME NEW q \in Seq(Messages), q # <<>>
      PROVE Head(q) \in Messages /\ Tail(q) \in Seq(Messages)
  BY <1>8
<1>9. ASSUME NEW q \in Seq(Messages), NEW m \in Messages
      PROVE Append(q, m) \in Seq(Messages) /\ <<m>> \in Seq(Messages)
  OBVIOUS
<1> QED
  BY <1>2, <1>3, <1>4, <1>6, <1>7, <1>8, <1>9

\* The two helpers of a registration that write the most keep the types.
LEMMA MarkExposedType ==
  ASSUME TypeOK, NEW which \in {"in", "out"}, MarkExposed(which)
  PROVE  /\ mayKnow' \in BOOLEAN /\ refs' \subseteq Bufs \cup {NoBuf}
         /\ pinnedIn' \in BOOLEAN /\ pinnedOut' \in BOOLEAN
<1>1. mayKnow' \in BOOLEAN /\ pinnedIn' \in BOOLEAN /\ pinnedOut' \in BOOLEAN
  BY DEF MarkExposed
<1>2. refs' \subseteq refs \cup {inBuf, outBuf}
  BY DEF MarkExposed
<1> QED
  BY <1>1, <1>2 DEF TypeOK

\* As MarkExposedType, for the failure branches.
LEMMA RegisterFailedType ==
  ASSUME TypeOK, NEW exposed \in BOOLEAN, RegisterFailed(exposed)
  PROVE  /\ state' \in States /\ ioPc' \in IoPcs /\ lock' \in {"free", "io"}
         /\ inBuf' \in Bufs \cup {NoBuf} /\ outBuf' \in Bufs \cup {NoBuf}
         /\ live' \subseteq Bufs /\ freed' \subseteq Bufs
BY DEF TypeOK, RegisterFailed, FreeOolBuffers, Complete, States, IoPcs

\* One step per action.
LEMMA TypeStep == TypeOK /\ [Next]_vars => TypeOK'
<1> SUFFICES ASSUME TypeOK, [Next]_vars PROVE TypeOK'
  OBVIOUS
<1> USE DEF TypeOK, InLock, Exchanging, Registering, IoPcs, PnpPhases, States,
            ctxVars, memVars, pciVars, pnpVars, ioVars, sepVars
<1>1. CASE AksArrives
  BY <1>1 DEF AksArrives, Goto
<1>2. CASE RegisterArrives
  BY <1>2 DEF RegisterArrives, Goto
<1>3. CASE GetStatusArrives
  BY <1>3 DEF GetStatusArrives, Goto
<1>4. CASE GetStatusLocks
  BY <1>4 DEF GetStatusLocks, Complete
<1>5. CASE GetStatusReads
  BY <1>5 DEF GetStatusReads, Complete
<1>6. CASE RegisterDeclined
  BY <1>6 DEF RegisterDeclined, Complete
<1>7. CASE RegisterStarts
  BY <1>7 DEF RegisterStarts, Goto, Fresh
<1>8. CASE RegisterNotStarted
  BY <1>8 DEF RegisterNotStarted, Complete, Fresh
<1>9. ASSUME NEW which \in {"in", "out"}, SetOolSent(which) PROVE TypeOK'
  <2>1. outbox' \in Seq(Messages) /\ sepQ' \in Seq(Messages) /\ inbox' \in Seq(Messages)
    BY <1>9, TypeFacts DEF SetOolSent, OolBuf
  <2>2. QED
    BY <1>9, <2>1, NumbersAssumption DEF SetOolSent, Goto, OolBuf
<1>10. ASSUME NEW which \in {"in", "out"}, SetOolNotSent(which) PROVE TypeOK'
  BY <1>10 DEF SetOolNotSent, RegisterFailed, FreeOolBuffers, Complete
<1>11. ASSUME NEW which \in {"in", "out"}, SetOolReceives(which) PROVE TypeOK'
  <2>1. outbox' \in Seq(Messages) /\ sepQ' \in Seq(Messages) /\ inbox' \in Seq(Messages)
    BY <1>11, TypeFacts DEF SetOolReceives, InboxEmpty
  <2>4. skipped' \in 0 .. MaxSkip
    <3>1. skipped' = skipped \/ (skipped + 1 < MaxSkip /\ skipped' = skipped + 1)
      BY <1>11, Zenon DEF SetOolReceives
    <3> QED
      BY <3>1, NumbersAssumption
  <2>5. UNCHANGED <<barMapped, nextTxn, powered, busMaster, got, fault, pnp, contexts, wasReg,
                    sepIn, sepOut, known>>
    BY <1>11 DEF SetOolReceives
  <2>6. CASE Head(inbox).kind = which /\ Head(inbox).ok
    <3>1. MarkExposed(which)
      BY <1>11, <2>6 DEF SetOolReceives
    <3>2. /\ mayKnow' \in BOOLEAN /\ refs' \subseteq Bufs \cup {NoBuf}
          /\ pinnedIn' \in BOOLEAN /\ pinnedOut' \in BOOLEAN
      BY <3>1, MarkExposedType
    <3>3. UNCHANGED <<inBuf, outBuf, live, freed>>
      BY <1>11, <2>6 DEF SetOolReceives
    <3>4. /\ state' \in {state, "Ready"} /\ ioPc' \in {"idle", "outSend"}
          /\ lock' \in {"free", "io"} /\ inReg' \in BOOLEAN /\ outReg' \in BOOLEAN
      BY <1>11, <2>6 DEF SetOolReceives, Complete
    <3> QED
      BY <2>1, <2>4, <2>5, <3>2, <3>3, <3>4
  <2>7. CASE ~(Head(inbox).kind = which /\ Head(inbox).ok)
    <3>1. \/ UNCHANGED <<state, inReg, outReg, mayKnow, inBuf, outBuf, pinnedIn, pinnedOut,
                         memVars, lock, ioPc>>
          \/ MarkExposed(which) /\ RegisterFailed(TRUE) /\ UNCHANGED <<inReg, outReg>>
      BY <1>11, <2>7 DEF SetOolReceives
    <3>2. CASE UNCHANGED <<state, inReg, outReg, mayKnow, inBuf, outBuf, pinnedIn, pinnedOut,
                           memVars, lock, ioPc>>
      BY <2>1, <2>4, <2>5, <3>2
    <3>3. CASE MarkExposed(which) /\ RegisterFailed(TRUE) /\ UNCHANGED <<inReg, outReg>>
      <4>1. /\ mayKnow' \in BOOLEAN /\ refs' \subseteq Bufs \cup {NoBuf}
            /\ pinnedIn' \in BOOLEAN /\ pinnedOut' \in BOOLEAN
        BY <3>3, MarkExposedType
      <4>2. /\ state' \in States /\ ioPc' \in IoPcs /\ lock' \in {"free", "io"}
            /\ inBuf' \in Bufs \cup {NoBuf} /\ outBuf' \in Bufs \cup {NoBuf}
            /\ live' \subseteq Bufs /\ freed' \subseteq Bufs
        BY <3>3, RegisterFailedType
      <4> QED
        BY <2>1, <2>4, <2>5, <3>3, <4>1, <4>2
    <3> QED
      BY <3>1, <3>2, <3>3
  <2> QED
    BY <2>6, <2>7
<1>12. ASSUME NEW which \in {"in", "out"}, SetOolTimesOut(which) PROVE TypeOK'
  BY <1>12 DEF SetOolTimesOut, MarkExposed, RegisterFailed, FreeOolBuffers, Complete
<1>13. CASE AksDeclined
  BY <1>13 DEF AksDeclined, Complete
<1>14. CASE AksStarts
  <2>1. outbox' \in Seq(Messages) /\ sepQ' \in Seq(Messages) /\ inbox' \in Seq(Messages)
    BY <1>14, TypeFacts DEF AksStarts
  <2>3. Bump(nextTxn) \in 0 .. TxnMod - 1
    BY NumbersAssumption DEF Bump
  <2>2. QED
    BY <1>14, <2>1, <2>3 DEF AksStarts, Goto
<1>15. CASE AksSent
  <2>1. outbox' \in Seq(Messages) /\ sepQ' \in Seq(Messages) /\ inbox' \in Seq(Messages)
    BY <1>15, TypeFacts DEF AksSent
  <2>2. QED
    BY <1>15, <2>1, NumbersAssumption DEF AksSent, Goto
<1>16. CASE AksNotSent
  BY <1>16 DEF AksNotSent, Complete
<1>17. CASE AksReceives
  <2>1. outbox' \in Seq(Messages) /\ sepQ' \in Seq(Messages) /\ inbox' \in Seq(Messages)
    BY <1>17, TypeFacts DEF AksReceives, InboxEmpty
  <2>3. Head(inbox).age \in 0 .. ForeignAge
    BY <1>17, TypeFacts DEF AksReceives, InboxEmpty, Messages
  <2>4. skipped' \in 0 .. MaxSkip
    BY <1>17, NumbersAssumption DEF AksReceives
  <2>2. QED
    BY <1>17, <2>1, <2>3, <2>4 DEF AksReceives, Complete
<1>18. CASE AksTimesOut
  BY <1>18 DEF AksTimesOut, Complete
<1>19. CASE AksCompletes
  BY <1>19 DEF AksCompletes, Complete
<1>20. CASE PrepareHardware
  BY <1>20 DEF PrepareHardware
<1>21. CASE PrepareHardwareFails
  BY <1>21 DEF PrepareHardwareFails
<1>22. CASE PrepareHardwareSetsState
  BY <1>22 DEF PrepareHardwareSetsState
<1>23. CASE D0Entry
  BY <1>23 DEF D0Entry
<1>24. CASE D0Exit
  BY <1>24 DEF D0Exit
<1>25. CASE ReleaseHardwareStops
  BY <1>25 DEF ReleaseHardwareStops
<1>26. CASE ReleaseHardwareUnmaps
  <2>1. barMapped' \in BOOLEAN
    BY <1>26, Zenon DEF ReleaseHardwareUnmaps
  <2> QED
    BY <1>26, <2>1 DEF ReleaseHardwareUnmaps, FreeOolBuffers, OolExposed
<1>27. CASE ReleaseHardwareEnds
  BY <1>27 DEF ReleaseHardwareEnds
<1>28. CASE DeviceDeleted
  BY <1>28 DEF DeviceDeleted
<1>29. CASE DeviceAdd
  <2>1. /\ barMapped' \in BOOLEAN /\ inReg' \in BOOLEAN /\ outReg' \in BOOLEAN
       /\ mayKnow' \in BOOLEAN /\ pinnedIn' \in BOOLEAN /\ pinnedOut' \in BOOLEAN
       /\ wasReg' \in BOOLEAN
    BY <1>29, Zenon DEF DeviceAdd
  <2>3. outbox' \in Seq(Messages) /\ sepQ' \in Seq(Messages) /\ inbox' \in Seq(Messages)
    BY <1>29, TypeFacts DEF DeviceAdd
  <2>4. nextTxn' \in 0 .. TxnMod - 1
    BY <1>29, NumbersAssumption DEF DeviceAdd
  <2> QED
    BY <1>29, <2>1, <2>3, <2>4 DEF DeviceAdd
<1>30. CASE PowerDown
  <2>1. powered' \in BOOLEAN /\ busMaster' \in BOOLEAN
    BY <1>30, Zenon DEF PowerDown
  <2> QED
    BY <1>30, <2>1 DEF PowerDown
<1>31. CASE PowerUp
  BY <1>31 DEF PowerUp
<1>32. CASE SepTakes
  BY <1>32, TypeFacts DEF SepTakes
<1>33. CASE SepReplies
  <2>1. outbox' \in Seq(Messages) /\ sepQ' \in Seq(Messages) /\ inbox' \in Seq(Messages)
    BY <1>33, TypeFacts DEF SepReplies
  <2>3. Head(sepQ).buf \in Bufs \cup {NoBuf}
    BY <1>33, TypeFacts DEF SepReplies, Messages
  <2>2. QED
    BY <1>33, <2>1, <2>3 DEF SepReplies
<1>34. CASE SepInterjects
  BY <1>34, TypeFacts DEF SepInterjects
<1>35. CASE UNCHANGED vars
  BY <1>35 DEF vars
<1> HIDE DEF TypeOK, InLock, Exchanging, Registering, IoPcs, PnpPhases, States,
            ctxVars, memVars, pciVars, pnpVars, ioVars, sepVars
<1> QED
  BY <1>1, <1>2, <1>3, <1>4, <1>5, <1>6, <1>7, <1>8, <1>9, <1>10, <1>11, <1>12, <1>13,
     <1>14, <1>15, <1>16, <1>17, <1>18, <1>19, <1>20, <1>21, <1>22, <1>23, <1>24,
     <1>25, <1>26, <1>27, <1>28, <1>29, <1>30, <1>31, <1>32, <1>33, <1>34, <1>35
  DEF Next, Arrive, IoStep, PnpStep, ReleaseStep, SepStep

\* Every variable keeps its type, whatever the SEP and the framework do.
THEOREM TypeCorrect == Spec => []TypeOK
<1>1. ASSUME Init PROVE TypeOK
  <2>1. /\ barMapped \in BOOLEAN /\ inReg \in BOOLEAN /\ outReg \in BOOLEAN
        /\ mayKnow \in BOOLEAN /\ pinnedIn \in BOOLEAN /\ pinnedOut \in BOOLEAN
        /\ powered \in BOOLEAN /\ busMaster \in BOOLEAN /\ fault \in BOOLEAN
        /\ wasReg \in BOOLEAN
    BY <1>1, Zenon DEF Init
  <2> QED
    BY <1>1, <2>1, NumbersAssumption DEF Init, TypeOK, States, IoPcs, PnpPhases, ForeignAge
<1> QED
  BY <1>1, TypeStep, PTL DEF Spec

-----------------------------------------------------------------------------
(* Who holds ExchangeLock, and what the lifecycle may be meanwhile.        *)

\* The state is an active one only between the end of PrepareHardware and
\* ReleaseHardware, and BAR4 is mapped all that time.
Lifecycle ==
  /\ state \in Active => pnp \in {"off", "D0"}
  /\ pnp \in {"off", "D0"} => state \in Active \cup {"Invalid"}
  /\ pnp \in {"mapped", "off", "D0"} => barMapped

LockInv == LockedExchange /\ Lifecycle

\* One step per action: the callbacks take the lock, a request has it.
LEMMA LockStep == LockInv /\ [Next]_vars => LockInv'
<1> SUFFICES ASSUME LockInv, [Next]_vars PROVE LockInv'
  OBVIOUS
<1> USE DEF InLock, Exchanging, Registering, Active, LockInv, LockedExchange,
            Lifecycle, ctxVars, memVars, pciVars, pnpVars, ioVars, sepVars
<1>1. CASE AksArrives
  BY <1>1 DEF AksArrives, Goto
<1>2. CASE RegisterArrives
  BY <1>2 DEF RegisterArrives, Goto
<1>3. CASE GetStatusArrives
  BY <1>3 DEF GetStatusArrives, Goto
<1>4. CASE GetStatusLocks
  BY <1>4 DEF GetStatusLocks, Complete
<1>5. CASE GetStatusReads
  BY <1>5 DEF GetStatusReads, Complete
<1>6. CASE RegisterDeclined
  BY <1>6 DEF RegisterDeclined, Complete
<1>7. CASE RegisterStarts
  BY <1>7 DEF RegisterStarts, Goto
<1>8. CASE RegisterNotStarted
  BY <1>8 DEF RegisterNotStarted, Complete
<1>9. ASSUME NEW which \in {"in", "out"}, SetOolSent(which) PROVE LockInv'
  BY <1>9 DEF SetOolSent, Goto
<1>10. ASSUME NEW which \in {"in", "out"}, SetOolNotSent(which) PROVE LockInv'
  BY <1>10 DEF SetOolNotSent, RegisterFailed, FreeOolBuffers, Complete
<1>11. ASSUME NEW which \in {"in", "out"}, SetOolReceives(which) PROVE LockInv'
  BY <1>11 DEF SetOolReceives, MarkExposed, RegisterFailed, FreeOolBuffers, Complete
<1>12. ASSUME NEW which \in {"in", "out"}, SetOolTimesOut(which) PROVE LockInv'
  BY <1>12 DEF SetOolTimesOut, MarkExposed, RegisterFailed, FreeOolBuffers, Complete
<1>13. CASE AksDeclined
  BY <1>13 DEF AksDeclined, Complete
<1>14. CASE AksStarts
  BY <1>14 DEF AksStarts, Goto
<1>15. CASE AksSent
  BY <1>15 DEF AksSent, Goto
<1>16. CASE AksNotSent
  BY <1>16 DEF AksNotSent, Complete
<1>17. CASE AksReceives
  BY <1>17 DEF AksReceives, Complete
<1>18. CASE AksTimesOut
  BY <1>18 DEF AksTimesOut, Complete
<1>19. CASE AksCompletes
  BY <1>19 DEF AksCompletes, Complete
<1>20. CASE PrepareHardware
  BY <1>20 DEF PrepareHardware
<1>21. CASE PrepareHardwareFails
  BY <1>21 DEF PrepareHardwareFails
<1>22. CASE PrepareHardwareSetsState
  BY <1>22 DEF PrepareHardwareSetsState
<1>23. CASE D0Entry
  BY <1>23 DEF D0Entry
<1>24. CASE D0Exit
  BY <1>24 DEF D0Exit
<1>25. CASE ReleaseHardwareStops
  BY <1>25 DEF ReleaseHardwareStops
<1>26. CASE ReleaseHardwareUnmaps
  BY <1>26 DEF ReleaseHardwareUnmaps, FreeOolBuffers
<1>27. CASE ReleaseHardwareEnds
  BY <1>27 DEF ReleaseHardwareEnds
<1>28. CASE DeviceDeleted
  BY <1>28 DEF DeviceDeleted
<1>29. CASE DeviceAdd
  BY <1>29 DEF DeviceAdd
<1>30. CASE PowerDown
  BY <1>30 DEF PowerDown
<1>31. CASE PowerUp
  BY <1>31 DEF PowerUp
<1>32. CASE SepTakes
  BY <1>32 DEF SepTakes
<1>33. CASE SepReplies
  BY <1>33 DEF SepReplies
<1>34. CASE SepInterjects
  BY <1>34 DEF SepInterjects
<1>35. CASE UNCHANGED vars
  BY <1>35 DEF vars
<1> HIDE DEF InLock, Exchanging, Registering, Active, LockInv, LockedExchange,
            Lifecycle, ctxVars, memVars, pciVars, pnpVars, ioVars, sepVars
<1> QED
  BY <1>1, <1>2, <1>3, <1>4, <1>5, <1>6, <1>7, <1>8, <1>9, <1>10, <1>11, <1>12, <1>13,
     <1>14, <1>15, <1>16, <1>17, <1>18, <1>19, <1>20, <1>21, <1>22, <1>23, <1>24,
     <1>25, <1>26, <1>27, <1>28, <1>29, <1>30, <1>31, <1>32, <1>33, <1>34, <1>35
  DEF Next, Arrive, IoStep, PnpStep, ReleaseStep, SepStep

\* ExchangeLock excludes the power and PnP callbacks from a running exchange:
\* BAR4 stays mapped and the state stays the one the exchange started in.
THEOREM LockedExchangeAlways == Spec => []LockedExchange
<1>1. Init => LockInv
  BY DEF Init, LockInv, LockedExchange, Lifecycle, InLock, Exchanging, Registering, Active
<1>2. LockInv => LockedExchange
  BY DEF LockInv
<1> QED
  BY <1>1, <1>2, LockStep, PTL DEF Spec

-----------------------------------------------------------------------------
(* What the SEP knows. *)

\* A buffer of the context the SEP may know while the context has not recorded
\* it is one whose SET_OOL is on its way.
Exposure ==
  /\ inReg \/ outReg => mayKnow
  /\ ~mayKnow => /\ outBuf \notin known
                 /\ ioPc # "inRecv" => inBuf \notin known
  /\ ioPc \in {"outSend", "outRecv"} => mayKnow
  /\ ioPc \in Registering => inBuf \in live /\ outBuf \in live
  /\ live \subseteq Bufs /\ freed \subseteq Bufs /\ known \subseteq live \cup freed
  /\ live \cap freed = {}
  /\ inBuf = NoBuf \/ inBuf # outBuf
  /\ inBuf \in live \cup freed \cup {NoBuf} /\ outBuf \in live \cup freed \cup {NoBuf}

MemInv == LockInv /\ Exposure

\* One step per action: an address is recorded before the lock is let go.
LEMMA ExposureStep == LockInv /\ Exposure /\ [Next]_vars => Exposure'
<1> SUFFICES ASSUME LockInv, Exposure, [Next]_vars PROVE Exposure'
  OBVIOUS
<1> USE DEF LockInv, LockedExchange, Lifecycle, InLock, Exchanging, Registering,
            Active, Exposure, ctxVars, memVars, pciVars, pnpVars, ioVars, sepVars
<1>1. CASE AksArrives
  BY <1>1 DEF AksArrives, Goto
<1>2. CASE RegisterArrives
  BY <1>2 DEF RegisterArrives, Goto
<1>3. CASE GetStatusArrives
  BY <1>3 DEF GetStatusArrives, Goto
<1>4. CASE GetStatusLocks
  BY <1>4 DEF GetStatusLocks, Complete
<1>5. CASE GetStatusReads
  BY <1>5 DEF GetStatusReads, Complete
<1>6. CASE RegisterDeclined
  BY <1>6 DEF RegisterDeclined, Complete
<1>7. CASE RegisterStarts
  BY <1>7, BufsAssumption DEF RegisterStarts, Goto, Fresh
<1>8. CASE RegisterNotStarted
  BY <1>8, BufsAssumption DEF RegisterNotStarted, Complete, Fresh
<1>9. ASSUME NEW which \in {"in", "out"}, SetOolSent(which) PROVE Exposure'
  BY <1>9, BufsAssumption DEF SetOolSent, Goto, OolBuf
<1>10. ASSUME NEW which \in {"in", "out"}, SetOolNotSent(which) PROVE Exposure'
  BY <1>10, BufsAssumption DEF SetOolNotSent, RegisterFailed, FreeOolBuffers, Complete
<1>11. ASSUME NEW which \in {"in", "out"}, SetOolReceives(which) PROVE Exposure'
  BY <1>11, BufsAssumption
  DEF SetOolReceives, MarkExposed, RegisterFailed, FreeOolBuffers, Complete
<1>12. ASSUME NEW which \in {"in", "out"}, SetOolTimesOut(which) PROVE Exposure'
  BY <1>12, BufsAssumption
  DEF SetOolTimesOut, MarkExposed, RegisterFailed, FreeOolBuffers, Complete
<1>13. CASE AksDeclined
  BY <1>13 DEF AksDeclined, Complete
<1>14. CASE AksStarts
  BY <1>14 DEF AksStarts, Goto
<1>15. CASE AksSent
  BY <1>15 DEF AksSent, Goto
<1>16. CASE AksNotSent
  BY <1>16 DEF AksNotSent, Complete
<1>17. CASE AksReceives
  BY <1>17 DEF AksReceives, Complete
<1>18. CASE AksTimesOut
  BY <1>18 DEF AksTimesOut, Complete
<1>19. CASE AksCompletes
  BY <1>19 DEF AksCompletes, Complete
<1>20. CASE PrepareHardware
  BY <1>20 DEF PrepareHardware
<1>21. CASE PrepareHardwareFails
  BY <1>21 DEF PrepareHardwareFails
<1>22. CASE PrepareHardwareSetsState
  BY <1>22 DEF PrepareHardwareSetsState
<1>23. CASE D0Entry
  BY <1>23 DEF D0Entry
<1>24. CASE D0Exit
  BY <1>24 DEF D0Exit
<1>25. CASE ReleaseHardwareStops
  BY <1>25 DEF ReleaseHardwareStops
<1>26. CASE ReleaseHardwareUnmaps
  BY <1>26, BufsAssumption DEF ReleaseHardwareUnmaps, FreeOolBuffers, OolExposed
<1>27. CASE ReleaseHardwareEnds
  BY <1>27 DEF ReleaseHardwareEnds
<1>28. CASE DeviceDeleted
  BY <1>28 DEF DeviceDeleted
<1>29. CASE DeviceAdd
  BY <1>29, BufsAssumption DEF DeviceAdd
<1>30. CASE PowerDown
  BY <1>30 DEF PowerDown
<1>31. CASE PowerUp
  BY <1>31 DEF PowerUp
<1>32. CASE SepTakes
  BY <1>32 DEF SepTakes
<1>33. CASE SepReplies
  BY <1>33 DEF SepReplies
<1>34. CASE SepInterjects
  BY <1>34 DEF SepInterjects
<1>35. CASE UNCHANGED vars
  BY <1>35 DEF vars
<1> HIDE DEF LockInv, LockedExchange, Lifecycle, InLock, Exchanging, Registering,
            Active, Exposure, ctxVars, memVars, pciVars, pnpVars, ioVars, sepVars
<1> QED
  BY <1>1, <1>2, <1>3, <1>4, <1>5, <1>6, <1>7, <1>8, <1>9, <1>10, <1>11, <1>12, <1>13,
     <1>14, <1>15, <1>16, <1>17, <1>18, <1>19, <1>20, <1>21, <1>22, <1>23, <1>24,
     <1>25, <1>26, <1>27, <1>28, <1>29, <1>30, <1>31, <1>32, <1>33, <1>34, <1>35
  DEF Next, Arrive, IoStep, PnpStep, ReleaseStep, SepStep

LEMMA MemInvariant == Spec => []MemInv
<1>1. Init => MemInv
  BY BufsAssumption
  DEF Init, MemInv, LockInv, LockedExchange, Lifecycle, Exposure, InLock, Exchanging,
      Registering, Active
<1>2. MemInv /\ [Next]_vars => MemInv'
  BY LockStep, ExposureStep DEF MemInv
<1> QED
  BY <1>1, <1>2, PTL DEF Spec

\* The bookkeeping of dma.c is complete: between exchanges, no buffer of the
\* context is known to the SEP without the context having recorded it.
THEOREM ExposureAlwaysRecorded == Spec => []ExposureRecorded
<1>1. MemInv => ExposureRecorded
  BY DEF MemInv, LockInv, LockedExchange, Exposure, ExposureRecorded, InLock, Registering
<1> QED
  BY <1>1, MemInvariant, PTL

\* No step of the driver's own code deletes memory the SEP was told of.
THEOREM FreesOnlyUnknown == Spec => DriverFreesOnlyUnknown
<1>1. ASSUME MemInv, [Next]_vars, pnp' # "gone"
      PROVE  (freed' \ freed) \cap known = {}
  <2> USE <1>1 DEF MemInv, LockInv, LockedExchange, Lifecycle, Exposure, InLock, Exchanging,
               Registering, Active, ctxVars, memVars, pciVars, pnpVars, ioVars, sepVars
  <2>1. CASE RegisterNotStarted
    BY <2>1 DEF RegisterNotStarted, Complete, Fresh
  <2>2. ASSUME NEW which \in {"in", "out"}, SetOolNotSent(which)
        PROVE (freed' \ freed) \cap known = {}
    BY <2>2 DEF SetOolNotSent, RegisterFailed, FreeOolBuffers
  <2>3. ASSUME NEW which \in {"in", "out"}, SetOolReceives(which)
        PROVE (freed' \ freed) \cap known = {}
    BY <2>3 DEF SetOolReceives, RegisterFailed, FreeOolBuffers, Complete
  <2>4. ASSUME NEW which \in {"in", "out"}, SetOolTimesOut(which)
        PROVE (freed' \ freed) \cap known = {}
    BY <2>4 DEF SetOolTimesOut, RegisterFailed, FreeOolBuffers
  <2>5. CASE ReleaseHardwareUnmaps
    BY <2>5 DEF ReleaseHardwareUnmaps, FreeOolBuffers, OolExposed
  <2>6. CASE DeviceDeleted
    BY <2>6 DEF DeviceDeleted
  <2>7. CASE UNCHANGED freed
    BY <2>7
  <2>8. ASSUME NEW which \in {"in", "out"}, SetOolSent(which) PROVE UNCHANGED freed
    BY <2>8 DEF SetOolSent
  <2>9. Arrive \/ SepStep \/ PowerDown \/ PowerUp \/ UNCHANGED vars => UNCHANGED freed
    BY
    DEF Arrive, AksArrives, RegisterArrives, GetStatusArrives, SepStep, SepTakes,
        SepReplies,
           SepInterjects, PowerDown, PowerUp, vars
  <2>10. GetStatusLocks \/ GetStatusReads \/ RegisterDeclined \/ RegisterStarts \/ AksDeclined
           \/ AksStarts \/ AksSent \/ AksNotSent \/ AksReceives \/ AksTimesOut \/ AksCompletes
           => UNCHANGED freed
    BY DEF GetStatusLocks, GetStatusReads, RegisterDeclined, RegisterStarts, AksDeclined,
           AksStarts, AksSent, AksNotSent, AksReceives, AksTimesOut, AksCompletes
  <2>11. PrepareHardware \/ PrepareHardwareFails \/ PrepareHardwareSetsState \/ D0Entry \/ D0Exit
           \/ ReleaseHardwareStops \/ ReleaseHardwareEnds \/ DeviceAdd => UNCHANGED freed
    BY DEF PrepareHardware, PrepareHardwareFails, PrepareHardwareSetsState, D0Entry, D0Exit,
           ReleaseHardwareStops, ReleaseHardwareEnds, DeviceAdd
  <2> QED
    BY <2>1, <2>2, <2>3, <2>4, <2>5, <2>6, <2>7, <2>8, <2>9, <2>10, <2>11
    DEF Next, IoStep, PnpStep, ReleaseStep
<1> QED
  BY <1>1, MemInvariant, PTL DEF Spec, DriverFreesOnlyUnknown

-----------------------------------------------------------------------------
(* A context that exposed an address. *)

Retirement ==
  /\ state = "Invalid" => OolExposed
  /\ pnp = "unmapped" => wasReg = OolExposed
  /\ state = "Stopping" => pnp \notin {"off", "D0"}
  /\ pnp \in {"stopping", "unmapped"} => state = "Stopping"

RetireInv == MemInv /\ Retirement

\* One step per action: Invalid is reached with an address exposed.
LEMMA RetireStep == MemInv /\ Retirement /\ [Next]_vars => Retirement'
<1> SUFFICES ASSUME MemInv, Retirement, [Next]_vars PROVE Retirement'
  OBVIOUS
<1> USE DEF MemInv, LockInv, LockedExchange, Lifecycle, InLock, Exchanging, Registering,
            Active, Exposure, Retirement, OolExposed, ctxVars, memVars, pciVars, pnpVars,
            ioVars, sepVars
<1>1. CASE AksArrives
  BY <1>1 DEF AksArrives, Goto
<1>2. CASE RegisterArrives
  BY <1>2 DEF RegisterArrives, Goto
<1>3. CASE GetStatusArrives
  BY <1>3 DEF GetStatusArrives, Goto
<1>4. CASE GetStatusLocks
  BY <1>4 DEF GetStatusLocks, Complete
<1>5. CASE GetStatusReads
  BY <1>5 DEF GetStatusReads, Complete
<1>6. CASE RegisterDeclined
  BY <1>6 DEF RegisterDeclined, Complete
<1>7. CASE RegisterStarts
  BY <1>7 DEF RegisterStarts, Goto
<1>8. CASE RegisterNotStarted
  BY <1>8 DEF RegisterNotStarted, Complete
<1>9. ASSUME NEW which \in {"in", "out"}, SetOolSent(which) PROVE Retirement'
  BY <1>9 DEF SetOolSent, Goto
<1>10. ASSUME NEW which \in {"in", "out"}, SetOolNotSent(which) PROVE Retirement'
  BY <1>10 DEF SetOolNotSent, RegisterFailed, FreeOolBuffers, Complete
<1>11. ASSUME NEW which \in {"in", "out"}, SetOolReceives(which) PROVE Retirement'
  BY <1>11 DEF SetOolReceives, MarkExposed, RegisterFailed, FreeOolBuffers, Complete
<1>12. ASSUME NEW which \in {"in", "out"}, SetOolTimesOut(which) PROVE Retirement'
  BY <1>12 DEF SetOolTimesOut, MarkExposed, RegisterFailed, FreeOolBuffers, Complete
<1>13. CASE AksDeclined
  BY <1>13 DEF AksDeclined, Complete
<1>14. CASE AksStarts
  BY <1>14 DEF AksStarts, Goto
<1>15. CASE AksSent
  BY <1>15 DEF AksSent, Goto
<1>16. CASE AksNotSent
  BY <1>16 DEF AksNotSent, Complete
<1>17. CASE AksReceives
  BY <1>17 DEF AksReceives, Complete
<1>18. CASE AksTimesOut
  BY <1>18 DEF AksTimesOut, Complete
<1>19. CASE AksCompletes
  BY <1>19 DEF AksCompletes, Complete
<1>20. CASE PrepareHardware
  BY <1>20 DEF PrepareHardware
<1>21. CASE PrepareHardwareFails
  BY <1>21 DEF PrepareHardwareFails
<1>22. CASE PrepareHardwareSetsState
  BY <1>22 DEF PrepareHardwareSetsState
<1>23. CASE D0Entry
  BY <1>23 DEF D0Entry
<1>24. CASE D0Exit
  BY <1>24 DEF D0Exit
<1>25. CASE ReleaseHardwareStops
  BY <1>25 DEF ReleaseHardwareStops
<1>26. CASE ReleaseHardwareUnmaps
  BY <1>26 DEF ReleaseHardwareUnmaps, FreeOolBuffers
<1>27. CASE ReleaseHardwareEnds
  BY <1>27 DEF ReleaseHardwareEnds
<1>28. CASE DeviceDeleted
  BY <1>28 DEF DeviceDeleted
<1>29. CASE DeviceAdd
  BY <1>29 DEF DeviceAdd
<1>30. CASE PowerDown
  BY <1>30 DEF PowerDown
<1>31. CASE PowerUp
  BY <1>31 DEF PowerUp
<1>32. CASE SepTakes
  BY <1>32 DEF SepTakes
<1>33. CASE SepReplies
  BY <1>33 DEF SepReplies
<1>34. CASE SepInterjects
  BY <1>34 DEF SepInterjects
<1>35. CASE UNCHANGED vars
  BY <1>35 DEF vars
<1> HIDE DEF MemInv, LockInv, LockedExchange, Lifecycle, InLock, Exchanging, Registering,
            Active, Exposure, Retirement, OolExposed, ctxVars, memVars, pciVars, pnpVars,
            ioVars, sepVars
<1> QED
  BY <1>1, <1>2, <1>3, <1>4, <1>5, <1>6, <1>7, <1>8, <1>9, <1>10, <1>11, <1>12, <1>13,
     <1>14, <1>15, <1>16, <1>17, <1>18, <1>19, <1>20, <1>21, <1>22, <1>23, <1>24,
     <1>25, <1>26, <1>27, <1>28, <1>29, <1>30, <1>31, <1>32, <1>33, <1>34, <1>35
  DEF Next, Arrive, IoStep, PnpStep, ReleaseStep, SepStep

\* Which steps leave such a context's state, and to what.
LEMMA RetireNext ==
  ASSUME RetireInv, [Next]_vars,
         state = "Invalid" \/ (state = "Stopping" /\ OolExposed), ~DeviceAdd
  PROVE  state' \in {"Invalid", "Stopping"}
<1> USE DEF RetireInv, MemInv, LockInv, LockedExchange, Lifecycle, Retirement, Active,
            InLock, Exchanging, Registering, OolExposed, ctxVars, memVars, pciVars, pnpVars,
            ioVars, sepVars
<1>1. CASE RegisterStarts
  BY <1>1 DEF RegisterStarts
<1>2. CASE RegisterNotStarted
  BY <1>2 DEF RegisterNotStarted
<1>3. ASSUME NEW which \in {"in", "out"}, SetOolNotSent(which)
      PROVE state' \in {"Invalid", "Stopping"}
  BY <1>3 DEF SetOolNotSent
<1>4. ASSUME NEW which \in {"in", "out"}, SetOolReceives(which)
      PROVE state' \in {"Invalid", "Stopping"}
  BY <1>4 DEF SetOolReceives
<1>5. ASSUME NEW which \in {"in", "out"}, SetOolTimesOut(which)
      PROVE state' \in {"Invalid", "Stopping"}
  BY <1>5 DEF SetOolTimesOut
<1>6. CASE PrepareHardwareSetsState
  BY <1>6 DEF PrepareHardwareSetsState
<1>7. CASE D0Entry
  BY <1>7 DEF D0Entry
<1>8. CASE D0Exit
  BY <1>8 DEF D0Exit
<1>9. CASE ReleaseHardwareStops
  BY <1>9 DEF ReleaseHardwareStops
<1>10. CASE ReleaseHardwareEnds
  BY <1>10 DEF ReleaseHardwareEnds
<1>11. CASE DeviceAdd
  BY <1>11
<1>12. CASE UNCHANGED state
  BY <1>12
<1>13. ASSUME NEW which \in {"in", "out"}, SetOolSent(which) PROVE UNCHANGED state
  BY <1>13 DEF SetOolSent
<1>14. Arrive \/ SepStep \/ PowerDown \/ PowerUp \/ UNCHANGED vars => UNCHANGED state
  BY
  DEF Arrive, AksArrives, RegisterArrives, GetStatusArrives, SepStep, SepTakes,
      SepReplies,
         SepInterjects, PowerDown, PowerUp, vars
<1>15. GetStatusLocks \/ GetStatusReads \/ RegisterDeclined \/ AksDeclined \/ AksStarts
         \/ AksSent \/ AksNotSent \/ AksReceives \/ AksTimesOut \/ AksCompletes => UNCHANGED state
  BY DEF GetStatusLocks, GetStatusReads, RegisterDeclined, AksDeclined, AksStarts, AksSent,
         AksNotSent, AksReceives, AksTimesOut, AksCompletes
<1>16. PrepareHardware \/ PrepareHardwareFails \/ ReleaseHardwareUnmaps \/ DeviceDeleted => UNCHANGED state
  BY DEF PrepareHardware, PrepareHardwareFails, ReleaseHardwareUnmaps, DeviceDeleted
<1> QED
  BY <1>1, <1>2, <1>3, <1>4, <1>5, <1>6, <1>7, <1>8, <1>9, <1>10, <1>11, <1>12, <1>13,
     <1>14, <1>15, <1>16
  DEF Next, IoStep, PnpStep, ReleaseStep

\* A context that exposed an address and failed, or that was released, is never
\* usable again.
THEOREM NeverResurrected == Spec => NoResurrection
<1>1. Init => RetireInv
  BY BufsAssumption
  DEF Init, RetireInv, MemInv, LockInv, LockedExchange, Lifecycle, Exposure, Retirement,
      InLock, Exchanging, Registering, Active
<1>2. RetireInv /\ [Next]_vars => RetireInv'
  BY LockStep, ExposureStep, RetireStep DEF RetireInv, MemInv
<1>3. RetireInv /\ [Next]_vars =>
        (state = "Invalid" \/ (state = "Stopping" /\ OolExposed)
           => pnp = "gone" \/ state' \in {"Invalid", "Stopping"})
  BY RetireNext DEF DeviceAdd
<1> QED
  BY <1>1, <1>2, <1>3, PTL DEF Spec, NoResurrection

-----------------------------------------------------------------------------
(* A resume that always succeeds, and a power callback that waits. *)

Orderly == ~ResumeMayFail /\ ~AckReleases

\* Only the pair that was registered is ever exposed, and it is referenced.
Pinning ==
  /\ ioPc # "idle" => pnp = "D0"
  /\ pinnedIn \/ pinnedOut => mayKnow
  /\ mayKnow /\ state = "RegisteringOol" => pinnedIn
  /\ state = "HardwareReady" /\ pnp = "D0" => ~mayKnow
  /\ state = "HardwareReady" /\ mayKnow => inReg /\ outReg
  /\ state = "RegisteringOol" => ioPc \in Registering
  /\ state = "Ready" => inReg /\ outReg
  /\ ioPc \in {"inSend", "inRecv"} => ~mayKnow
  /\ known \cap live \subseteq
       refs \cup (IF ioPc = "inRecv" THEN {inBuf} ELSE {})
            \cup (IF ioPc = "outRecv" THEN {outBuf} ELSE {})
  /\ ioPc \in {"outSend", "outRecv"} => inReg /\ ~pinnedOut
  /\ pinnedIn => inBuf \in refs

PinInv == RetireInv /\ Pinning /\ SepKnownNeverFreed

\* One step per action: only the registered pair is exposed, and referenced.
LEMMA PinStep ==
  RetireInv /\ Orderly /\ Pinning /\ SepKnownNeverFreed /\ [Next]_vars
    => (Pinning /\ SepKnownNeverFreed)'
<1> SUFFICES ASSUME RetireInv, Orderly, Pinning, SepKnownNeverFreed, [Next]_vars PROVE
   (Pinning /\ SepKnownNeverFreed)'
  OBVIOUS
<1> USE DEF RetireInv, MemInv, LockInv, LockedExchange, Lifecycle, InLock, Exchanging,
            Registering, Active, Exposure, Retirement, OolExposed, Orderly, Pinning,
            SepKnownNeverFreed, ctxVars, memVars, pciVars, pnpVars, ioVars, sepVars
<1>1. CASE AksArrives
  BY <1>1 DEF AksArrives, Goto
<1>2. CASE RegisterArrives
  BY <1>2 DEF RegisterArrives, Goto
<1>3. CASE GetStatusArrives
  BY <1>3 DEF GetStatusArrives, Goto
<1>4. CASE GetStatusLocks
  BY <1>4 DEF GetStatusLocks, Complete
<1>5. CASE GetStatusReads
  BY <1>5 DEF GetStatusReads, Complete
<1>6. CASE RegisterDeclined
  BY <1>6 DEF RegisterDeclined, Complete
<1>7. CASE RegisterStarts
  BY <1>7, BufsAssumption DEF RegisterStarts, Goto, Fresh
<1>8. CASE RegisterNotStarted
  BY <1>8, BufsAssumption DEF RegisterNotStarted, Complete, Fresh
<1>9. ASSUME NEW which \in {"in", "out"}, SetOolSent(which) PROVE (Pinning /\ SepKnownNeverFreed)'
  BY <1>9, BufsAssumption DEF SetOolSent, Goto, OolBuf
<1>10. ASSUME NEW which \in {"in", "out"}, SetOolNotSent(which)
       PROVE (Pinning /\ SepKnownNeverFreed)'
  BY <1>10, BufsAssumption DEF SetOolNotSent, RegisterFailed, FreeOolBuffers, Complete
<1>11. ASSUME NEW which \in {"in", "out"}, SetOolReceives(which)
       PROVE (Pinning /\ SepKnownNeverFreed)'
  <2>1. CASE which = "in"
    <3>1. CASE Head(inbox).kind = which /\ Head(inbox).ok
      BY <1>11, <2>1, <3>1, BufsAssumption DEF SetOolReceives, MarkExposed, Complete
    <3>2. CASE ~(Head(inbox).kind = which /\ Head(inbox).ok)
      BY <1>11, <2>1, <3>2, BufsAssumption
      DEF SetOolReceives, MarkExposed, RegisterFailed, FreeOolBuffers, Complete
    <3> QED
      BY <3>1, <3>2
  <2>2. CASE which = "out"
    <3>1. CASE Head(inbox).kind = which /\ Head(inbox).ok
      <4>1. /\ ioPc = "outRecv" /\ ~InboxEmpty /\ state' = "Ready" /\ ioPc' = "idle" /\ mayKnow'
            /\ outReg' /\ refs' = refs \cup {outBuf}
            /\ pinnedIn' = (pinnedIn \/ FALSE)
            /\ UNCHANGED <<pnp, inReg, inBuf, outBuf, live, freed, known>>
        BY <1>11, <2>2, <3>1 DEF SetOolReceives, MarkExposed, Complete
      <4> QED
        BY <4>1
    <3>2. CASE ~(Head(inbox).kind = which /\ Head(inbox).ok)
      <4>1. \/ UNCHANGED <<state, ioPc, mayKnow, pinnedIn, pinnedOut, refs>>
            \/ /\ state' = "Invalid" /\ ioPc' = "idle" /\ mayKnow' /\ refs' = refs \cup {outBuf}
               /\ pinnedIn' = (pinnedIn \/ FALSE)
        BY <1>11, <2>2, <3>2 DEF SetOolReceives, MarkExposed, RegisterFailed, Complete
      <4>2. ioPc = "outRecv" /\ UNCHANGED <<pnp, inReg, outReg, inBuf, outBuf, live, freed, known>>
        BY <1>11, <2>2, <3>2 DEF SetOolReceives, RegisterFailed, FreeOolBuffers
      <4>3. CASE UNCHANGED <<state, ioPc, mayKnow, pinnedIn, pinnedOut, refs>>
        BY <4>2, <4>3
      <4>4. CASE /\ state' = "Invalid" /\ ioPc' = "idle" /\ mayKnow' /\ refs' = refs \cup {outBuf}
                 /\ pinnedIn' = (pinnedIn \/ FALSE)
        BY <4>2, <4>4
      <4> QED
        BY <4>1, <4>3, <4>4
    <3> QED
      BY <3>1, <3>2
  <2> QED
    BY <2>1, <2>2
<1>12. ASSUME NEW which \in {"in", "out"}, SetOolTimesOut(which)
       PROVE (Pinning /\ SepKnownNeverFreed)'
  BY <1>12, BufsAssumption
  DEF SetOolTimesOut, MarkExposed, RegisterFailed, FreeOolBuffers, Complete
<1>13. CASE AksDeclined
  BY <1>13 DEF AksDeclined, Complete
<1>14. CASE AksStarts
  BY <1>14 DEF AksStarts, Goto
<1>15. CASE AksSent
  BY <1>15 DEF AksSent, Goto
<1>16. CASE AksNotSent
  BY <1>16 DEF AksNotSent, Complete
<1>17. CASE AksReceives
  BY <1>17 DEF AksReceives, Complete
<1>18. CASE AksTimesOut
  BY <1>18 DEF AksTimesOut, Complete
<1>19. CASE AksCompletes
  BY <1>19 DEF AksCompletes, Complete
<1>20. CASE PrepareHardware
  BY <1>20 DEF PrepareHardware
<1>21. CASE PrepareHardwareFails
  BY <1>21 DEF PrepareHardwareFails
<1>22. CASE PrepareHardwareSetsState
  BY <1>22 DEF PrepareHardwareSetsState
<1>23. CASE D0Entry
  BY <1>23 DEF D0Entry
<1>24. CASE D0Exit
  BY <1>24 DEF D0Exit
<1>25. CASE ReleaseHardwareStops
  BY <1>25 DEF ReleaseHardwareStops
<1>26. CASE ReleaseHardwareUnmaps
  BY <1>26, BufsAssumption DEF ReleaseHardwareUnmaps, FreeOolBuffers, OolExposed
<1>27. CASE ReleaseHardwareEnds
  BY <1>27 DEF ReleaseHardwareEnds
<1>28. CASE DeviceDeleted
  BY <1>28 DEF DeviceDeleted
<1>29. CASE DeviceAdd
  BY <1>29, BufsAssumption DEF DeviceAdd
<1>30. CASE PowerDown
  BY <1>30 DEF PowerDown
<1>31. CASE PowerUp
  BY <1>31 DEF PowerUp
<1>32. CASE SepTakes
  BY <1>32 DEF SepTakes
<1>33. CASE SepReplies
  BY <1>33 DEF SepReplies
<1>34. CASE SepInterjects
  BY <1>34 DEF SepInterjects
<1>35. CASE UNCHANGED vars
  BY <1>35 DEF vars
<1> HIDE DEF RetireInv, MemInv, LockInv, LockedExchange, Lifecycle, InLock, Exchanging,
            Registering, Active, Exposure, Retirement, OolExposed, Orderly, Pinning,
            SepKnownNeverFreed, ctxVars, memVars, pciVars, pnpVars, ioVars, sepVars
<1> QED
  BY <1>1, <1>2, <1>3, <1>4, <1>5, <1>6, <1>7, <1>8, <1>9, <1>10, <1>11, <1>12, <1>13,
     <1>14, <1>15, <1>16, <1>17, <1>18, <1>19, <1>20, <1>21, <1>22, <1>23, <1>24,
     <1>25, <1>26, <1>27, <1>28, <1>29, <1>30, <1>31, <1>32, <1>33, <1>34, <1>35
  DEF Next, Arrive, IoStep, PnpStep, ReleaseStep, SepStep

\* When resume never fails and a power callback waits for the request it finds,
\* host memory the SEP was told of is never freed, across any number of
\* removals and re-additions of the device.
THEOREM SepMemoryOutlives == Orderly /\ Spec => []SepKnownNeverFreed
<1> SUFFICES ASSUME Orderly PROVE Spec => []SepKnownNeverFreed
  OBVIOUS
<1>1. Init => PinInv
  BY BufsAssumption
  DEF Init, PinInv, RetireInv, MemInv, LockInv, LockedExchange, Lifecycle, Exposure, Retirement,
      Pinning, SepKnownNeverFreed, InLock, Exchanging, Registering, Active
<1>2. PinInv /\ [Next]_vars => PinInv'
  BY LockStep, ExposureStep, RetireStep, PinStep DEF PinInv, RetireInv, MemInv
<1>3. PinInv => SepKnownNeverFreed
  BY DEF PinInv
<1> QED
  BY <1>1, <1>2, <1>3, PTL DEF Spec

-----------------------------------------------------------------------------
(* Whose reply a caller gets.                                              *)

Held(q) == {q[i] : i \in 1..Len(q)}

\* Every message that the mailbox and the SEP hold.
Flying == Held(outbox) \cup Held(sepQ) \cup Held(inbox)

\* The transaction number of a message whose age can still be told: age draws ago it was
\* the context's, in the cycle 1 .. TxnMod - 1.
InTime(m) ==
  m.kind = "aks" /\ m.age < WrapAge =>
    nextTxn > 0 /\ m.txn + m.age \in {nextTxn, nextTxn + WrapAge}

AgeInv ==
  /\ \A m \in Flying : InTime(m)
  /\ ioPc \in Exchanging => nextTxn > 0
  /\ OwnReply

LEMMA HeldType ==
  ASSUME NEW q \in Seq(Messages)
  PROVE  \A m \in Held(q) : m \in Messages
<1>1. \A i \in 1..Len(q) : q[i] \in Messages
  BY ElementOfSeq
<1> QED
  BY <1>1 DEF Held

LEMMA HeldEmpty == Held(<<>>) = {}
<1>1. Len(<<>>) = 0
  OBVIOUS
<1> QED
  BY <1>1 DEF Held

LEMMA HeldOne ==
  ASSUME NEW m \in Messages
  PROVE  Held(<<m>>) = {m}
<1>1. Len(<<m>>) = 1 /\ <<m>>[1] = m
  OBVIOUS
<1> QED
  BY <1>1 DEF Held

LEMMA HeldTail ==
  ASSUME NEW q \in Seq(Messages), q # <<>>
  PROVE  /\ Held(q) = {Head(q)} \cup Held(Tail(q))
         /\ Head(q) \in Messages /\ Tail(q) \in Seq(Messages)
<1>1. /\ Len(q) \in Nat /\ Len(q) > 0 /\ Head(q) = q[1] /\ Len(Tail(q)) = Len(q) - 1
      /\ \A i \in 1..Len(Tail(q)) : Tail(q)[i] = q[i + 1]
      /\ Head(q) \in Messages /\ Tail(q) \in Seq(Messages)
  BY EmptySeq, HeadTailProperties, LenProperties
<1>2. ASSUME NEW x \in Held(Tail(q)) PROVE x \in Held(q)
  <2>1. PICK i \in 1..Len(Tail(q)) : x = Tail(q)[i]
    BY DEF Held
  <2>2. i + 1 \in 1..Len(q) /\ x = q[i + 1]
    BY <1>1, <2>1
  <2> QED
    BY <2>2 DEF Held
<1>3. Head(q) \in Held(q)
  <2>1. 1 \in 1..Len(q)
    BY <1>1
  <2> QED
    BY <1>1, <2>1 DEF Held
<1>4. ASSUME NEW x \in Held(q) PROVE x = Head(q) \/ x \in Held(Tail(q))
  <2>1. PICK i \in 1..Len(q) : x = q[i]
    BY DEF Held
  <2>2. CASE i = 1
    BY <1>1, <2>1, <2>2
  <2>3. CASE i # 1
    <3>1. i - 1 \in 1..Len(Tail(q)) /\ (i - 1) + 1 = i
      BY <1>1, <2>1, <2>3
    <3>2. Tail(q)[i - 1] = x
      BY <1>1, <2>1, <3>1
    <3> QED
      BY <3>1, <3>2 DEF Held
  <2> QED
    BY <2>2, <2>3
<1> QED
  BY <1>1, <1>2, <1>3, <1>4

LEMMA HeldAppend ==
  ASSUME NEW q \in Seq(Messages), NEW m \in Messages
  PROVE  Held(Append(q, m)) = Held(q) \cup {m}
<1>1. /\ Len(q) \in Nat /\ Len(Append(q, m)) = Len(q) + 1
      /\ Append(q, m)[Len(q) + 1] = m
      /\ \A i \in 1..Len(q) : Append(q, m)[i] = q[i]
  BY AppendProperties, LenProperties
<1>2. 1..Len(q) + 1 = (1..Len(q)) \cup {Len(q) + 1}
  BY <1>1
<1>3. \A x \in Held(Append(q, m)) : x \in Held(q) \cup {m}
  BY <1>1, <1>2 DEF Held
<1>4. ASSUME NEW x \in Held(q) PROVE x \in Held(Append(q, m))
  <2>1. PICK i \in 1..Len(q) : x = q[i]
    BY DEF Held
  <2>2. i \in 1..Len(Append(q, m)) /\ Append(q, m)[i] = x
    BY <1>1, <1>2, <2>1
  <2> QED
    BY <2>2 DEF Held
<1>5. m \in Held(Append(q, m))
  <2>1. Len(q) + 1 \in 1..Len(Append(q, m))
    BY <1>1, <1>2
  <2> QED
    BY <1>1, <2>1 DEF Held
<1> QED
  BY <1>3, <1>4, <1>5

LEMMA HeldAge ==
  ASSUME NEW q \in Seq(Messages)
  PROVE  /\ \A x \in Held(Age(q)) : \E m \in Held(q) : x = Older(m)
         /\ \A x \in Held(Estrange(q)) : \E m \in Held(q) : x = Alien(m)
<1>1. Len(q) \in Nat /\ DOMAIN q = 1..Len(q)
  BY LenProperties
<1>2. /\ Len(Age(q)) = Len(q) /\ \A i \in 1..Len(q) : Age(q)[i] = Older(q[i])
      /\ Len(Estrange(q)) = Len(q) /\ \A i \in 1..Len(q) : Estrange(q)[i] = Alien(q[i])
  BY <1>1 DEF Age, Estrange
<1> QED
  BY <1>2 DEF Held

LEMMA MessageFields ==
  /\ NoMsg.kind = "noise"
  /\ \A which, b : SetOol(which, b).kind = which /\ SetOol(which, b).buf = b
  /\ \A t : Aks(t).kind = "aks" /\ Aks(t).txn = t /\ Aks(t).age = 0
  /\ \A m \in Messages : /\ Alien(m).age = ForeignAge /\ Alien(m).kind = m.kind
                         /\ Alien(m).buf = m.buf /\ Alien(m).ok = m.ok
                         /\ Older(m).kind = m.kind /\ Older(m).txn = m.txn
                         /\ Older(m).buf = m.buf /\ Older(m).ok = m.ok
                         /\ Older(m).age = IF m.age < WrapAge THEN m.age + 1 ELSE m.age
  /\ \A m \in Messages, k \in BOOLEAN :
       /\ [m EXCEPT !.ok = k].kind = m.kind /\ [m EXCEPT !.ok = k].buf = m.buf
       /\ [m EXCEPT !.ok = k].age = m.age /\ [m EXCEPT !.ok = k].txn = m.txn
       /\ [m EXCEPT !.ok = k].ok = k
<1>1. NoMsg.kind = "noise" /\ NoMsg.age = 0
  BY DEF NoMsg
<1>2. \A which, b : SetOol(which, b).kind = which /\ SetOol(which, b).buf = b
  BY DEF SetOol, NoMsg
<1>3. \A t : Aks(t).kind = "aks" /\ Aks(t).txn = t /\ Aks(t).age = 0
  BY DEF Aks, NoMsg
<1>4. ASSUME NEW m \in Messages
      PROVE  /\ Alien(m).age = ForeignAge /\ Alien(m).kind = m.kind
             /\ Alien(m).buf = m.buf /\ Alien(m).ok = m.ok
             /\ Older(m).kind = m.kind /\ Older(m).txn = m.txn
             /\ Older(m).buf = m.buf /\ Older(m).ok = m.ok
             /\ Older(m).age = IF m.age < WrapAge THEN m.age + 1 ELSE m.age
  BY DEF Alien, Older, Messages
<1>5. ASSUME NEW m \in Messages, NEW k \in BOOLEAN
      PROVE  /\ [m EXCEPT !.ok = k].kind = m.kind /\ [m EXCEPT !.ok = k].buf = m.buf
             /\ [m EXCEPT !.ok = k].age = m.age /\ [m EXCEPT !.ok = k].txn = m.txn
             /\ [m EXCEPT !.ok = k].ok = k
  BY DEF Messages
<1> QED
  BY <1>1, <1>2, <1>3, <1>4, <1>5

\* What a step does to the messages in flight.
LEMMA MessageSteps ==
  ASSUME [Next]_vars
  PROVE  \/ AksStarts
         \/ DeviceAdd
         \/ UNCHANGED <<outbox, sepQ, inbox, sepIn, sepOut, nextTxn>>
         \/ /\ UNCHANGED <<outbox, sepQ, sepIn, sepOut, nextTxn>>
            /\ inbox # <<>> /\ inbox' = Tail(inbox)
         \/ AksSent
         \/ \E which \in {"in", "out"} : SetOolSent(which)
         \/ SepStep
<1>1. Arrive \/ PowerDown \/ PowerUp \/ UNCHANGED vars
        => UNCHANGED <<outbox, sepQ, inbox, sepIn, sepOut, nextTxn>>
  BY DEF Arrive, AksArrives, RegisterArrives, GetStatusArrives, PowerDown, PowerUp, vars,
         ctxVars, sepVars
<1>2. GetStatusLocks \/ GetStatusReads \/ RegisterDeclined \/ RegisterStarts
        \/ RegisterNotStarted \/ AksDeclined \/ AksNotSent \/ AksTimesOut \/ AksCompletes
        => UNCHANGED <<outbox, sepQ, inbox, sepIn, sepOut, nextTxn>>
  BY DEF GetStatusLocks, GetStatusReads, RegisterDeclined, RegisterStarts, RegisterNotStarted,
         AksDeclined, AksNotSent, AksTimesOut, AksCompletes, ctxVars, sepVars
<1>3. ASSUME NEW which \in {"in", "out"}, SetOolNotSent(which) \/ SetOolTimesOut(which)
      PROVE  UNCHANGED <<outbox, sepQ, inbox, sepIn, sepOut, nextTxn>>
  BY <1>3 DEF SetOolNotSent, SetOolTimesOut, sepVars
<1>4. ASSUME NEW which \in {"in", "out"}, SetOolReceives(which)
      PROVE  /\ UNCHANGED <<outbox, sepQ, sepIn, sepOut, nextTxn>>
             /\ inbox # <<>> /\ inbox' = Tail(inbox)
  BY <1>4 DEF SetOolReceives, InboxEmpty
<1>5. AksReceives => /\ UNCHANGED <<outbox, sepQ, sepIn, sepOut, nextTxn>>
                     /\ inbox # <<>> /\ inbox' = Tail(inbox)
  BY DEF AksReceives, InboxEmpty, ctxVars
<1>6. PnpStep /\ ~DeviceAdd => UNCHANGED <<outbox, sepQ, inbox, sepIn, sepOut, nextTxn>>
  BY DEF PnpStep, PrepareHardware, PrepareHardwareFails, PrepareHardwareSetsState,
         D0Entry, D0Exit, ReleaseHardwareStops, ReleaseStep, ReleaseHardwareUnmaps,
         ReleaseHardwareEnds, DeviceDeleted, ctxVars, sepVars
<1> QED
  BY <1>1, <1>2, <1>3, <1>4, <1>5, <1>6 DEF Next, IoStep

LEMMA FlyingTypes ==
  ASSUME TypeOK
  PROVE  /\ outbox \in Seq(Messages) /\ sepQ \in Seq(Messages) /\ inbox \in Seq(Messages)
         /\ nextTxn \in 0 .. TxnMod - 1 /\ \A m \in Flying : m \in Messages
<1>1. outbox \in Seq(Messages) /\ sepQ \in Seq(Messages) /\ inbox \in Seq(Messages)
  BY DEF TypeOK
<1>2. nextTxn \in 0 .. TxnMod - 1
  BY DEF TypeOK
<1> QED
  BY <1>1, <1>2, HeldType DEF Flying

\* The messages are those that were there, up to what they answer, or are not AKS's.
LEMMA OldOrOther ==
  ASSUME TypeOK, SepStep \/ (inbox # <<>> /\ inbox' = Tail(inbox) /\ UNCHANGED <<outbox, sepQ>>)
  PROVE  \A x \in Flying' :
           x.kind # "aks" \/ \E m \in Flying : x.kind = m.kind /\ x.age = m.age /\ x.txn = m.txn
<1>0. /\ outbox \in Seq(Messages) /\ sepQ \in Seq(Messages) /\ inbox \in Seq(Messages)
  BY FlyingTypes
<1>1. CASE inbox # <<>> /\ inbox' = Tail(inbox) /\ UNCHANGED <<outbox, sepQ>>
  <2>1. Held(inbox') \subseteq Held(inbox)
    BY <1>0, <1>1, HeldTail
  <2> QED
    BY <1>1, <2>1 DEF Flying
<1>2. CASE SepTakes
  <2>1. /\ outbox # <<>> /\ sepQ' = Append(sepQ, Head(outbox)) /\ outbox' = <<>>
        /\ inbox' = inbox
    BY <1>2 DEF SepTakes
  <2>2. Head(outbox) \in Held(outbox) /\ Head(outbox) \in Messages
    BY <1>0, <2>1, HeldTail
  <2>3. Held(sepQ') = Held(sepQ) \cup {Head(outbox)} /\ Held(outbox') = {}
    BY <1>0, <2>1, <2>2, HeldAppend, HeldEmpty
  <2> QED
    BY <2>1, <2>2, <2>3 DEF Flying
<1>3. CASE SepReplies
  <2> DEFINE h == Head(sepQ)
  <2>1. PICK ok \in BOOLEAN : inbox' = Append(inbox, [h EXCEPT !.ok = ok])
    BY <1>3 DEF SepReplies
  <2>2. sepQ # <<>> /\ sepQ' = Tail(sepQ) /\ outbox' = outbox
    BY <1>3 DEF SepReplies
  <2>3. h \in Held(sepQ) /\ h \in Messages /\ Held(sepQ') \subseteq Held(sepQ)
    BY <1>0, <2>2, HeldTail
  <2> DEFINE r == [h EXCEPT !.ok = ok]
  <2>4. r \in Messages /\ r.kind = h.kind /\ r.age = h.age /\ r.txn = h.txn
    BY <2>3, TypeFacts, MessageFields
  <2>5. inbox' = Append(inbox, r)
    BY <2>1
  <2> HIDE DEF r, h
  <2>6. Held(inbox') = Held(inbox) \cup {r}
    BY <1>0, <2>4, <2>5, HeldAppend
  <2> QED
    BY <2>2, <2>3, <2>4, <2>6 DEF Flying
<1>4. CASE SepInterjects
  <2>1. inbox' = Append(inbox, NoMsg) /\ UNCHANGED <<outbox, sepQ>>
    BY <1>4 DEF SepInterjects
  <2>2. Held(inbox') = Held(inbox) \cup {NoMsg}
    BY <1>0, <2>1, HeldAppend, TypeFacts
  <2> QED
    BY <2>1, <2>2, MessageFields DEF Flying
<1> QED
  BY <1>1, <1>2, <1>3, <1>4 DEF SepStep

\* The numbers go round together.
LEMMA AgesTogether ==
  ASSUME TypeOK, AksStarts, \A m \in Flying : InTime(m)
  PROVE  nextTxn' > 0 /\ \A x \in Flying' : InTime(x)'
<1>0. /\ outbox \in Seq(Messages) /\ sepQ \in Seq(Messages) /\ inbox \in Seq(Messages)
      /\ \A m \in Flying : m \in Messages
  BY FlyingTypes
<1>1. /\ outbox' = Age(outbox) /\ sepQ' = Age(sepQ) /\ inbox' = Age(inbox)
      /\ nextTxn' = Bump(nextTxn)
  BY DEF AksStarts
<1>2. nextTxn \in 0 .. TxnMod - 1 /\ TxnMod \in Nat /\ TxnMod > 1
  BY FlyingTypes, NumbersAssumption
<1>3. nextTxn' \in Nat /\ nextTxn' > 0 /\ nextTxn' = IF nextTxn = WrapAge THEN 1 ELSE nextTxn + 1
  BY <1>1, <1>2 DEF Bump, WrapAge
<1>4. ASSUME NEW x \in Flying', x.kind = "aks", x.age < WrapAge
      PROVE  x.txn + x.age \in {nextTxn', nextTxn' + WrapAge}
  <2>1. PICK m \in Flying : x = Older(m)
    BY <1>0, <1>1, HeldAge DEF Flying
  <2>2. m \in Messages
    BY <1>0
  <2>3. /\ x.kind = m.kind /\ x.txn = m.txn
        /\ x.age = IF m.age < WrapAge THEN m.age + 1 ELSE m.age
    BY <2>1, <2>2, MessageFields
  <2>4. m.age \in 0 .. ForeignAge /\ m.txn \in 0 .. TxnMod - 1
    BY <2>2 DEF Messages
  <2>5. m.age + 1 < WrapAge /\ x.age = m.age + 1
    BY <1>2, <1>4, <2>3, <2>4 DEF WrapAge, ForeignAge
  <2>6. m.age < WrapAge
    BY <1>2, <2>4, <2>5 DEF WrapAge
  <2>7. nextTxn > 0 /\ m.txn + m.age \in {nextTxn, nextTxn + WrapAge}
    BY <1>4, <2>3, <2>6 DEF InTime
  <2> QED
    BY <1>2, <1>3, <2>3, <2>4, <2>5, <2>7 DEF WrapAge
<1> QED
  BY <1>3, <1>4 DEF InTime

LEMMA AgeStep ==
  ASSUME TypeOK, LockInv, AgeInv, [Next]_vars
  PROVE  AgeInv'
<1>0. /\ outbox \in Seq(Messages) /\ sepQ \in Seq(Messages) /\ inbox \in Seq(Messages)
      /\ \A m \in Flying : m \in Messages
  BY FlyingTypes
<1>a. TxnMod \in Nat /\ TxnMod > 1 /\ nextTxn \in 0 .. TxnMod - 1
  BY FlyingTypes, NumbersAssumption
\* The messages.
<1>1. \A x \in Flying' : InTime(x)'
  <2>1. CASE AksStarts
    BY <2>1, AgesTogether DEF AgeInv
  <2>2. CASE DeviceAdd
    <3>1. outbox' = Estrange(outbox) /\ sepQ' = Estrange(sepQ) /\ inbox' = Estrange(inbox)
      BY <2>2 DEF DeviceAdd
    <3>2. \A x \in Flying' : \E m \in Flying : x = Alien(m)
      BY <1>0, <3>1, HeldAge DEF Flying
    <3>3. \A x \in Flying' : x.age = ForeignAge
      BY <1>0, <3>2, MessageFields
    <3>4. ~(ForeignAge < WrapAge)
      BY <1>a DEF ForeignAge, WrapAge
    <3> QED
      BY <3>3, <3>4 DEF InTime
  <2>3. CASE UNCHANGED <<outbox, sepQ, inbox, sepIn, sepOut, nextTxn>>
    BY <2>3 DEF Flying, AgeInv, InTime
  <2>4. CASE \/ SepStep
             \/ /\ UNCHANGED <<outbox, sepQ, sepIn, sepOut, nextTxn>>
                /\ inbox # <<>> /\ inbox' = Tail(inbox)
    <3>1. nextTxn' = nextTxn
      BY <2>4 DEF SepStep, SepTakes, SepReplies, SepInterjects, ctxVars
    <3>2. \A x \in Flying' :
            x.kind # "aks" \/ \E m \in Flying : x.kind = m.kind /\ x.age = m.age /\ x.txn = m.txn
      BY <2>4, OldOrOther
    <3> QED
      BY <3>1, <3>2 DEF AgeInv, InTime
  <2>5. CASE AksSent
    <3>1. /\ outbox' = <<Aks(nextTxn)>> /\ UNCHANGED <<sepQ, inbox, nextTxn>>
          /\ ioPc \in Exchanging
      BY <2>5 DEF AksSent, Goto, ctxVars, Exchanging
    <3>2. Held(outbox') = {Aks(nextTxn)}
      BY <1>a, <3>1, HeldOne, TypeFacts
    <3>3. InTime(Aks(nextTxn))'
      <4>1. Aks(nextTxn).txn = nextTxn /\ Aks(nextTxn).age = 0 /\ nextTxn > 0
        BY <3>1, MessageFields DEF AgeInv
      <4>2. nextTxn + 0 = nextTxn
        BY <1>a
      <4> QED
        BY <3>1, <4>1, <4>2 DEF InTime
    <3> QED
      BY <3>1, <3>2, <3>3 DEF Flying, AgeInv, InTime
  <2>6. ASSUME NEW which \in {"in", "out"}, SetOolSent(which)
        PROVE  \A x \in Flying' : InTime(x)'
    <3>1. /\ outbox' = <<SetOol(which, OolBuf(which))>> /\ UNCHANGED <<sepQ, inbox, nextTxn>>
      BY <2>6 DEF SetOolSent, ctxVars
    <3>2. OolBuf(which) \in Bufs \cup {NoBuf}
      BY DEF OolBuf, TypeOK
    <3>3. Held(outbox') = {SetOol(which, OolBuf(which))}
      BY <3>1, <3>2, HeldOne, TypeFacts
    <3>4. SetOol(which, OolBuf(which)).kind # "aks"
      BY MessageFields
    <3> QED
      BY <3>1, <3>3, <3>4 DEF Flying, AgeInv, InTime
  <2> QED
    BY <2>1, <2>2, <2>3, <2>4, <2>5, <2>6, MessageSteps
\* The number drawn, and the reply taken.
<1>2. (ioPc \in Exchanging => nextTxn > 0)' /\ OwnReply'
  <2> USE DEF Exchanging, OwnReply
  <2>1. CASE AksStarts
    BY <2>1, AgesTogether DEF AksStarts, AgeInv, Goto
  <2>2. CASE AksReceives
    <3>1. nextTxn' = nextTxn /\ nextTxn > 0
      BY <2>2 DEF AksReceives, AgeInv, ctxVars
    <3>2. ASSUME ioPc' = "aksReply" PROVE got' \in {0, WrapAge, ForeignAge}
      <4> DEFINE m == Head(inbox)
      <4>1. m.kind = "aks" /\ m.txn = nextTxn /\ got' = m.age /\ inbox # <<>>
        BY <2>2, <3>2 DEF AksReceives, Complete, InboxEmpty
      <4>2. m \in Held(inbox) /\ m \in Messages
        BY <1>0, <4>1, HeldTail
      <4> HIDE DEF m
      <4>3. m.age \in 0 .. ForeignAge
        BY <4>2 DEF Messages
      <4>4. m.age < WrapAge => m.txn + m.age \in {nextTxn, nextTxn + WrapAge}
        BY <4>1, <4>2 DEF AgeInv, Flying, InTime
      <4>5. m.age < WrapAge => m.age = 0
        BY <1>a, <4>1, <4>3, <4>4 DEF WrapAge
      <4> QED
        BY <1>a, <4>1, <4>3, <4>5 DEF WrapAge, ForeignAge
    <3> QED
      BY <3>1, <3>2
  <2>3. CASE DeviceAdd
    <3>1. ioPc' = ioPc /\ pnp = "gone"
      BY <2>3 DEF DeviceAdd, ioVars
    <3>2. ioPc \notin Exchanging
      BY <3>1 DEF LockInv, LockedExchange, Lifecycle, Active
    <3> QED
      BY <3>1, <3>2
  <2>4. CASE AksSent
    BY <2>4 DEF AksSent, Goto, ctxVars, AgeInv
  <2>5. CASE AksDeclined \/ AksNotSent \/ AksTimesOut \/ AksCompletes
    BY <2>5 DEF AksDeclined, AksNotSent, AksTimesOut, AksCompletes, Complete
  <2>6. CASE Arrive
    BY <2>6 DEF Arrive, AksArrives, RegisterArrives, GetStatusArrives, Goto
  <2>7. CASE GetStatusLocks \/ GetStatusReads \/ RegisterDeclined \/ RegisterStarts
             \/ RegisterNotStarted
    BY <2>7 DEF GetStatusLocks, GetStatusReads, RegisterDeclined, RegisterStarts,
                RegisterNotStarted, Goto, Complete
  <2>8. ASSUME NEW which \in {"in", "out"},
               SetOolSent(which) \/ SetOolNotSent(which) \/ SetOolReceives(which)
                 \/ SetOolTimesOut(which)
        PROVE  (ioPc \in Exchanging => nextTxn > 0)' /\ OwnReply'
    <3>1. ioPc' \notin Exchanging
      BY <2>8 DEF SetOolSent, SetOolNotSent, SetOolReceives, SetOolTimesOut, RegisterFailed,
                  Complete, Goto
    <3> QED
      BY <3>1
  <2>9. CASE PnpStep /\ ~DeviceAdd
    <3>1. UNCHANGED <<ioPc, got, nextTxn>>
      BY <2>9 DEF PnpStep, PrepareHardware, PrepareHardwareFails, PrepareHardwareSetsState,
             D0Entry, D0Exit, ReleaseHardwareStops, ReleaseStep, ReleaseHardwareUnmaps,
             ReleaseHardwareEnds, DeviceDeleted, ioVars, ctxVars
    <3> QED
      BY <3>1 DEF AgeInv
  <2>10. CASE PowerDown \/ PowerUp \/ SepStep \/ UNCHANGED vars
    <3>1. UNCHANGED <<ioPc, got, nextTxn>>
      BY <2>10 DEF PowerDown, PowerUp, SepStep, SepTakes, SepReplies, SepInterjects, vars,
                   ioVars, ctxVars
    <3> QED
      BY <3>1 DEF AgeInv
  <2> QED
    BY <2>1, <2>2, <2>3, <2>4, <2>5, <2>6, <2>7, <2>8, <2>9, <2>10 DEF Next, IoStep
<1> QED
  BY <1>1, <1>2 DEF AgeInv

LEMMA InitTypeOK == Init => TypeOK
<1> SUFFICES ASSUME Init PROVE TypeOK
  OBVIOUS
<1>1. /\ barMapped \in BOOLEAN /\ inReg \in BOOLEAN /\ outReg \in BOOLEAN
      /\ mayKnow \in BOOLEAN /\ pinnedIn \in BOOLEAN /\ pinnedOut \in BOOLEAN
      /\ powered \in BOOLEAN /\ busMaster \in BOOLEAN /\ fault \in BOOLEAN
      /\ wasReg \in BOOLEAN
  BY Zenon DEF Init
<1> QED
  BY <1>1, NumbersAssumption DEF Init, TypeOK, States, IoPcs, PnpPhases, ForeignAge

LEMMA InitLockInv == Init => LockInv
BY DEF Init, LockInv, LockedExchange, Lifecycle, InLock, Exchanging, Registering, Active

\* A caller gets the reply to its own request, or to one whose 8-bit number is used anew,
\* whatever the SEP answers late and however many requests timed out (NextTransaction, akstore.c
\* 353-359, and the match in mailbox.c 374-378).
THEOREM OwnReplyAlways == Spec => []OwnReply
<1> DEFINE Inv == TypeOK /\ LockInv /\ AgeInv
<1>1. Init => Inv
  <2> SUFFICES ASSUME Init PROVE AgeInv
    BY InitTypeOK, InitLockInv
  <2> QED
    BY HeldEmpty DEF Init, AgeInv, Flying, OwnReply, Exchanging
<1>2. Inv /\ [Next]_vars => Inv'
  BY TypeStep, LockStep, AgeStep
<1>3. Inv => OwnReply
  BY DEF AgeInv
<1> QED
  BY <1>1, <1>2, <1>3, PTL DEF Spec

-----------------------------------------------------------------------------
(* The registration of the first context. *)

IsSet(m) == m.kind \in {"in", "out"}
Waiting  == {"inRecv", "outRecv"}

\* No registration message, and at most one, in a queue.
Quiet(q) == \A m \in Held(q) : ~IsSet(m)
One(q)   == \A i, j \in 1..Len(q) : IsSet(q[i]) /\ IsSet(q[j]) => i = j

None == Quiet(outbox) /\ Quiet(sepQ) /\ Quiet(inbox)

\* At most one registration message is under way.
Alone ==
  /\ One(outbox) /\ One(sepQ) /\ One(inbox)
  /\ Quiet(outbox) \/ (Quiet(sepQ) /\ Quiet(inbox))
  /\ Quiet(sepQ) \/ Quiet(inbox)

\* A registration message under way tells the SEP of buffer b.
Asked(which, b) == \A m \in Flying : IsSet(m) => m.kind = which /\ m.buf = b

\* A context that will not be usable again.
Dead == state = "Invalid" \/ (state = "Stopping" /\ OolExposed)

FirstBody ==
  /\ Alone
  /\ ioPc \notin Waiting => None
  /\ ioPc = "inRecv" => Asked("in", inBuf)
  /\ ioPc = "outRecv" => Asked("out", outBuf)
  /\ \A m \in Held(inbox) : m.ok => /\ m.kind = "in" => sepIn = m.buf
                                    /\ m.kind = "out" => sepOut = m.buf
  /\ ioPc \in {"outSend", "outRecv"} => inReg /\ sepIn = inBuf
  /\ state # "RegisteringOol" /\ inReg /\ outReg => sepIn = inBuf /\ sepOut = outBuf
  /\ state = "Ready" => inReg /\ outReg

FirstInv ==
  /\ contexts \in Nat \ {0}
  /\ state = "RegisteringOol" => ioPc \in Registering
  /\ contexts = 1 /\ ~Dead => FirstBody

LEMMA QuietFacts ==
  /\ Quiet(<<>>)
  /\ \A q \in Seq(Messages) : Quiet(q) => One(q)
  /\ \A m \in Messages : One(<<m>>) /\ (~IsSet(m) => Quiet(<<m>>))
<1>1. Quiet(<<>>)
  BY HeldEmpty DEF Quiet
<1>2. ASSUME NEW q \in Seq(Messages), Quiet(q) PROVE One(q)
  <2>1. \A i \in 1..Len(q) : ~IsSet(q[i])
    BY <1>2 DEF Quiet, Held
  <2> QED
    BY <2>1 DEF One
<1>3. ASSUME NEW m \in Messages PROVE One(<<m>>) /\ (~IsSet(m) => Quiet(<<m>>))
  <2>1. Len(<<m>>) = 1
    OBVIOUS
  <2>2. One(<<m>>)
    BY <2>1 DEF One
  <2> QED
    BY <2>2, HeldOne DEF Quiet
<1> QED
  BY <1>1, <1>2, <1>3

LEMMA QuietTail ==
  ASSUME NEW q \in Seq(Messages), q # <<>>
  PROVE  /\ One(q) => One(Tail(q))
         /\ Quiet(q) => Quiet(Tail(q)) /\ ~IsSet(Head(q))
         /\ One(q) /\ IsSet(Head(q)) => Quiet(Tail(q))
<1>1. /\ Len(q) \in Nat /\ Len(q) > 0 /\ Head(q) = q[1] /\ Len(Tail(q)) = Len(q) - 1
      /\ \A i \in 1..Len(Tail(q)) : Tail(q)[i] = q[i + 1]
  BY EmptySeq, HeadTailProperties, LenProperties
<1>2. \A i \in 1..Len(Tail(q)) : i + 1 \in 1..Len(q) /\ i + 1 # 1
  BY <1>1
<1>3. ASSUME One(q) PROVE One(Tail(q))
  <2> SUFFICES ASSUME NEW i \in 1..Len(Tail(q)), NEW j \in 1..Len(Tail(q)),
                      IsSet(Tail(q)[i]), IsSet(Tail(q)[j])
               PROVE  i = j
    BY DEF One
  <2>1. IsSet(q[i + 1]) /\ IsSet(q[j + 1])
    BY <1>1
  <2>2. i + 1 = j + 1
    BY <1>2, <1>3, <2>1 DEF One
  <2> QED
    BY <2>2
<1>4. ASSUME Quiet(q) PROVE Quiet(Tail(q)) /\ ~IsSet(Head(q))
  BY <1>4, HeldTail DEF Quiet
<1>5. ASSUME One(q), IsSet(Head(q)) PROVE Quiet(Tail(q))
  <2> SUFFICES ASSUME NEW i \in 1..Len(Tail(q)), IsSet(Tail(q)[i]) PROVE FALSE
    BY DEF Quiet, Held
  <2>1. IsSet(q[i + 1]) /\ IsSet(q[1]) /\ 1 \in 1..Len(q)
    BY <1>1, <1>5
  <2>2. i + 1 = 1
    BY <1>2, <1>5, <2>1 DEF One
  <2> QED
    BY <1>2, <2>2
<1> QED
  BY <1>3, <1>4, <1>5

LEMMA QuietAppend ==
  ASSUME NEW q \in Seq(Messages), NEW m \in Messages
  PROVE  /\ Quiet(q) => One(Append(q, m))
         /\ Quiet(q) /\ ~IsSet(m) => Quiet(Append(q, m))
         /\ One(q) /\ ~IsSet(m) => One(Append(q, m))
<1>1. /\ Len(q) \in Nat /\ Len(Append(q, m)) = Len(q) + 1
      /\ Append(q, m)[Len(q) + 1] = m
      /\ \A i \in 1..Len(q) : Append(q, m)[i] = q[i]
  BY AppendProperties, LenProperties
<1>2. \A i \in 1..Len(Append(q, m)) : i \in 1..Len(q) \/ i = Len(q) + 1
  BY <1>1
<1>3. ASSUME Quiet(q) PROVE One(Append(q, m))
  <2>1. \A i \in 1..Len(q) : ~IsSet(Append(q, m)[i])
    BY <1>1, <1>3 DEF Quiet, Held
  <2> QED
    BY <1>2, <2>1 DEF One
<1>4. ASSUME Quiet(q), ~IsSet(m) PROVE Quiet(Append(q, m))
  BY <1>4, HeldAppend DEF Quiet
<1>5. ASSUME One(q), ~IsSet(m) PROVE One(Append(q, m))
  <2> SUFFICES ASSUME NEW i \in 1..Len(Append(q, m)), NEW j \in 1..Len(Append(q, m)),
                      IsSet(Append(q, m)[i]), IsSet(Append(q, m)[j])
               PROVE  i = j
    BY DEF One
  <2>1. i \in 1..Len(q) /\ j \in 1..Len(q)
    BY <1>1, <1>2, <1>5
  <2> QED
    BY <1>1, <1>5, <2>1 DEF One
<1> QED
  BY <1>3, <1>4, <1>5

\* Growing older does not change what a message is.
LEMMA QuietAge ==
  ASSUME NEW q \in Seq(Messages)
  PROVE  /\ One(q) => One(Age(q))
         /\ Quiet(q) => Quiet(Age(q))
         /\ \A x \in Held(Age(q)) : \E m \in Held(q) :
              x.kind = m.kind /\ x.buf = m.buf /\ x.ok = m.ok
<1>1. Len(q) \in Nat /\ DOMAIN q = 1..Len(q) /\ \A i \in 1..Len(q) : q[i] \in Messages
  BY LenProperties, ElementOfSeq
<1>2. Len(Age(q)) = Len(q) /\ \A i \in 1..Len(q) : Age(q)[i] = Older(q[i])
  BY <1>1 DEF Age
<1>3. \A i \in 1..Len(q) : Age(q)[i].kind = q[i].kind
  BY <1>1, <1>2, MessageFields
<1>4. One(q) => One(Age(q))
  BY <1>2, <1>3 DEF One, IsSet
<1>5. \A x \in Held(Age(q)) : \E m \in Held(q) :
        x.kind = m.kind /\ x.buf = m.buf /\ x.ok = m.ok
  BY HeldType, HeldAge, MessageFields
<1>6. Quiet(q) => Quiet(Age(q))
  BY <1>5 DEF Quiet, IsSet
<1> QED
  BY <1>4, <1>5, <1>6

\* Only a new context has exposed nothing again.
LEMMA ExposedStays ==
  ASSUME TypeOK, [Next]_vars, OolExposed, ~DeviceAdd
  PROVE  OolExposed'
<1> USE DEF OolExposed
<1>1. ASSUME NEW which \in {"in", "out"}, SetOolReceives(which)
      PROVE  OolExposed'
  <2>1. \/ MarkExposed(which)
        \/ UNCHANGED <<inReg, outReg, mayKnow>>
    BY <1>1 DEF SetOolReceives
  <2>2. MarkExposed(which) => mayKnow'
    BY DEF MarkExposed
  <2> QED
    BY <2>1, <2>2
<1>2. ASSUME NEW which \in {"in", "out"}, SetOolTimesOut(which) PROVE OolExposed'
  BY <1>2 DEF SetOolTimesOut, MarkExposed
<1>3. ASSUME NEW which \in {"in", "out"}, SetOolSent(which) \/ SetOolNotSent(which)
      PROVE  UNCHANGED <<inReg, outReg, mayKnow>>
  BY <1>3 DEF SetOolSent, SetOolNotSent, ctxVars
<1>4. Arrive \/ SepStep \/ PowerDown \/ PowerUp \/ UNCHANGED vars
        => UNCHANGED <<inReg, outReg, mayKnow>>
  BY DEF Arrive, AksArrives, RegisterArrives, GetStatusArrives, SepStep, SepTakes, SepReplies,
         SepInterjects, PowerDown, PowerUp, vars, ctxVars
<1>5. GetStatusLocks \/ GetStatusReads \/ RegisterDeclined \/ RegisterStarts \/ RegisterNotStarted
        \/ AksDeclined \/ AksStarts \/ AksSent \/ AksNotSent \/ AksReceives \/ AksTimesOut
        \/ AksCompletes => UNCHANGED <<inReg, outReg, mayKnow>>
  BY DEF GetStatusLocks, GetStatusReads, RegisterDeclined, RegisterStarts, RegisterNotStarted,
         AksDeclined, AksStarts, AksSent, AksNotSent, AksReceives, AksTimesOut, AksCompletes,
         ctxVars
<1>6. PnpStep => UNCHANGED <<inReg, outReg, mayKnow>>
  BY DEF PnpStep, PrepareHardware, PrepareHardwareFails, PrepareHardwareSetsState, D0Entry,
         D0Exit, ReleaseHardwareStops, ReleaseStep, ReleaseHardwareUnmaps, ReleaseHardwareEnds,
         DeviceDeleted, ctxVars
<1> QED
  BY <1>1, <1>2, <1>3, <1>4, <1>5, <1>6 DEF Next, IoStep

LEMMA DeadStays ==
  ASSUME TypeOK, RetireInv, [Next]_vars, Dead, ~DeviceAdd
  PROVE  Dead'
<1>1. OolExposed
  BY DEF Dead, RetireInv, Retirement
<1>2. state' \in {"Invalid", "Stopping"}
  BY RetireNext DEF Dead
<1>3. OolExposed'
  BY <1>1, ExposedStays
<1> QED
  BY <1>2, <1>3 DEF Dead

\* The state says RegisteringOol only while a request is at it.
LEMMA RegisteringStep ==
  ASSUME RetireInv, [Next]_vars, state = "RegisteringOol" => ioPc \in Registering
  PROVE  (state = "RegisteringOol" => ioPc \in Registering)'
<1> USE DEF Registering
<1>0. /\ state = "RegisteringOol" => lock = "io"
      /\ state = "RegisteringOol" => pnp \in {"off", "D0"}
  BY DEF RetireInv, MemInv, LockInv, LockedExchange, Lifecycle, Active, InLock
<1>1. Arrive \/ GetStatusLocks \/ GetStatusReads \/ RegisterDeclined \/ AksDeclined \/ AksStarts
        \/ AksSent \/ AksNotSent \/ AksReceives \/ AksTimesOut \/ AksCompletes
        => state' = state /\ ioPc \notin Registering
  BY DEF Arrive, AksArrives, RegisterArrives, GetStatusArrives, GetStatusLocks, GetStatusReads,
         RegisterDeclined, AksDeclined, AksStarts, AksSent, AksNotSent, AksReceives, AksTimesOut,
         AksCompletes, Goto, ctxVars
<1>2. RegisterStarts => ioPc' \in Registering
  BY DEF RegisterStarts, Goto
<1>3. RegisterNotStarted => state' # "RegisteringOol"
  BY DEF RegisterNotStarted
<1>4. ASSUME NEW which \in {"in", "out"}, SetOolSent(which) PROVE ioPc' \in Registering
  BY <1>4 DEF SetOolSent, Goto
<1>5. ASSUME NEW which \in {"in", "out"}, SetOolNotSent(which) \/ SetOolTimesOut(which)
      PROVE  state' # "RegisteringOol"
  BY <1>5 DEF SetOolNotSent, SetOolTimesOut, RegisterFailed
<1>6. ASSUME NEW which \in {"in", "out"}, SetOolReceives(which)
      PROVE  (state = "RegisteringOol" => ioPc \in Registering)'
  BY <1>6 DEF SetOolReceives, RegisterFailed
<1>7. PnpStep => state' # "RegisteringOol" \/ (state' = state /\ ioPc' = ioPc)
  BY DEF PnpStep, PrepareHardware, PrepareHardwareFails, PrepareHardwareSetsState, D0Entry,
         D0Exit, ReleaseHardwareStops, ReleaseStep, ReleaseHardwareUnmaps, ReleaseHardwareEnds,
         DeviceDeleted, DeviceAdd, ctxVars, ioVars
<1>8. SepStep \/ PowerDown \/ PowerUp \/ UNCHANGED vars => UNCHANGED <<state, ioPc>>
  BY DEF SepStep, SepTakes, SepReplies, SepInterjects, PowerDown, PowerUp, vars, ctxVars, ioVars
<1> QED
  BY <1>1, <1>2, <1>3, <1>4, <1>5, <1>6, <1>7, <1>8 DEF Next, IoStep

-----------------------------------------------------------------------------
(* How each kind of step keeps FirstBody. *)

FirstHyps == TypeOK /\ RetireInv /\ FirstBody /\ (state = "RegisteringOol" => ioPc \in Registering)

LEMMA FirstLocked ==
  ASSUME RetireInv
  PROVE  /\ ioPc \in Registering => state = "RegisteringOol" /\ lock = "io"
         /\ state \in {"HardwareReady", "RegisteringOol", "Ready"} => pnp \in {"off", "D0"}
         /\ lock = "free" => ioPc \notin Waiting
BY DEF RetireInv, MemInv, LockInv, LockedExchange, Lifecycle, Active, InLock, Registering, Waiting

\* Steps that leave the queues and what the SEP holds alone.
LEMMA FirstStill ==
  ASSUME FirstHyps, UNCHANGED <<outbox, sepQ, inbox, sepIn, sepOut, inBuf, outBuf, inReg, outReg>>,
         state' = state \/ state' \notin {"RegisteringOol", "Ready"},
         ioPc' = ioPc \/ (ioPc \notin Waiting /\ ioPc' \notin Registering),
         state' # state => lock = "free"
  PROVE  FirstBody'
<1>1. Flying' = Flying /\ (Alone' <=> Alone) /\ (None' <=> None)
  BY DEF Flying, Alone, None, Quiet, One
<1>2. FirstBody
  BY DEF FirstHyps
<1>3. state' # state => state # "RegisteringOol"
  BY FirstLocked DEF FirstHyps, Registering
<1>4. /\ Alone'
      /\ (ioPc \notin Waiting => None)'
      /\ (ioPc = "inRecv" => Asked("in", inBuf))'
      /\ (ioPc = "outRecv" => Asked("out", outBuf))'
  BY <1>1, <1>2 DEF FirstBody, Asked, Waiting, Registering
<1>5. (\A m \in Held(inbox) : m.ok => /\ m.kind = "in" => sepIn = m.buf
                                      /\ m.kind = "out" => sepOut = m.buf)'
  BY <1>2 DEF FirstBody
<1>6. /\ (ioPc \in {"outSend", "outRecv"} => inReg /\ sepIn = inBuf)'
      /\ (state = "Ready" => inReg /\ outReg)'
  BY <1>2 DEF FirstBody, Registering
<1>7. (state # "RegisteringOol" /\ inReg /\ outReg => sepIn = inBuf /\ sepOut = outBuf)'
  BY <1>2, <1>3 DEF FirstBody
<1> QED
  BY <1>4, <1>5, <1>6, <1>7 DEF FirstBody

\* The conjuncts of FirstBody that speak of the context and not of messages.
Confirmed ==
  /\ ioPc \in {"outSend", "outRecv"} => inReg /\ sepIn = inBuf
  /\ state # "RegisteringOol" /\ inReg /\ outReg => sepIn = inBuf /\ sepOut = outBuf
  /\ state = "Ready" => inReg /\ outReg

\* The conjunct of FirstBody about replies.
Truthful == \A m \in Held(inbox) : m.ok => /\ m.kind = "in" => sepIn = m.buf
                                           /\ m.kind = "out" => sepOut = m.buf

LEMMA FirstParts ==
  FirstBody <=> /\ Alone
                /\ ioPc \notin Waiting => None
                /\ ioPc = "inRecv" => Asked("in", inBuf)
                /\ ioPc = "outRecv" => Asked("out", outBuf)
                /\ Truthful /\ Confirmed
BY DEF FirstBody, Truthful, Confirmed

LEMMA NoneIsAlone == TypeOK /\ None => Alone
BY FlyingTypes, QuietFacts DEF None, Alone

LEMMA NoneIsTruthful == None => Truthful
BY DEF None, Truthful, Quiet, IsSet

\* Steps that start and end with no registration message under way.
LEMMA FirstNone ==
  ASSUME TypeOK', None', Confirmed', ioPc' \notin Waiting
  PROVE  FirstBody'
<1>1. Alone'
  BY NoneIsAlone, PTL
<1>2. Truthful'
  BY NoneIsTruthful, PTL
<1>3. ioPc' # "inRecv" /\ ioPc' # "outRecv"
  BY DEF Waiting
<1> QED
  BY <1>1, <1>2, <1>3, FirstParts DEF FirstBody, Confirmed, Truthful

LEMMA NoneStays ==
  ASSUME FirstHyps, ioPc \notin Waiting, UNCHANGED <<outbox, sepQ, inbox>>
  PROVE  None /\ None'
BY DEF FirstHyps, FirstBody, None, Quiet

LEMMA FirstPnp ==
  ASSUME FirstHyps, TypeOK', ~Dead, PnpStep, ~DeviceAdd
  PROVE  FirstBody'
<1> USE DEF ctxVars, memVars, pciVars, pnpVars, ioVars, sepVars
<1>1. CASE PrepareHardware \/ PrepareHardwareFails \/ DeviceDeleted
  BY <1>1, FirstStill DEF PrepareHardware, PrepareHardwareFails, DeviceDeleted
<1>2. CASE PrepareHardwareSetsState \/ D0Exit \/ ReleaseHardwareStops \/ ReleaseHardwareEnds
  BY <1>2, FirstStill DEF PrepareHardwareSetsState, D0Exit, ReleaseHardwareStops, ReleaseHardwareEnds
<1>3. CASE D0Entry
  <2>1. /\ UNCHANGED <<outbox, sepQ, inbox, sepIn, sepOut, inBuf, outBuf, inReg, outReg, ioPc>>
        /\ lock = "free"
        /\ state' = state \/ state' = "HardwareReady" \/ (state' = "Ready" /\ inReg /\ outReg)
    BY <1>3 DEF D0Entry
  <2>2. ioPc \notin Waiting /\ ioPc \notin Registering /\ state # "RegisteringOol"
    BY <2>1, FirstLocked DEF FirstHyps
  <2>3. None'
    BY <2>1, <2>2, NoneStays
  <2>4. Confirmed'
    BY <2>1, <2>2 DEF FirstHyps, FirstBody, Confirmed, Registering
  <2> QED
    BY <2>1, <2>2, <2>3, <2>4, FirstNone
<1>4. CASE ReleaseHardwareUnmaps
  <2>1. /\ UNCHANGED <<outbox, sepQ, inbox, sepIn, sepOut, inReg, outReg, ioPc, state>>
        /\ pnp = "stopping"
        /\ OolExposed => UNCHANGED <<inBuf, outBuf>>
    BY <1>4 DEF ReleaseHardwareUnmaps, FreeOolBuffers
  <2>2. state = "Stopping"
    BY <2>1 DEF FirstHyps, RetireInv, Retirement
  <2>3. ~inReg /\ ~outReg
    BY <2>2 DEF Dead, OolExposed
  <2>4. ioPc \notin Waiting /\ ioPc \notin Registering
    BY <2>2, FirstLocked DEF FirstHyps, Waiting, Registering
  <2>5. None'
    BY <2>1, <2>4, NoneStays
  <2>6. Confirmed'
    BY <2>1, <2>2, <2>3, <2>4 DEF Confirmed, Registering
  <2> QED
    BY <2>1, <2>4, <2>5, <2>6, FirstNone
<1> QED
  BY <1>1, <1>2, <1>3, <1>4 DEF PnpStep, ReleaseStep

\* The other steps that leave the queues alone.
LEMMA FirstLocal ==
  ASSUME FirstHyps, TypeOK', ~Dead',
         \/ Arrive \/ PowerDown \/ PowerUp \/ UNCHANGED vars
         \/ GetStatusLocks \/ GetStatusReads \/ RegisterDeclined \/ RegisterStarts
         \/ RegisterNotStarted \/ AksDeclined \/ AksNotSent \/ AksTimesOut \/ AksCompletes
  PROVE  FirstBody'
<1> USE DEF ctxVars, memVars, pciVars, pnpVars, ioVars, sepVars, Registering, Waiting
<1>1. CASE Arrive
  BY <1>1, FirstStill DEF Arrive, AksArrives, RegisterArrives, GetStatusArrives, Goto
<1>2. CASE PowerDown \/ PowerUp \/ UNCHANGED vars
  BY <1>2, FirstStill DEF PowerDown, PowerUp, vars
<1>3. CASE GetStatusLocks \/ GetStatusReads \/ RegisterDeclined \/ AksDeclined \/ AksNotSent
             \/ AksTimesOut \/ AksCompletes
  BY <1>3, FirstStill DEF GetStatusLocks, GetStatusReads, RegisterDeclined, AksDeclined,
     AksNotSent, AksTimesOut, AksCompletes, Complete
<1>4. CASE RegisterNotStarted
  <2>1. /\ UNCHANGED <<outbox, sepQ, inbox, inReg, outReg>> /\ ioPc \notin Waiting
        /\ ioPc' = "idle" /\ state' = IF inReg \/ mayKnow THEN "Invalid" ELSE "HardwareReady"
    BY <1>4 DEF RegisterNotStarted, Complete
  <2>2. ~inReg /\ state' = "HardwareReady"
    BY <2>1 DEF Dead
  <2>3. None'
    BY <2>1, NoneStays
  <2>4. Confirmed'
    BY <2>1, <2>2 DEF Confirmed
  <2> QED
    BY <2>1, <2>3, <2>4, FirstNone
<1>5. CASE RegisterStarts
  <2>1. /\ UNCHANGED <<outbox, sepQ, inbox>> /\ ioPc = "regLock" /\ ioPc' = "inSend"
        /\ state' = "RegisteringOol"
    BY <1>5 DEF RegisterStarts, Goto
  <2>2. None'
    BY <2>1, NoneStays
  <2>3. Confirmed'
    BY <2>1 DEF Confirmed
  <2> QED
    BY <2>1, <2>2, <2>3, FirstNone
<1> QED
  BY <1>1, <1>2, <1>3, <1>4, <1>5

\* A registration's own steps.
LEMMA FirstRegisters ==
  ASSUME FirstHyps, TypeOK', ~Dead', NEW which \in {"in", "out"},
         SetOolSent(which) \/ SetOolNotSent(which) \/ SetOolTimesOut(which)
  PROVE  FirstBody'
<1> USE DEF ctxVars, memVars, pciVars, pnpVars, ioVars, sepVars, Waiting
<1>1. CASE SetOolTimesOut(which)
  BY <1>1 DEF SetOolTimesOut, RegisterFailed, Dead
<1>2. CASE SetOolNotSent(which)
  <2>1. /\ UNCHANGED <<outbox, sepQ, inbox, inReg, outReg>> /\ ioPc \notin Waiting
        /\ ioPc' = "idle" /\ state' = IF inReg \/ mayKnow THEN "Invalid" ELSE "HardwareReady"
    BY <1>2 DEF SetOolNotSent, RegisterFailed, Complete
  <2>2. ~inReg /\ state' = "HardwareReady"
    BY <2>1 DEF Dead
  <2>3. None'
    BY <2>1, NoneStays
  <2>4. Confirmed'
    BY <2>1, <2>2 DEF Confirmed
  <2> QED
    BY <2>1, <2>3, <2>4, FirstNone
<1>3. CASE SetOolSent(which)
  <2> DEFINE m == SetOol(which, OolBuf(which))
  <2>1. /\ outbox' = <<m>> /\ UNCHANGED <<sepQ, inbox, sepIn, sepOut, inBuf, outBuf, inReg,
                                          outReg, state>>
        /\ ioPc = IF which = "in" THEN "inSend" ELSE "outSend"
        /\ ioPc' = IF which = "in" THEN "inRecv" ELSE "outRecv"
    BY <1>3 DEF SetOolSent, Goto
  <2>2. m \in Messages /\ m.kind = which /\ m.buf = OolBuf(which) /\ Held(<<m>>) = {m} /\ One(<<m>>)
    <3>1. OolBuf(which) \in Bufs \cup {NoBuf}
      BY DEF OolBuf, FirstHyps, TypeOK
    <3> QED
      BY <3>1, TypeFacts, MessageFields, HeldOne, QuietFacts
  <2>3. ioPc \notin Waiting /\ None
    BY <2>1 DEF FirstHyps, FirstBody
  <2> HIDE DEF m
  <2>4. Alone'
    BY <2>1, <2>2, <2>3, QuietFacts, FlyingTypes DEF Alone, None, Quiet, One, FirstHyps
  <2>5. Asked(which, OolBuf(which))'
    <3>1. \A x \in Held(sepQ) \cup Held(inbox) : ~IsSet(x)
      BY <2>3 DEF None, Quiet
    <3>2. OolBuf(which)' = OolBuf(which)
      BY <2>1 DEF OolBuf
    <3>3. Flying' = {m} \cup Held(sepQ) \cup Held(inbox)
      BY <2>1, <2>2 DEF Flying
    <3> QED
      BY <2>2, <3>1, <3>2, <3>3 DEF Asked
  <2>6. (ioPc = "inRecv" => Asked("in", inBuf))' /\ (ioPc = "outRecv" => Asked("out", outBuf))'
    BY <2>1, <2>5 DEF OolBuf
  <2>7. Truthful' /\ Confirmed'
    BY <2>1 DEF FirstHyps, FirstBody, Truthful, Confirmed, Registering
  <2> QED
    BY <2>1, <2>4, <2>6, <2>7 DEF FirstBody, Truthful, Confirmed
<1> QED
  BY <1>1, <1>2, <1>3

\* An exchange's messages are no registration messages.
LEMMA FirstExchange ==
  ASSUME FirstHyps, TypeOK', AksStarts \/ AksSent \/ AksReceives
  PROVE  FirstBody'
<1> USE DEF ctxVars, memVars, pciVars, pnpVars, ioVars, sepVars, Waiting
<1>0. /\ outbox \in Seq(Messages) /\ sepQ \in Seq(Messages) /\ inbox \in Seq(Messages)
      /\ nextTxn \in 0 .. TxnMod - 1
  BY FlyingTypes DEF FirstHyps
<1>1. UNCHANGED <<sepIn, sepOut, inBuf, outBuf, inReg, outReg, state>>
  BY DEF AksStarts, AksSent, AksReceives
<1>2. ioPc \notin Waiting /\ ioPc' \notin Waiting \cup {"outSend"}
  BY DEF AksStarts, AksSent, AksReceives, Goto, Complete
<1>3. Quiet(outbox) /\ Quiet(sepQ) /\ Quiet(inbox)
  BY <1>2 DEF FirstHyps, FirstBody, None
<1>4. None'
  <2>1. CASE AksStarts
    <3>1. outbox' = Age(outbox) /\ sepQ' = Age(sepQ) /\ inbox' = Age(inbox)
      BY <2>1 DEF AksStarts
    <3>2. Quiet(outbox') /\ Quiet(sepQ') /\ Quiet(inbox')
      BY <1>0, <1>3, <3>1, QuietAge
    <3> QED
      BY <3>2 DEF None, Quiet
  <2>2. CASE AksSent
    <3>1. outbox' = <<Aks(nextTxn)>> /\ sepQ' = sepQ /\ inbox' = inbox
      BY <2>2 DEF AksSent
    <3>2. Quiet(outbox')
      <4>1. Aks(nextTxn) \in Messages /\ ~IsSet(Aks(nextTxn))
        BY <1>0, TypeFacts, MessageFields DEF IsSet
      <4> QED
        BY <3>1, <4>1, QuietFacts
    <3> QED
      BY <1>3, <3>1, <3>2 DEF None, Quiet
  <2>3. CASE AksReceives
    <3>1. inbox # <<>> /\ inbox' = Tail(inbox) /\ UNCHANGED <<outbox, sepQ>>
      BY <2>3 DEF AksReceives, InboxEmpty
    <3>2. Quiet(inbox')
      BY <1>0, <1>3, <3>1, QuietTail
    <3> QED
      BY <1>3, <3>1, <3>2 DEF None, Quiet
  <2> QED
    BY <2>1, <2>2, <2>3
<1>5. Confirmed'
  BY <1>1, <1>2 DEF FirstHyps, FirstBody, Confirmed
<1> QED
  BY <1>2, <1>4, <1>5, FirstNone

\* A reply to SET_OOL, or a message that is skipped.
LEMMA FirstReceives ==
  ASSUME FirstHyps, TypeOK', ~Dead', NEW which \in {"in", "out"}, SetOolReceives(which)
  PROVE  FirstBody'
<1> DEFINE h == Head(inbox)
           b == IF which = "in" THEN inBuf ELSE outBuf
<1> USE DEF Waiting
<1>0. /\ outbox \in Seq(Messages) /\ sepQ \in Seq(Messages) /\ inbox \in Seq(Messages)
      /\ inbox # <<>> /\ inbox' = Tail(inbox) /\ UNCHANGED <<outbox, sepQ, sepIn, sepOut>>
      /\ ioPc = IF which = "in" THEN "inRecv" ELSE "outRecv"
      /\ state = "RegisteringOol"
  BY FlyingTypes, FirstLocked DEF FirstHyps, SetOolReceives, InboxEmpty, Registering
<1>1. /\ h \in Held(inbox) /\ h \in Messages /\ Held(inbox) = {h} \cup Held(inbox')
  BY <1>0, HeldTail
<1>2. Alone /\ Truthful /\ Confirmed /\ Asked(which, b)
  BY <1>0 DEF FirstHyps, FirstBody, Truthful, Confirmed
<1>3. /\ One(inbox')
      /\ Quiet(inbox) => Quiet(inbox')
      /\ IsSet(h) => Quiet(inbox') /\ ~Quiet(inbox)
  BY <1>0, <1>1, <1>2, QuietTail DEF Alone, Quiet
<1>4. IsSet(h) => h.kind = which /\ h.buf = b
  BY <1>1, <1>2 DEF Asked, Flying
<1>5. CASE h.kind = which /\ h.ok
  <2>1. IsSet(h) /\ h.buf = b
    BY <1>4, <1>5 DEF IsSet
  <2>2. None'
    BY <1>0, <1>2, <1>3, <2>1 DEF None, Alone, Quiet
  <2>3. IF which = "in" THEN sepIn = inBuf ELSE sepOut = outBuf
    BY <1>1, <1>2, <1>5, <2>1 DEF Truthful
  <2>4. CASE which = "in"
    <3>1. ioPc' = "outSend" /\ inReg' = TRUE /\ UNCHANGED <<state, inBuf, outBuf>>
      BY <1>5, <2>4 DEF SetOolReceives
    <3>2. Confirmed'
      BY <1>0, <2>3, <2>4, <3>1 DEF Confirmed
    <3> QED
      BY <2>2, <3>1, <3>2, FirstNone
  <2>5. CASE which = "out"
    <3>1. ioPc' = "idle" /\ outReg' = TRUE /\ state' = "Ready" /\ UNCHANGED <<inReg, inBuf, outBuf>>
      BY <1>5, <2>5 DEF SetOolReceives, Complete
    <3>2. inReg /\ sepIn = inBuf
      BY <1>0, <1>2, <2>5 DEF Confirmed
    <3>3. Confirmed'
      BY <1>0, <2>3, <2>5, <3>1, <3>2 DEF Confirmed
    <3> QED
      BY <2>2, <3>1, <3>3, FirstNone
  <2> QED
    BY <2>4, <2>5
<1>6. CASE ~(h.kind = which /\ h.ok)
  <2>1. \/ h.kind # which /\ UNCHANGED <<state, inReg, outReg, inBuf, outBuf, ioPc>>
        \/ RegisterFailed(TRUE)
    BY <1>6 DEF SetOolReceives
  <2>2. RegisterFailed(TRUE) => Dead'
    BY DEF RegisterFailed, Dead
  <2>3. ~IsSet(h) /\ UNCHANGED <<state, inReg, outReg, inBuf, outBuf, ioPc>>
    BY <1>4, <2>1, <2>2
  <2>4. Alone'
    BY <1>0, <1>2, <1>3 DEF Alone, One, Quiet
  <2>5. Asked(which, b)'
    <3>1. Flying' \subseteq Flying
      BY <1>0, <1>1 DEF Flying
    <3> QED
      BY <1>2, <2>3, <3>1 DEF Asked
  <2>6. (ioPc = "inRecv" => Asked("in", inBuf))' /\ (ioPc = "outRecv" => Asked("out", outBuf))'
    BY <1>0, <2>3, <2>5
  <2>7. Truthful'
    BY <1>0, <1>1, <1>2 DEF Truthful
  <2>8. Confirmed'
    BY <1>0, <1>2, <2>3 DEF Confirmed
  <2> QED
    BY <1>0, <2>3, <2>4, <2>6, <2>7, <2>8 DEF FirstBody, Truthful, Confirmed
<1> QED
  BY <1>5, <1>6

\* The SEP's steps leave the context alone.
LEMMA SepLeaves ==
  ASSUME SepStep
  PROVE  UNCHANGED <<inBuf, outBuf, inReg, outReg, state, ioPc, mayKnow, contexts>>
BY DEF SepStep, SepTakes, SepReplies, SepInterjects, ctxVars, ioVars, pnpVars

\* What a waiting registration asked for stays so when no new message is one.
LEMMA AskedStays ==
  ASSUME FirstHyps, UNCHANGED <<inBuf, outBuf, ioPc>>,
         \A x \in Flying' : ~IsSet(x) \/ \E m \in Flying : x.kind = m.kind /\ x.buf = m.buf
  PROVE  (ioPc = "inRecv" => Asked("in", inBuf))' /\ (ioPc = "outRecv" => Asked("out", outBuf))'
BY DEF FirstHyps, FirstBody, Asked, IsSet

LEMMA FirstTakes ==
  ASSUME FirstHyps, TypeOK', SepTakes
  PROVE  FirstBody'
<1> DEFINE h == Head(outbox)
<1>0. /\ outbox \in Seq(Messages) /\ sepQ \in Seq(Messages) /\ inbox \in Seq(Messages)
      /\ outbox # <<>> /\ sepQ' = Append(sepQ, h) /\ outbox' = <<>>
      /\ UNCHANGED <<inbox, sepIn, sepOut, inBuf, outBuf, inReg, outReg, state, ioPc>>
  BY FlyingTypes, SepLeaves DEF FirstHyps, SepTakes, SepStep
<1>1. h \in Held(outbox) /\ h \in Messages
  BY <1>0, HeldTail
<1> HIDE DEF h
<1>2. Alone /\ Truthful /\ Confirmed /\ (ioPc \notin Waiting => None)
  BY DEF FirstHyps, FirstBody, Truthful, Confirmed
<1>3. /\ IsSet(h) => Quiet(sepQ) /\ Quiet(inbox)
      /\ Quiet(outbox') /\ One(outbox')
  <2>1. IsSet(h) => ~Quiet(outbox)
    BY <1>1 DEF Quiet
  <2>2. Quiet(<<>>) /\ One(<<>>)
    <3>1. <<>> \in Seq(Messages)
      OBVIOUS
    <3> QED
      BY <3>1, QuietFacts
  <2>3. Quiet(outbox') /\ One(outbox')
    BY <1>0, <2>2
  <2> QED
    BY <1>2, <2>1, <2>3 DEF Alone
<1>4. /\ One(sepQ')
      /\ Quiet(sepQ) /\ ~IsSet(h) => Quiet(sepQ')
  <2>1. /\ Quiet(sepQ) => One(Append(sepQ, h))
        /\ Quiet(sepQ) /\ ~IsSet(h) => Quiet(Append(sepQ, h))
        /\ One(sepQ) /\ ~IsSet(h) => One(Append(sepQ, h))
    BY <1>0, <1>1, QuietAppend
  <2> QED
    BY <1>0, <1>2, <1>3, <2>1 DEF Alone
<1>5. Alone'
  <2>1. Quiet(sepQ') \/ Quiet(inbox')
    BY <1>0, <1>2, <1>3, <1>4 DEF Alone
  <2>2. Quiet(outbox') /\ One(outbox') /\ One(sepQ') /\ One(inbox')
    BY <1>0, <1>2, <1>3, <1>4 DEF Alone
  <2> QED
    BY <2>1, <2>2 DEF Alone, One, Quiet
<1>6. (ioPc \notin Waiting => None)'
  <2> SUFFICES ASSUME ioPc \notin Waiting PROVE Quiet(outbox') /\ Quiet(sepQ') /\ Quiet(inbox')
    BY <1>0 DEF None, Quiet
  <2> QED
    BY <1>0, <1>1, <1>2, <1>3, <1>4 DEF None, Quiet
<1>7. \A x \in Flying' : \E m \in Flying : x.kind = m.kind /\ x.buf = m.buf
  <2>1. Held(sepQ') = Held(sepQ) \cup {h} /\ Held(outbox') = {}
    BY <1>0, <1>1, HeldAppend, HeldEmpty
  <2> QED
    BY <1>0, <1>1, <2>1 DEF Flying
<1>8. (ioPc = "inRecv" => Asked("in", inBuf))' /\ (ioPc = "outRecv" => Asked("out", outBuf))'
  BY <1>0, <1>7, AskedStays
<1>9. Truthful' /\ Confirmed'
  BY <1>0, <1>2 DEF Truthful, Confirmed
<1> QED
  BY <1>5, <1>6, <1>8, <1>9 DEF FirstBody, Truthful, Confirmed

LEMMA FirstReplies ==
  ASSUME FirstHyps, TypeOK', SepReplies
  PROVE  FirstBody'
<1> DEFINE h == Head(sepQ)
<1>0. /\ outbox \in Seq(Messages) /\ sepQ \in Seq(Messages) /\ inbox \in Seq(Messages)
      /\ sepQ # <<>> /\ sepQ' = Tail(sepQ)
      /\ UNCHANGED <<outbox, inBuf, outBuf, inReg, outReg, state, ioPc>>
  BY FlyingTypes, SepLeaves DEF FirstHyps, SepReplies, SepStep
<1>1. PICK k \in BOOLEAN : /\ inbox' = Append(inbox, [h EXCEPT !.ok = k])
                           /\ sepIn' = IF k /\ h.kind = "in" THEN h.buf ELSE sepIn
                           /\ sepOut' = IF k /\ h.kind = "out" THEN h.buf ELSE sepOut
  BY DEF SepReplies
<1>2. h \in Held(sepQ) /\ h \in Messages /\ Held(sepQ) = {h} \cup Held(sepQ')
  BY <1>0, HeldTail
<1> DEFINE r == [h EXCEPT !.ok = k]
<1>3. r \in Messages /\ r.kind = h.kind /\ r.buf = h.buf /\ r.ok = k /\ inbox' = Append(inbox, r)
  BY <1>1, <1>2, TypeFacts, MessageFields
<1> HIDE DEF r, h
<1>4. IsSet(r) <=> IsSet(h)
  BY <1>3 DEF IsSet
<1>5. Alone /\ Truthful /\ Confirmed /\ (ioPc \notin Waiting => None)
  BY DEF FirstHyps, FirstBody, Truthful, Confirmed
<1>6. /\ One(sepQ') /\ (Quiet(sepQ) => Quiet(sepQ'))
      /\ IsSet(h) => Quiet(sepQ') /\ Quiet(inbox) /\ Quiet(outbox) /\ ioPc \in Waiting
  BY <1>0, <1>2, <1>5, QuietTail DEF Alone, Quiet, None, h
<1>7. /\ One(inbox')
      /\ Quiet(inbox) /\ ~IsSet(h) => Quiet(inbox')
  BY <1>0, <1>3, <1>4, <1>5, <1>6, QuietAppend DEF Alone
<1>8. Alone'
  <2>1. One(outbox') /\ One(sepQ') /\ One(inbox')
    BY <1>0, <1>5, <1>6, <1>7 DEF Alone
  <2>2. Quiet(outbox') \/ (Quiet(sepQ') /\ Quiet(inbox'))
    BY <1>0, <1>5, <1>6, <1>7 DEF Alone
  <2>3. Quiet(sepQ') \/ Quiet(inbox')
    BY <1>0, <1>5, <1>6, <1>7 DEF Alone
  <2> QED
    BY <2>1, <2>2, <2>3 DEF Alone, One, Quiet
<1>9. (ioPc \notin Waiting => None)'
  <2> SUFFICES ASSUME ioPc \notin Waiting PROVE Quiet(outbox') /\ Quiet(sepQ') /\ Quiet(inbox')
    BY <1>0 DEF None, Quiet
  <2> QED
    BY <1>0, <1>5, <1>6, <1>7 DEF None
<1>10. Held(inbox') = Held(inbox) \cup {r}
  BY <1>0, <1>3, HeldAppend
<1>11. \A x \in Flying' : \E m \in Flying : x.kind = m.kind /\ x.buf = m.buf
  BY <1>0, <1>2, <1>3, <1>10 DEF Flying
<1>12. (ioPc = "inRecv" => Asked("in", inBuf))' /\ (ioPc = "outRecv" => Asked("out", outBuf))'
  BY <1>0, <1>11, AskedStays
<1>13. Truthful'
  <2>1. CASE IsSet(h)
    <3>1. \A m \in Held(inbox) : m.kind # "in" /\ m.kind # "out"
      BY <1>6, <2>1 DEF Quiet, IsSet
    <3>2. r.ok => (r.kind = "in" => sepIn' = r.buf) /\ (r.kind = "out" => sepOut' = r.buf)
      BY <1>1, <1>3
    <3> QED
      BY <1>10, <3>1, <3>2 DEF Truthful
  <2>2. CASE ~IsSet(h)
    <3>1. sepIn' = sepIn /\ sepOut' = sepOut /\ r.kind # "in" /\ r.kind # "out"
      BY <1>1, <1>3, <2>2 DEF IsSet
    <3> QED
      BY <1>5, <1>10, <3>1 DEF Truthful
  <2> QED
    BY <2>1, <2>2
<1>14. Confirmed'
  <2>1. CASE ~IsSet(h)
    BY <1>0, <1>1, <1>5, <2>1 DEF Confirmed, IsSet
  <2>2. CASE IsSet(h)
    <3>1. ioPc \in Waiting /\ state = "RegisteringOol"
      BY <1>6, <2>2, FirstLocked DEF FirstHyps, Waiting, Registering
    <3>2. ioPc = "outRecv" => h.kind = "out"
      BY <1>2, <2>2 DEF FirstHyps, FirstBody, Asked, Flying
    <3> QED
      BY <1>0, <1>1, <1>5, <3>1, <3>2 DEF Confirmed, Waiting
  <2> QED
    BY <2>1, <2>2
<1> QED
  BY <1>8, <1>9, <1>12, <1>13, <1>14 DEF FirstBody, Truthful, Confirmed

LEMMA FirstInterjects ==
  ASSUME FirstHyps, TypeOK', SepInterjects
  PROVE  FirstBody'
<1>0. /\ outbox \in Seq(Messages) /\ sepQ \in Seq(Messages) /\ inbox \in Seq(Messages)
      /\ inbox' = Append(inbox, NoMsg)
      /\ UNCHANGED <<outbox, sepQ, sepIn, sepOut, inBuf, outBuf, inReg, outReg, state, ioPc>>
  BY FlyingTypes, SepLeaves DEF FirstHyps, SepInterjects, SepStep
<1>1. NoMsg \in Messages /\ ~IsSet(NoMsg)
  BY TypeFacts, MessageFields DEF IsSet
<1>2. Alone /\ Truthful /\ Confirmed /\ (ioPc \notin Waiting => None)
  BY DEF FirstHyps, FirstBody, Truthful, Confirmed
<1>3. One(inbox') /\ (Quiet(inbox) => Quiet(inbox')) /\ Held(inbox') = Held(inbox) \cup {NoMsg}
  BY <1>0, <1>1, <1>2, QuietAppend, HeldAppend DEF Alone
<1>4. Alone'
  <2>1. /\ One(outbox') /\ One(sepQ') /\ One(inbox')
        /\ Quiet(outbox') \/ (Quiet(sepQ') /\ Quiet(inbox'))
        /\ Quiet(sepQ') \/ Quiet(inbox')
    BY <1>0, <1>2, <1>3 DEF Alone
  <2> QED
    BY <2>1 DEF Alone, One, Quiet
<1>5. (ioPc \notin Waiting => None)'
  <2> SUFFICES ASSUME ioPc \notin Waiting PROVE Quiet(outbox') /\ Quiet(sepQ') /\ Quiet(inbox')
    BY <1>0 DEF None, Quiet
  <2> QED
    BY <1>0, <1>2, <1>3 DEF None
<1>6. (ioPc = "inRecv" => Asked("in", inBuf))' /\ (ioPc = "outRecv" => Asked("out", outBuf))'
  <2>1. \A x \in Flying' : ~IsSet(x) \/ \E m \in Flying : x.kind = m.kind /\ x.buf = m.buf
    BY <1>0, <1>1, <1>3 DEF Flying
  <2> QED
    BY <1>0, <2>1, AskedStays
<1>7. Truthful' /\ Confirmed'
  BY <1>0, <1>1, <1>2, <1>3 DEF Truthful, Confirmed, IsSet
<1> QED
  BY <1>4, <1>5, <1>6, <1>7 DEF FirstBody, Truthful, Confirmed

-----------------------------------------------------------------------------
\* The count of contexts only grows, with a new one.
LEMMA ContextsGrow ==
  ASSUME contexts \in Nat \ {0}, [Next]_vars
  PROVE  contexts' \in Nat \ {0} /\ (contexts' = 1 => contexts = 1 /\ ~DeviceAdd)
<1>1. DeviceAdd => contexts' = contexts + 1
  BY DEF DeviceAdd
<1>2. ~DeviceAdd => contexts' = contexts
  <2>1. PnpStep /\ ~DeviceAdd => contexts' = contexts
    BY DEF PnpStep, PrepareHardware, PrepareHardwareFails, PrepareHardwareSetsState, D0Entry,
         D0Exit, ReleaseHardwareStops, ReleaseStep, ReleaseHardwareUnmaps, ReleaseHardwareEnds,
         DeviceDeleted, pnpVars
  <2>2. Arrive \/ PowerDown \/ PowerUp \/ UNCHANGED vars \/ SepStep => contexts' = contexts
    BY DEF Arrive, AksArrives, RegisterArrives, GetStatusArrives, PowerDown, PowerUp, vars,
           SepStep, SepTakes, SepReplies, SepInterjects, pnpVars
  <2>3. GetStatusLocks \/ GetStatusReads \/ RegisterDeclined \/ RegisterStarts
          \/ RegisterNotStarted \/ AksDeclined \/ AksStarts \/ AksSent \/ AksNotSent
          \/ AksReceives \/ AksTimesOut \/ AksCompletes => contexts' = contexts
    BY DEF GetStatusLocks, GetStatusReads, RegisterDeclined, RegisterStarts, RegisterNotStarted,
           AksDeclined, AksStarts, AksSent, AksNotSent, AksReceives, AksTimesOut, AksCompletes,
           pnpVars
  <2>4. ASSUME NEW which \in {"in", "out"},
               SetOolSent(which) \/ SetOolNotSent(which) \/ SetOolReceives(which)
                 \/ SetOolTimesOut(which)
        PROVE  contexts' = contexts
    BY <2>4 DEF SetOolSent, SetOolNotSent, SetOolReceives, SetOolTimesOut, pnpVars
  <2> QED
    BY <2>1, <2>2, <2>3, <2>4 DEF Next, IoStep
<1> QED
  BY <1>1, <1>2

\* One step per action.
LEMMA FirstStep ==
  ASSUME TypeOK, TypeOK', RetireInv, FirstInv, [Next]_vars
  PROVE  FirstInv'
<1>1. contexts' \in Nat \ {0} /\ (contexts' = 1 => contexts = 1 /\ ~DeviceAdd)
  BY ContextsGrow DEF FirstInv
<1>2. (state = "RegisteringOol" => ioPc \in Registering)'
  BY RegisteringStep DEF FirstInv
<1>3. ASSUME contexts' = 1, ~Dead' PROVE FirstBody'
  <2>1. ~DeviceAdd /\ ~Dead
    BY <1>1, <1>3, DeadStays
  <2>2. FirstHyps
    BY <1>1, <1>3, <2>1 DEF FirstInv, FirstHyps
  <2>3. CASE PnpStep
    BY <2>1, <2>2, <2>3, FirstPnp
  <2>4. CASE \/ Arrive \/ PowerDown \/ PowerUp \/ UNCHANGED vars
             \/ GetStatusLocks \/ GetStatusReads \/ RegisterDeclined \/ RegisterStarts
             \/ RegisterNotStarted \/ AksDeclined \/ AksNotSent \/ AksTimesOut \/ AksCompletes
    BY <1>3, <2>2, <2>4, FirstLocal
  <2>5. ASSUME NEW which \in {"in", "out"},
               SetOolSent(which) \/ SetOolNotSent(which) \/ SetOolReceives(which)
                 \/ SetOolTimesOut(which)
        PROVE  FirstBody'
    BY <1>3, <2>2, <2>5, FirstRegisters, FirstReceives
  <2>6. CASE AksStarts \/ AksSent \/ AksReceives
    BY <2>2, <2>6, FirstExchange
  <2>7. CASE SepStep
    BY <2>2, <2>7, FirstTakes, FirstReplies, FirstInterjects DEF SepStep
  <2> QED
    BY <2>3, <2>4, <2>5, <2>6, <2>7 DEF Next, IoStep
<1> QED
  BY <1>1, <1>2, <1>3 DEF FirstInv

\* The first device context of a boot is Ready only with the SEP acting on its own buffers,
\* however resumes fail and whatever the SEP leaves unanswered (mailbox.c 274-278).
THEOREM FirstReadyAlways == Spec => []FirstReadyMeansConfirmed
<1> DEFINE Inv == TypeOK /\ RetireInv /\ FirstInv
<1>1. Init => Inv
  <2> SUFFICES ASSUME Init PROVE RetireInv /\ FirstInv
    BY InitTypeOK
  <2>1. RetireInv
    BY BufsAssumption
    DEF Init, RetireInv, MemInv, LockInv, LockedExchange, Lifecycle, Exposure, Retirement,
        InLock, Exchanging, Registering, Active
  <2>2. None /\ TypeOK
    BY QuietFacts, InitTypeOK DEF Init, None
  <2>3. Alone /\ Truthful
    BY <2>2, NoneIsAlone, NoneIsTruthful
  <2>4. FirstBody
    BY <2>2, <2>3 DEF Init, FirstBody, Truthful
  <2> QED
    BY <2>1, <2>4 DEF Init, FirstInv
<1>2. Inv /\ [Next]_vars => Inv'
  <2>1. RetireInv /\ [Next]_vars => RetireInv'
    BY LockStep, ExposureStep, RetireStep DEF RetireInv, MemInv
  <2> QED
    BY <2>1, TypeStep, FirstStep
<1>3. Inv => FirstReadyMeansConfirmed
  BY DEF FirstInv, FirstBody, Dead, FirstReadyMeansConfirmed, ReadyMeansConfirmed
<1> QED
  BY <1>1, <1>2, <1>3, PTL DEF Spec
=============================================================================
