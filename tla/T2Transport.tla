---------------------------- MODULE T2Transport ----------------------------
(***************************************************************************)
(* The kernel-mode SEP transport driver, driver/T2TouchIdTransport: the    *)
(* lifecycle of its transport state, the registration of the two OOL DMA   *)
(* buffers with the SEP, AppleKeyStore exchanges over the mailbox, and the *)
(* PnP/power callbacks that run beside them.                               *)
(*                                                                         *)
(* Two threads share the device context: the request at the head of the    *)
(* sequential IOCTL queue (ioPc) and the framework's PnP/power thread      *)
(* (pnp).  A step is what one thread does between two points where the     *)
(* other can interfere: an acquisition or release of ExchangeLock, an MMIO *)
(* access, an access outside the lock.  The SEP outlives every device      *)
(* context: its mailbox FIFO and the addresses it was told survive power   *)
(* cycles and device removal.                                              *)
(***************************************************************************)
EXTENDS Naturals, Sequences, FiniteSets

CONSTANTS
  Bufs,           \* common buffers the host can ever hand out (a bound)
  NoBuf,          \* a NULL WDFCOMMONBUFFER handle
  TxnMod,         \* 256: NextTransaction is a UINT8
  MaxSkip,        \* 32: T2_SEP_MAX_SKIPPED_REPLIES
  MaxQueue,       \* bound on the messages the SEP holds, and on its inbox
  MaxContexts,    \* bound on the times the WDFDEVICE is created
  ResumeMayFail,  \* D0Entry may find a dead mailbox or fail to re-arm DMA
  AckReleases     \* a request acknowledged by EvtIoStop does not hold up
                  \* the power or removal callback that follows

ASSUME BufsAssumption == NoBuf \notin Bufs /\ IsFiniteSet(Bufs)
ASSUME NumbersAssumption ==
  /\ TxnMod \in Nat /\ TxnMod > 1
  /\ MaxSkip \in Nat \ {0}
  /\ MaxQueue \in Nat \ {0}
  /\ MaxContexts \in Nat \ {0}
ASSUME FlagsAssumption == ResumeMayFail \in BOOLEAN /\ AckReleases \in BOOLEAN

VARIABLES
  \* the device context (T2_DEVICE_CONTEXT)
  state, barMapped, inReg, outReg, mayKnow, inBuf, outBuf, pinnedIn,
  pinnedOut, nextTxn,
  \* host memory: buffers that exist, buffers deleted, buffers with an extra
  \* reference
  live, freed, refs,
  \* the PCI function
  powered, busMaster,
  \* the threads and the lock they share
  lock, ioPc, skipped, got, pnp, contexts, wasReg, fault,
  \* the mailbox and the SEP behind it
  outbox, sepQ, inbox, sepIn, sepOut, known

ctxVars  == <<state, barMapped, inReg, outReg, mayKnow, inBuf, outBuf,
              pinnedIn, pinnedOut, nextTxn>>
memVars  == <<live, freed, refs>>
pciVars  == <<powered, busMaster>>
pnpVars  == <<pnp, contexts, wasReg>>
ioVars   == <<ioPc, skipped, got, fault>>
sepVars  == <<outbox, sepQ, inbox, sepIn, sepOut, known>>
vars     == <<ctxVars, memVars, pciVars, lock, ioVars, pnpVars, sepVars>>

-----------------------------------------------------------------------------
(* Values. *)

States == {"NotInitialized", "HardwareReady", "RegisteringOol", "Ready",
           "Stopping", "Invalid"}

\* How long ago, in transaction numbers, an AKS request was sent.  Two ages
\* beyond the ones a UINT8 that skips 0 can tell apart: WrapAge and older
\* numbers have been reused, ForeignAge is another device context's.
WrapAge    == TxnMod - 1
ForeignAge == TxnMod

\* A mailbox message: SET_OOL_IN, SET_OOL_OUT or an AKS exchange with what
\* its reply is matched by (buf stands for the fixed tag 1 or 2 and the
\* address), or a message of another endpoint.
Messages == [kind : {"in", "out", "aks", "noise"}, buf : Bufs \cup {NoBuf},
             txn : 0 .. TxnMod - 1, age : 0 .. ForeignAge, ok : BOOLEAN]

NoMsg == [kind |-> "noise", buf |-> NoBuf, txn |-> 0, age |-> 0, ok |-> TRUE]

SetOol(which, b) == [NoMsg EXCEPT !.kind = which, !.buf = b]
Aks(t)           == [NoMsg EXCEPT !.kind = "aks", !.txn = t]

\* The transaction counter: ++ on a UINT8, again if that gave 0.
Bump(t) == IF t = TxnMod - 1 THEN 1 ELSE t + 1

\* Every AKS message in flight is one transaction number older.
Older(m) == [m EXCEPT !.age = IF @ < WrapAge THEN @ + 1 ELSE @]
Age(q)   == [i \in DOMAIN q |-> Older(q[i])]
Alien(m) == [m EXCEPT !.age = ForeignAge]
Estrange(q) == [i \in DOMAIN q |-> Alien(q[i])]

\* What the two status registers show.  A function that does not answer
\* reads all ones: the outbox looks full and the inbox empty.
OutboxFull == ~powered \/ outbox # <<>>
InboxEmpty == ~powered \/ inbox = <<>>

\* Was an OOL address ever exposed to the SEP by this context?
OolExposed == inReg \/ outReg \/ mayKnow

Fresh == Bufs \ (live \cup freed)

-----------------------------------------------------------------------------
(* The state of a device context that T2EvtDeviceAdd has just zeroed.      *)

Init ==
  /\ state = "NotInitialized" /\ barMapped = FALSE
  /\ inReg = FALSE /\ outReg = FALSE /\ mayKnow = FALSE
  /\ inBuf = NoBuf /\ outBuf = NoBuf
  /\ pinnedIn = FALSE /\ pinnedOut = FALSE
  /\ nextTxn = 0
  /\ live = {} /\ freed = {} /\ refs = {}
  /\ powered = TRUE /\ busMaster = FALSE
  /\ lock = "free" /\ ioPc = "idle" /\ skipped = 0 /\ got = 0 /\ fault = FALSE
  /\ pnp = "added" /\ contexts = 1 /\ wasReg = FALSE
  /\ outbox = <<>> /\ sepQ = <<>> /\ inbox = <<>>
  /\ sepIn = NoBuf /\ sepOut = NoBuf /\ known = {}

-----------------------------------------------------------------------------
(* Helpers of the IOCTL thread. *)

Goto(from, to) == ioPc = from /\ ioPc' = to

\* WdfRequestComplete, after the release of ExchangeLock.
Complete == ioPc' = "idle" /\ lock' = "free"

\* Mutant: the buffers are freed without asking whether the SEP knows them.
FreeOolBuffersAlways(exposed) ==
  /\ freed' = freed \cup (live \cap {inBuf, outBuf})
  /\ live' = live \ {inBuf, outBuf}
  /\ inBuf' = NoBuf /\ outBuf' = NoBuf

\* T2DmaFreeOolBuffers: refuses once the SEP may know an address.
FreeOolBuffers(exposed) ==
  IF exposed
  THEN UNCHANGED <<inBuf, outBuf, live, freed>>
  ELSE /\ freed' = freed \cup (live \cap {inBuf, outBuf})
       /\ live' = live \ {inBuf, outBuf}
       /\ inBuf' = NoBuf /\ outBuf' = NoBuf

\* Mutant: every failed registration may be retried.
RegisterFailedRetry(exposed) ==
  /\ state' = "HardwareReady"
  /\ FreeOolBuffers(inReg \/ exposed)
  /\ Complete

\* The failure branches at the end of T2EvtIoDeviceControlRegisterOol.
RegisterFailed(exposed) ==
  /\ state' = IF inReg \/ exposed THEN "Invalid" ELSE "HardwareReady"
  /\ FreeOolBuffers(inReg \/ exposed)
  /\ Complete

OolBuf(which) == IF which = "in" THEN inBuf ELSE outBuf

\* Mutant: references are taken with the first address only.
MarkExposedPinsFirst(which) ==
  /\ mayKnow' = TRUE
  /\ refs' = IF mayKnow THEN refs ELSE refs \cup {OolBuf(which)}
  /\ pinnedIn' = (pinnedIn \/ which = "in")
  /\ pinnedOut' = (pinnedOut \/ which = "out")

\* What T2DmaRegisterOolBuffers does once T2SepControl has returned from a
\* message that was sent, whatever it returned.  The references are taken by
\* T2DmaPinForSep, once per context.
MarkExposed(which) ==
  /\ mayKnow' = TRUE
  /\ refs' = refs \cup (IF which = "in"
                        THEN IF pinnedIn THEN {} ELSE {inBuf}
                        ELSE IF pinnedOut THEN {} ELSE {outBuf})
  /\ pinnedIn' = (pinnedIn \/ which = "in")
  /\ pinnedOut' = (pinnedOut \/ which = "out")

-----------------------------------------------------------------------------
(* The sequential, power-managed queue hands over the next request.        *)

\* A request the handler rejects at once (transport not Ready, opcode not
\* allowed, sizes out of bounds) changes nothing and is not a step.
AksArrives ==
  /\ pnp = "D0" /\ state = "Ready"
  /\ Goto("idle", "aksLock")
  /\ UNCHANGED <<ctxVars, memVars, pciVars, lock, skipped, got, fault, pnpVars, sepVars>>

RegisterArrives ==
  /\ pnp = "D0"
  /\ Goto("idle", "regLock")
  /\ UNCHANGED <<ctxVars, memVars, pciVars, lock, skipped, got, fault, pnpVars, sepVars>>

GetStatusArrives ==
  /\ pnp = "D0"
  /\ Goto("idle", "statusLock")
  /\ UNCHANGED <<ctxVars, memVars, pciVars, lock, skipped, got, fault, pnpVars, sepVars>>

-----------------------------------------------------------------------------
(* IOCTL_T2_GET_STATUS: Bar4Mapped is tested and BAR4 read under the lock. *)

GetStatusLocks ==
  /\ ioPc = "statusLock" /\ lock = "free"
  /\ IF barMapped
     THEN ioPc' = "statusRead" /\ lock' = "io"
     ELSE Complete
  /\ UNCHANGED <<ctxVars, memVars, pciVars, skipped, got, fault, pnpVars, sepVars>>

GetStatusReads ==
  /\ ioPc = "statusRead"
  /\ fault' = (fault \/ ~barMapped)
  /\ Complete
  /\ UNCHANGED <<ctxVars, memVars, pciVars, skipped, got, pnpVars, sepVars>>

-----------------------------------------------------------------------------
(* IOCTL_T2_REGISTER_OOL.                                                  *)

\* Already Ready (success), or a state that may not start a registration.
RegisterDeclined ==
  /\ ioPc = "regLock" /\ lock = "free"
  /\ state # "HardwareReady"
  /\ Complete
  /\ UNCHANGED <<ctxVars, memVars, pciVars, skipped, got, fault, pnpVars, sepVars>>

\* T2DmaAllocateOolBuffers makes two buffers and stores them, whatever the
\* context held before; T2EnablePciBusMaster succeeds.
RegisterStarts ==
  /\ lock = "free" /\ state = "HardwareReady"
  /\ \E a \in Fresh : \E b \in Fresh \ {a} :
       /\ inBuf' = a /\ outBuf' = b
       /\ live' = live \cup {a, b}
  /\ busMaster' = TRUE
  /\ state' = "RegisteringOol"
  /\ Goto("regLock", "inSend")
  /\ lock' = "io"
  /\ UNCHANGED <<barMapped, inReg, outReg, mayKnow, pinnedIn, pinnedOut, nextTxn,
                 freed, refs, powered, skipped, got, fault, pnpVars, sepVars>>

\* The allocation fails after it made some of the buffers, or the bus-master
\* bit cannot be set.  The handles in the context are overwritten as the buffers
\* are made (what a failing creation leaves in its handle nobody reads again);
\* they are rolled back unless T2DmaFreeOolBuffers refuses.
RegisterNotStarted ==
  /\ ioPc = "regLock" /\ lock = "free" /\ state = "HardwareReady"
  /\ \E in \in Fresh \cup {inBuf} : \E out \in (Fresh \ {in}) \cup {outBuf} :
       /\ out \in Fresh => in \in Fresh
       /\ IF mayKnow
          THEN /\ inBuf' = in /\ outBuf' = out
               /\ live' = live \cup (Fresh \cap {in, out})
               /\ UNCHANGED freed
          ELSE /\ inBuf' = NoBuf /\ outBuf' = NoBuf
               /\ freed' = freed \cup (Fresh \cap {in, out})
               /\ UNCHANGED live
  /\ state' = IF inReg \/ mayKnow THEN "Invalid" ELSE "HardwareReady"
  /\ Complete
  /\ UNCHANGED <<barMapped, inReg, outReg, mayKnow, pinnedIn, pinnedOut,
                 nextTxn, refs, pciVars, skipped, got, fault, pnpVars, sepVars>>

\* T2MailboxSend of SET_OOL_IN or SET_OOL_OUT.
SetOolSent(which) ==
  /\ ~OutboxFull
  /\ outbox' = <<SetOol(which, OolBuf(which))>>
  /\ known' = known \cup {OolBuf(which)}
  /\ Goto(IF which = "in" THEN "inSend" ELSE "outSend",
          IF which = "in" THEN "inRecv" ELSE "outRecv")
  /\ skipped' = 0
  /\ UNCHANGED <<ctxVars, memVars, pciVars, lock, got, fault, pnpVars,
                 sepQ, inbox, sepIn, sepOut>>

\* The outbox stayed full, or the address does not fit the message.
SetOolNotSent(which) ==
  /\ ioPc = IF which = "in" THEN "inSend" ELSE "outSend"
  /\ RegisterFailed(mayKnow)
  /\ UNCHANGED <<barMapped, inReg, outReg, mayKnow, pinnedIn, pinnedOut, nextTxn,
                 refs, pciVars, skipped, got, fault, pnpVars, sepVars>>

\* One iteration of T2SepControl's loop: a reply with this control's tag, or
\* a message to skip.
SetOolReceives(which) ==
  /\ ioPc = IF which = "in" THEN "inRecv" ELSE "outRecv"
  /\ ~InboxEmpty
  /\ inbox' = Tail(inbox)
  /\ LET m == Head(inbox)
     IN CASE m.kind = which /\ m.ok /\ which = "in" ->
               /\ MarkExposed(which)
               /\ inReg' = TRUE
               /\ ioPc' = "outSend"
               /\ UNCHANGED <<state, outReg, inBuf, outBuf, live, freed, lock, skipped>>
          [] m.kind = which /\ m.ok /\ which = "out" ->
               /\ MarkExposed(which)
               /\ outReg' = TRUE
               /\ state' = "Ready"
               /\ Complete
               /\ UNCHANGED <<inReg, inBuf, outBuf, live, freed, skipped>>
          [] m.kind = which /\ ~m.ok ->
               /\ MarkExposed(which)
               /\ RegisterFailed(TRUE)
               /\ UNCHANGED <<inReg, outReg, skipped>>
          [] m.kind # which /\ skipped + 1 < MaxSkip ->
               /\ skipped' = skipped + 1
               /\ UNCHANGED <<state, inReg, outReg, mayKnow, inBuf, outBuf, pinnedIn,
                              pinnedOut, memVars, lock, ioPc>>
          [] OTHER ->
               /\ MarkExposed(which)
               /\ RegisterFailed(TRUE)
               /\ UNCHANGED <<inReg, outReg, skipped>>
  /\ UNCHANGED <<barMapped, nextTxn, pciVars, got, fault, pnpVars,
                 outbox, sepQ, sepIn, sepOut, known>>

\* T2MailboxReceive saw nothing for its time-out, or the deadline of the
\* whole transaction passed after some skipped message.
SetOolTimesOut(which) ==
  /\ ioPc = IF which = "in" THEN "inRecv" ELSE "outRecv"
  /\ InboxEmpty \/ skipped > 0
  /\ MarkExposed(which)
  /\ RegisterFailed(TRUE)
  /\ UNCHANGED <<barMapped, inReg, outReg, nextTxn, pciVars, skipped, got, fault,
                 pnpVars, sepVars>>

-----------------------------------------------------------------------------
(* IOCTL_T2_AKS_EXCHANGE.                                                  *)

\* The authoritative check under the lock fails.
AksDeclined ==
  /\ ioPc = "aksLock" /\ lock = "free" /\ state # "Ready"
  /\ Complete
  /\ UNCHANGED <<ctxVars, memVars, pciVars, skipped, got, fault, pnpVars, sepVars>>

\* T2AksExchange builds the request in OOL_IN and draws a transaction number.
AksStarts ==
  /\ lock = "free" /\ state = "Ready"
  /\ Goto("aksLock", "aksSend")
  /\ lock' = "io"
  /\ nextTxn' = Bump(nextTxn)
  /\ outbox' = Age(outbox) /\ sepQ' = Age(sepQ) /\ inbox' = Age(inbox)
  /\ UNCHANGED <<state, barMapped, inReg, outReg, mayKnow, inBuf, outBuf, pinnedIn,
                 pinnedOut, memVars, pciVars, skipped, got, fault, pnpVars,
                 sepIn, sepOut, known>>

AksSent ==
  /\ ~OutboxFull
  /\ Goto("aksSend", "aksRecv")
  /\ outbox' = <<Aks(nextTxn)>>
  /\ skipped' = 0
  /\ UNCHANGED <<ctxVars, memVars, pciVars, lock, got, fault, pnpVars,
                 sepQ, inbox, sepIn, sepOut, known>>

AksNotSent ==
  /\ ioPc = "aksSend" /\ OutboxFull
  /\ Complete
  /\ UNCHANGED <<ctxVars, memVars, pciVars, skipped, got, fault, pnpVars, sepVars>>

\* Mutant: a reply is matched on its endpoint and operation only.
AksReceivesAny ==
  /\ ioPc = "aksRecv" /\ ~InboxEmpty
  /\ inbox' = Tail(inbox)
  /\ IF Head(inbox).kind = "aks"
     THEN ioPc' = "aksReply" /\ got' = Head(inbox).age /\ UNCHANGED skipped
     ELSE skipped' = (skipped + 1) % MaxSkip /\ UNCHANGED <<ioPc, got>>
  /\ UNCHANGED <<ctxVars, memVars, pciVars, lock, fault, pnpVars,
                 outbox, sepQ, sepIn, sepOut, known>>

\* One iteration of T2SepAksTransaction's loop.  A reply matches on endpoint,
\* operation and transaction number; the operations in flight are taken to be
\* the same one, the case where the number alone must tell replies apart.
AksReceives ==
  /\ ioPc = "aksRecv" /\ ~InboxEmpty
  /\ inbox' = Tail(inbox)
  /\ LET m == Head(inbox)
     IN CASE m.kind = "aks" /\ m.txn = nextTxn ->
               ioPc' = "aksReply" /\ got' = m.age /\ UNCHANGED <<lock, skipped>>
          [] ~(m.kind = "aks" /\ m.txn = nextTxn) /\ skipped + 1 < MaxSkip ->
               skipped' = skipped + 1 /\ UNCHANGED <<ioPc, lock, got>>
          [] OTHER ->
               Complete /\ UNCHANGED <<skipped, got>>
  /\ UNCHANGED <<ctxVars, memVars, pciVars, fault, pnpVars,
                 outbox, sepQ, sepIn, sepOut, known>>

\* Mutant: T2MailboxReceive polls the inbox without a time-out.
AksTimesOutNever ==
  /\ ioPc = "aksRecv" /\ skipped > 0
  /\ Complete
  /\ UNCHANGED <<ctxVars, memVars, pciVars, skipped, got, fault, pnpVars, sepVars>>

AksTimesOut ==
  /\ ioPc = "aksRecv"
  /\ InboxEmpty \/ skipped > 0
  /\ Complete
  /\ UNCHANGED <<ctxVars, memVars, pciVars, skipped, got, fault, pnpVars, sepVars>>

\* The reply's SEP status, length, header and digest are checked and its body
\* copied out of OOL_OUT; whatever they are, the request completes.
AksCompletes ==
  /\ ioPc = "aksReply"
  /\ Complete
  /\ UNCHANGED <<ctxVars, memVars, pciVars, skipped, got, fault, pnpVars, sepVars>>

-----------------------------------------------------------------------------
(* PnP and power callbacks.  The framework runs one at a time.             *)

\* T2EvtDevicePrepareHardware maps BAR4, or fails closed when BAR4 cannot be
\* identified, is too small or cannot be mapped.
PrepareHardware ==
  /\ pnp \in {"added", "released"}
  /\ barMapped' = TRUE
  /\ pnp' = "mapped"
  /\ UNCHANGED <<state, inReg, outReg, mayKnow, inBuf, outBuf, pinnedIn, pinnedOut,
                 nextTxn, memVars, pciVars, lock, ioVars, contexts, wasReg, sepVars>>

PrepareHardwareFails ==
  /\ pnp \in {"added", "released"}
  /\ pnp' = "failed"
  /\ UNCHANGED <<ctxVars, memVars, pciVars, lock, ioVars, contexts, wasReg, sepVars>>

\* Mutant: a reused context that exposed buffers starts over.
PrepareHardwareForgets ==
  /\ pnp = "mapped" /\ lock = "free"
  /\ state' = "HardwareReady"
  /\ pnp' = "off"
  /\ UNCHANGED <<barMapped, inReg, outReg, mayKnow, inBuf, outBuf, pinnedIn, pinnedOut,
                 nextTxn, memVars, pciVars, lock, ioVars, contexts, wasReg, sepVars>>

PrepareHardwareSetsState ==
  /\ pnp = "mapped" /\ lock = "free"
  /\ state' = IF OolExposed THEN "Invalid" ELSE "HardwareReady"
  /\ pnp' = "off"
  /\ UNCHANGED <<barMapped, inReg, outReg, mayKnow, inBuf, outBuf, pinnedIn, pinnedOut,
                 nextTxn, memVars, pciVars, lock, ioVars, contexts, wasReg, sepVars>>

\* T2EvtDeviceD0Entry: a liveness read, bus mastering re-armed, and the state
\* resumed without registering again.
D0Entry ==
  /\ pnp = "off" /\ lock = "free"
  /\ pnp' = "D0"
  /\ \E armed \in BOOLEAN :
       /\ ~ResumeMayFail => armed /\ powered
       /\ IF ~barMapped \/ state = "Invalid"
          THEN UNCHANGED <<state, busMaster>>
          ELSE /\ busMaster' = (armed \/ busMaster)
               /\ state' = IF powered /\ armed /\ inReg /\ outReg
                           THEN "Ready" ELSE "HardwareReady"
  /\ UNCHANGED <<barMapped, inReg, outReg, mayKnow, inBuf, outBuf, pinnedIn, pinnedOut,
                 nextTxn, memVars, powered, lock, ioVars, contexts, wasReg, sepVars>>

\* Mutant: power-down does not take ExchangeLock.
D0ExitUnlocked ==
  /\ pnp = "D0" /\ pnp' = "off"
  /\ state' = IF state \in {"Ready", "RegisteringOol"} THEN "HardwareReady" ELSE state
  /\ UNCHANGED <<barMapped, inReg, outReg, mayKnow, inBuf, outBuf, pinnedIn, pinnedOut,
                 nextTxn, memVars, pciVars, lock, ioVars, contexts, wasReg, sepVars>>

\* T2EvtDeviceD0Exit waits for ExchangeLock.  A request that EvtIoStop has
\* acknowledged but that has not taken the lock yet does not delay it.
D0Exit ==
  /\ pnp = "D0" /\ lock = "free"
  /\ AckReleases \/ ioPc = "idle"
  /\ state' = IF state \in {"Ready", "RegisteringOol"} THEN "HardwareReady" ELSE state
  /\ pnp' = "off"
  /\ UNCHANGED <<barMapped, inReg, outReg, mayKnow, inBuf, outBuf, pinnedIn, pinnedOut,
                 nextTxn, memVars, pciVars, lock, ioVars, contexts, wasReg, sepVars>>

\* T2EvtDeviceReleaseHardware, first locked section.
ReleaseHardwareStops ==
  /\ pnp \in {"off", "failed"} /\ lock = "free"
  /\ state' = "Stopping"
  /\ pnp' = "stopping"
  /\ UNCHANGED <<barMapped, inReg, outReg, mayKnow, inBuf, outBuf, pinnedIn, pinnedOut,
                 nextTxn, memVars, pciVars, lock, ioVars, contexts, wasReg, sepVars>>

\* Between the two locked sections: buffers freed or retained, BAR4 unmapped.
ReleaseHardwareUnmaps ==
  /\ pnp = "stopping"
  /\ wasReg' = OolExposed
  /\ FreeOolBuffers(OolExposed)
  /\ barMapped' = FALSE
  /\ pnp' = "unmapped"
  /\ UNCHANGED <<state, inReg, outReg, mayKnow, pinnedIn, pinnedOut, nextTxn, refs,
                 pciVars, lock, ioVars, contexts, sepVars>>

ReleaseHardwareEnds ==
  /\ pnp = "unmapped" /\ lock = "free"
  /\ state' = IF wasReg THEN "Invalid" ELSE "NotInitialized"
  /\ pnp' = "released"
  /\ UNCHANGED <<barMapped, inReg, outReg, mayKnow, inBuf, outBuf, pinnedIn, pinnedOut,
                 nextTxn, memVars, pciVars, lock, ioVars, contexts, wasReg, sepVars>>

\* Device Manager's Disable, an uninstall, a removal: the framework deletes
\* the device and its children; only a buffer with an extra reference stays.
DeviceDeleted ==
  /\ pnp = "released" /\ ioPc = "idle" /\ contexts < MaxContexts
  /\ pnp' = "gone"
  /\ freed' = freed \cup (live \ refs)
  /\ live' = live \cap refs
  /\ UNCHANGED <<ctxVars, refs, pciVars, lock, ioVars, contexts, wasReg, sepVars>>

\* T2EvtDeviceAdd: a new, zeroed context.
DeviceAdd ==
  /\ pnp = "gone"
  /\ pnp' = "added" /\ contexts' = contexts + 1
  /\ state' = "NotInitialized" /\ barMapped' = FALSE
  /\ inReg' = FALSE /\ outReg' = FALSE /\ mayKnow' = FALSE
  /\ inBuf' = NoBuf /\ outBuf' = NoBuf
  /\ pinnedIn' = FALSE /\ pinnedOut' = FALSE
  /\ nextTxn' = 0 /\ wasReg' = FALSE
  /\ outbox' = Estrange(outbox) /\ sepQ' = Estrange(sepQ) /\ inbox' = Estrange(inbox)
  /\ UNCHANGED <<memVars, pciVars, lock, ioVars, sepIn, sepOut, known>>

\* The function loses power, and its command register, only outside D0.
PowerDown ==
  /\ pnp \in {"off", "released", "gone"} /\ powered
  /\ powered' = FALSE /\ busMaster' = FALSE
  /\ UNCHANGED <<ctxVars, memVars, lock, ioVars, pnpVars, sepVars>>

PowerUp ==
  /\ pnp \in {"off", "added"} /\ ~powered
  /\ powered' = TRUE
  /\ UNCHANGED <<ctxVars, memVars, busMaster, lock, ioVars, pnpVars, sepVars>>

-----------------------------------------------------------------------------
(* The SEP, as the driver sees it: it answers in order, late or never.     *)

SepTakes ==
  /\ outbox # <<>> /\ Len(sepQ) < MaxQueue
  /\ sepQ' = Append(sepQ, Head(outbox)) /\ outbox' = <<>>
  /\ UNCHANGED <<ctxVars, memVars, pciVars, lock, ioVars, pnpVars, inbox, sepIn, sepOut, known>>

SepReplies ==
  /\ sepQ # <<>> /\ Len(inbox) < MaxQueue
  /\ \E ok \in BOOLEAN :
       LET m == Head(sepQ)
       IN /\ inbox' = Append(inbox, [m EXCEPT !.ok = ok])
          /\ sepIn' = IF ok /\ m.kind = "in" THEN m.buf ELSE sepIn
          /\ sepOut' = IF ok /\ m.kind = "out" THEN m.buf ELSE sepOut
  /\ sepQ' = Tail(sepQ)
  /\ UNCHANGED <<ctxVars, memVars, pciVars, lock, ioVars, pnpVars, outbox, known>>

\* A message of another endpoint.
SepInterjects ==
  /\ Len(inbox) < MaxQueue
  /\ inbox' = Append(inbox, NoMsg)
  /\ UNCHANGED <<ctxVars, memVars, pciVars, lock, ioVars, pnpVars,
                 outbox, sepQ, sepIn, sepOut, known>>

-----------------------------------------------------------------------------
Arrive == AksArrives \/ RegisterArrives \/ GetStatusArrives

IoStep ==
  \/ GetStatusLocks \/ GetStatusReads
  \/ RegisterDeclined \/ RegisterStarts \/ RegisterNotStarted
  \/ \E which \in {"in", "out"} :
       \/ SetOolSent(which) \/ SetOolNotSent(which)
       \/ SetOolReceives(which) \/ SetOolTimesOut(which)
  \/ AksDeclined \/ AksStarts \/ AksSent \/ AksNotSent
  \/ AksReceives \/ AksTimesOut \/ AksCompletes

ReleaseStep == ReleaseHardwareUnmaps \/ ReleaseHardwareEnds

PnpStep ==
  \/ PrepareHardware \/ PrepareHardwareFails \/ PrepareHardwareSetsState
  \/ D0Entry \/ D0Exit \/ ReleaseHardwareStops \/ ReleaseStep
  \/ DeviceDeleted \/ DeviceAdd

SepStep == SepTakes \/ SepReplies \/ SepInterjects

Next == Arrive \/ IoStep \/ PnpStep \/ PowerDown \/ PowerUp \/ SepStep

Spec == Init /\ [][Next]_vars

\* The dispatch thread and a removal in progress are scheduled; nothing is
\* assumed of the SEP.
FairSpec == Spec /\ WF_vars(IoStep) /\ WF_vars(ReleaseStep)

-----------------------------------------------------------------------------
(* Properties. *)

Exchanging  == {"aksSend", "aksRecv", "aksReply"}
Registering == {"inSend", "inRecv", "outSend", "outRecv"}
InLock      == Exchanging \cup Registering \cup {"statusRead"}
IoPcs       == InLock \cup {"idle", "aksLock", "regLock", "statusLock"}
PnpPhases   == {"added", "mapped", "failed", "off", "D0", "stopping", "unmapped",
                "released", "gone"}

\* The type of every variable.
TypeOK ==
  /\ state \in States /\ barMapped \in BOOLEAN
  /\ inReg \in BOOLEAN /\ outReg \in BOOLEAN /\ mayKnow \in BOOLEAN
  /\ inBuf \in Bufs \cup {NoBuf} /\ outBuf \in Bufs \cup {NoBuf}
  /\ pinnedIn \in BOOLEAN /\ pinnedOut \in BOOLEAN
  /\ nextTxn \in 0 .. TxnMod - 1
  /\ live \subseteq Bufs /\ freed \subseteq Bufs /\ refs \subseteq Bufs \cup {NoBuf}
  /\ powered \in BOOLEAN /\ busMaster \in BOOLEAN
  /\ lock \in {"free", "io"} /\ ioPc \in IoPcs
  /\ skipped \in 0 .. MaxSkip /\ got \in 0 .. ForeignAge /\ fault \in BOOLEAN
  /\ pnp \in PnpPhases /\ contexts \in Nat /\ wasReg \in BOOLEAN
  /\ outbox \in Seq(Messages) /\ sepQ \in Seq(Messages) /\ inbox \in Seq(Messages)
  /\ sepIn \in Bufs \cup {NoBuf} /\ sepOut \in Bufs \cup {NoBuf}
  /\ known \subseteq Bufs \cup {NoBuf}

\* An exchange or a registration in progress holds ExchangeLock, has BAR4
\* mapped and finds the state it started from, whatever power or PnP callback
\* runs beside it (device.c: D0Exit and ReleaseHardware serialise on the lock).
LockedExchange ==
  /\ lock = (IF ioPc \in InLock THEN "io" ELSE "free")
  /\ ioPc \in Exchanging \cup Registering => barMapped
  /\ ioPc \in Exchanging => state = "Ready"
  /\ ioPc \in Registering => state = "RegisteringOol"

\* Once no exchange is running, a buffer of the context whose address went
\* into the mailbox is remembered as exposed and kept alive by a reference
\* (dma.c T2DmaRegisterOolBuffers, every path out of T2SepControl).
ExposureRecorded ==
  /\ inReg \/ outReg => mayKnow
  /\ lock = "free" =>
       /\ inBuf \in known => mayKnow
       /\ outBuf \in known => mayKnow

\* The driver's own code never deletes a buffer whose address the SEP has seen;
\* only the framework's deletion of the device can (dma.c T2DmaFreeOolBuffers).
DriverFreesOnlyUnknown ==
  [][pnp' # "gone" => (freed' \ freed) \cap known = {}]_vars

\* No step of a context leads back from Invalid, or from the Stopping of a
\* context that exposed an address, to a usable transport (driver.h, the
\* lifecycle comment: only a reboot clears the SEP's state).
NoResurrection ==
  [][state = "Invalid" \/ (state = "Stopping" /\ OolExposed)
       => pnp = "gone" \/ state' \in {"Invalid", "Stopping"}]_vars

\* A reply handed to a caller answers the caller's own request, never an earlier
\* one of this context that timed out, unless the 8-bit number has come round since
\* (NextTransaction is bumped even for a request that is never sent, akstore.c).
OwnReply == ioPc = "aksReply" => got \in {0, WrapAge, ForeignAge}

\* Every request that takes the queue completes, and every removal ends, although both want
\* ExchangeLock and the SEP may be silent or babble (mailbox.c 274-300).
EverythingEnds ==
  /\ ioPc # "idle" ~> ioPc = "idle"
  /\ pnp = "stopping" ~> pnp = "released"

\* Host memory the SEP was told of outlives everything (dma.c 120-129: "Keeps
\* SEP-visible DMA memory alive for the rest of the boot").
SepKnownNeverFreed == known \cap freed = {}

\* Ready means that the SEP acts on the very buffers the driver writes to.
ReadyMeansConfirmed == state = "Ready" => sepIn = inBuf /\ sepOut = outBuf

\* The first device context of a boot keeps that promise: no earlier context has
\* left a reply behind that would confirm its registration (mailbox.c 274-278).
FirstReadyMeansConfirmed == contexts = 1 => ReadyMeansConfirmed

\* The transport is never Ready while the device is outside D0 (driver.h: D0Exit
\* moves Ready to HardwareReady, "not Ready again until D0Entry revalidates").
ReadyOnlyInD0 == state = "Ready" => pnp = "D0"

\* BAR4 is never read through the mapping that ReleaseHardware removed.  Not a property
\* of a passing run: it rests on how WDF treats an acknowledged request (device.c 485).
StatusReadsMapped == ~fault

\* A context that may have exposed buffers keeps those buffers: it never allocates
\* another pair (device.c 612-614: "T2DmaAllocateOolBuffers is idempotent").  False of
\* the code after a resume that failed: TransportRealloc.cfg.
NoSecondAllocation ==
  [][mayKnow /\ mayKnow' => inBuf' = inBuf /\ outBuf' = outBuf]_vars
=============================================================================
