--------------------------- MODULE USBHostUPS_proofs ---------------------------
(****************************************************************************)
(* The poll task keeps its types and serves live data, proved for every     *)
(* value of the time limits, of the attempts and of the faults.             *)
(****************************************************************************)
EXTENDS USBHostUPS, TLAPS

------------------------------------------------------------------------------
(* The parts of the recovery: every operation of a class keeps its type.    *)

LEMMA LinkSteps ==
    ASSUME LinkTypeOK,
           \/ LinkReset
           \/ LinkFailure
           \/ LinkRecovering /\ linkRecoveries < MaxLinkRecoveries
           \/ LinkElapse
           \/ UNCHANGED linkVars
    PROVE  LinkTypeOK'
<1> USE LinkMonitorAssumption DEF LinkTypeOK
<1>1. CASE LinkReset
  BY <1>1 DEF LinkReset
<1>2. CASE LinkFailure
  <2>1. backoff' \in 0..BackoffMax
    BY <1>2 DEF LinkFailure, LinkFailing
  <2>2. firstFailureAge' \in 0..StuckRestart
    BY <1>2 DEF LinkFailure
  <2>3. QED
    BY <1>2, <2>1, <2>2 DEF LinkFailure
<1>3. CASE LinkRecovering /\ linkRecoveries < MaxLinkRecoveries
  BY <1>3 DEF LinkRecovering
<1>4. CASE LinkElapse
  BY <1>4 DEF LinkElapse, Older, Sooner
<1>5. CASE UNCHANGED linkVars
  BY <1>5 DEF linkVars
<1>6. QED
  BY <1>1, <1>2, <1>3, <1>4, <1>5

LEMMA DescSteps ==
    ASSUME DescTypeOK,
           DescClear \/ DescFailure \/ DescElapse \/ UNCHANGED descVars
    PROVE  DescTypeOK'
<1> USE DescriptorRetryAssumption DEF DescTypeOK
<1>1. CASE DescClear
  <2>1. descPending' \in BOOLEAN
    BY <1>1 DEF DescClear
  <2>2. QED
    BY <1>1, <2>1 DEF DescClear
<1>2. CASE DescFailure /\ ~LastDescAttempt
  <2>1. descPending' \in BOOLEAN
    BY <1>2 DEF DescFailure
  <2>2. QED
    BY <1>2, <2>1 DEF DescFailure, LastDescAttempt
<1>3. CASE DescElapse
  BY <1>3 DEF DescElapse, Sooner
<1>4. CASE UNCHANGED descVars
  BY <1>4 DEF descVars
<1>5. QED
  BY <1>1, <1>2, <1>3, <1>4 DEF DescFailure

LEMMA EnumDueNat == EnumDueAt(MaxPortCycles) \in Nat
BY EnumWatchdogAssumption DEF EnumDueAt

LEMMA EnumSteps ==
    ASSUME EnumTypeOK,
           \/ \E enumerated \in BOOLEAN : EnumTicked(enumerated)
           \/ EnumElapse
           \/ UNCHANGED enumVars
    PROVE  EnumTypeOK'
<1> USE EnumWatchdogAssumption, EnumDueNat DEF EnumTypeOK
<1>1. ASSUME NEW enumerated \in BOOLEAN, EnumTicked(enumerated)
      PROVE  EnumTypeOK'
  <2>1. EnumTick(enumerated) = "CYCLE_PORT" => enumCycles < MaxPortCycles
    BY DEF EnumTick
  <2>2. enumCycles' \in 0..MaxPortCycles
    BY <1>1, <2>1 DEF EnumTicked
  <2>3. enumArmed' \in BOOLEAN /\ enumRestartAsked' \in BOOLEAN
    BY <1>1 DEF EnumTicked
  <2>4. QED
    BY <1>1, <2>2, <2>3 DEF EnumTicked
<1>2. CASE EnumElapse
  BY <1>2 DEF EnumElapse, Older
<1>3. CASE UNCHANGED enumVars
  BY <1>3 DEF enumVars
<1>4. QED
  BY <1>1, <1>2, <1>3

LEMMA CycleSteps ==
    ASSUME CycleTypeOK,
           \/ CycleStarted
           \/ CycleProven
           \/ CycleTimeoutReported
           \/ CycleElapse
           \/ UNCHANGED cycleVars
    PROVE  CycleTypeOK'
<1> USE PortCyclePolicyAssumption DEF CycleTypeOK
<1>1. CASE CycleStarted
  <2>1. waiting' \in BOOLEAN /\ timeoutReported' \in BOOLEAN
    BY <1>1 DEF CycleStarted
  <2>2. QED
    BY <1>1, <2>1 DEF CycleStarted
<1>2. CASE CycleProven
  BY <1>2 DEF CycleProven
<1>3. CASE CycleTimeoutReported
  BY <1>3 DEF CycleTimeoutReported
<1>4. CASE CycleElapse
  BY <1>4 DEF CycleElapse, Older
<1>5. CASE UNCHANGED cycleVars
  BY <1>5 DEF cycleVars
<1>6. QED
  BY <1>1, <1>2, <1>3, <1>4, <1>5

------------------------------------------------------------------------------
(* The types of the whole, and what bounds the queue and the attempts.      *)

UsbBounds ==
    /\ UsbTypeOK
    /\ port = "open" => Len(events) <= EventBound
    /\ inPending => inAttempts < MaxInStartAttempts
    /\ inRecoveries > MaxInRecoveries => restartRequested

\* What an action that leaves the queue and the task alone keeps.
LEMMA DeviceInv ==
    ASSUME UsbBounds, DeviceNext
    PROVE  UsbBounds'
<1> USE USBHostUPSAssumption
<1>1. LinkTypeOK' /\ DescTypeOK' /\ EnumTypeOK' /\ CycleTypeOK'
  <2>1. /\ UNCHANGED linkVars /\ UNCHANGED descVars
        /\ UNCHANGED enumVars /\ UNCHANGED cycleVars
    BY DEF DeviceNext, Unplug, Plug, Enumerate, EnumerationCancelled, TransferError, ChangeMode
  <2>2. LinkTypeOK' /\ DescTypeOK'
    BY <2>1, LinkSteps, DescSteps DEF UsbBounds, UsbTypeOK
  <2>3. EnumTypeOK' /\ CycleTypeOK'
    BY <2>1, EnumSteps, CycleSteps DEF UsbBounds, UsbTypeOK
  <2>4. QED
    BY <2>2, <2>3
<1>2. FlagsTypeOK'
  <2>1. UNCHANGED taskVars
    BY DEF DeviceNext, Unplug, Plug, Enumerate, EnumerationCancelled, TransferError, ChangeMode
  <2>2. plugged' \in BOOLEAN /\ urbStuck' \in BOOLEAN /\ inActive' \in BOOLEAN
    <3>1. CASE Unplug
      BY <3>1 DEF Unplug, DeviceGone
    <3>2. CASE ~Unplug
      BY <3>2 DEF DeviceNext, Plug, Enumerate, EnumerationCancelled, TransferError, ChangeMode,
                  UsbBounds, UsbTypeOK, FlagsTypeOK, deviceVars, stackVars
    <3>3. QED
      BY <3>1, <3>2
  <2>3. QED
    BY <2>1, <2>2
    DEF taskVars, serveVars, inVars, requestVars, UsbBounds, UsbTypeOK, FlagsTypeOK
<1>3. /\ mode' \in {"ok", "err", "mute"}
      /\ port' \in {"detached", "open", "closed", "dead", "off"}
  BY DEF DeviceNext, Unplug, Plug, Enumerate, EnumerationCancelled, TransferError, ChangeMode,
         DeviceGone, UsbBounds, UsbTypeOK, deviceVars, stackVars
<1>4. /\ events' \in Seq(Events) /\ Len(events') <= EventBound + 1
      /\ port' = "open" => Len(events') <= EventBound
  BY DEF DeviceNext, Unplug, Plug, Enumerate, EnumerationCancelled, TransferError, ChangeMode,
         DeviceGone, Room, UsbBounds, UsbTypeOK, Events, stackVars
<1>5. QED
  BY <1>1, <1>2, <1>3, <1>4
  DEF DeviceNext, Unplug, Plug, Enumerate, EnumerationCancelled, TransferError, ChangeMode,
      UsbBounds, UsbTypeOK, taskVars, serveVars, inVars, requestVars

\* The recovery classes change only through their operations.
LEMMA PollTaskClasses ==
    ASSUME UsbBounds, PollTaskNext
    PROVE  LinkTypeOK' /\ DescTypeOK' /\ EnumTypeOK' /\ CycleTypeOK'
<1>1. LinkReset \/ LinkFailure \/ UNCHANGED linkVars
        \/ (LinkRecovering /\ linkRecoveries < MaxLinkRecoveries)
  <2>1. Request => LinkReset \/ LinkFailure
    BY DEF Request, LinkAlive
  <2>2. ClaimInterface => LinkReset \/ UNCHANGED linkVars
    BY DEF ClaimInterface, ClaimFails, ClaimSucceeds
  <2>3. LinkRecover => linkRecoveries < MaxLinkRecoveries
    BY LinkMonitorAssumption DEF LinkRecover, LinkTick, UsbBounds, UsbTypeOK, LinkTypeOK
  <2>4. CASE HandleConnected \/ RetryDescriptor
    BY <2>2, <2>4 DEF HandleConnected, RetryDescriptor
  <2>5. CASE HandleTransferError \/ Poll
    BY <2>1, <2>5 DEF HandleTransferError, Poll
  <2>6. CASE LinkRecover \/ RecoverStuckTransfer
    BY <2>3, <2>6 DEF LinkRecover, RecoverStuckTransfer
  <2>7. CASE HandleOpenFailed \/ HandleDisconnected \/ EventsDone \/ ServiceEnumWatchdog
    BY <2>7 DEF HandleOpenFailed, HandleDisconnected, EventsDone, ServiceEnumWatchdog
  <2>8. CASE RetryInterfaceStart \/ PortCycleOver \/ PortCycleNotBack \/ ServiceIdle \/ LinkExhausted
    BY <2>8 DEF RetryInterfaceStart, PortCycleOver, PortCycleNotBack, ServiceIdle, LinkExhausted
  <2>9. QED
    BY <2>4, <2>5, <2>6, <2>7, <2>8 DEF PollTaskNext
<1>2. DescClear \/ DescFailure \/ UNCHANGED descVars
  BY DEF PollTaskNext, HandleConnected, HandleOpenFailed, HandleDisconnected,
      HandleTransferError, EventsDone, RetryDescriptor, ServiceEnumWatchdog,
      RetryInterfaceStart, PortCycleOver, PortCycleNotBack, ServiceIdle, LinkRecover,
      LinkExhausted, RecoverStuckTransfer, Poll, ClaimInterface, ClaimFails, ClaimSucceeds
<1>3. (\E enumerated \in BOOLEAN : EnumTicked(enumerated)) \/ UNCHANGED enumVars
  BY DEF Enumerated, PollTaskNext, HandleConnected, HandleOpenFailed, HandleDisconnected,
      HandleTransferError, EventsDone, RetryDescriptor, ServiceEnumWatchdog,
      RetryInterfaceStart, PortCycleOver, PortCycleNotBack, ServiceIdle, LinkRecover,
      LinkExhausted, RecoverStuckTransfer, Poll, UsbBounds, UsbTypeOK, FlagsTypeOK
<1>4. CycleStarted \/ CycleProven \/ CycleTimeoutReported \/ UNCHANGED cycleVars
  BY DEF PollTaskNext, HandleConnected, HandleOpenFailed, HandleDisconnected,
      HandleTransferError, EventsDone, RetryDescriptor, ServiceEnumWatchdog,
      RetryInterfaceStart, PortCycleOver, PortCycleNotBack, ServiceIdle, LinkRecover,
      LinkExhausted, RecoverStuckTransfer, Poll
<1>5. QED
  BY <1>1, <1>2, <1>3, <1>4, LinkSteps, DescSteps, EnumSteps, CycleSteps
  DEF UsbBounds, UsbTypeOK

(* What the parts of service() set keeps its type. *)

\* The variables of an interface, and what goes with them.
PartsTypeOK ==
    /\ urbStuck \in BOOLEAN /\ inActive \in BOOLEAN /\ claimed \in BOOLEAN
    /\ ready \in BOOLEAN /\ firstData \in BOOLEAN /\ getOk \in BOOLEAN
    /\ inPending \in BOOLEAN /\ restartRequested \in BOOLEAN

NumbersTypeOK ==
    /\ port \in {"detached", "open", "closed", "dead", "off"}
    /\ claimAge \in 0..FirstDataMax
    /\ inAttempts \in 0..MaxInStartAttempts
    /\ inRecoveries \in 0..(MaxInRecoveries + 1)
    /\ restartReason \in Reasons
    /\ silentAge \in 0..LadderLength
    /\ inPending => inAttempts < MaxInStartAttempts
    /\ inRecoveries > MaxInRecoveries => restartRequested

LEMMA LadderNat == LadderLength \in Nat /\ StaleAfter <= LadderLength
<1>1. MaxLinkRecoveries * LinkTimeout \in Nat
  BY LinkMonitorAssumption
<1>2. LadderLength = MaxLinkRecoveries * LinkTimeout + LinkTimeout
  BY LinkMonitorAssumption DEF LadderLength
<1>3. QED
  BY <1>1, <1>2, LinkMonitorAssumption

LEMMA RequestType ==
    ASSUME UsbBounds, Request
    PROVE  urbStuck' \in BOOLEAN /\ silentAge' \in 0..LadderLength
<1>1. urbStuck' \in BOOLEAN
  BY DEF Request, Reachable, UsbBounds, UsbTypeOK, FlagsTypeOK
<1>2. silentAge' = 0 \/ silentAge' = silentAge
  BY DEF Request
<1>3. QED
  BY <1>1, <1>2, LadderNat DEF UsbBounds, UsbTypeOK

LEMMA RequestRestartType ==
    ASSUME UsbBounds, NEW why \in Reasons, RequestRestart(why)
    PROVE  /\ restartRequested' = TRUE /\ restartRequested' \in BOOLEAN
           /\ restartReason' \in Reasons
BY DEF RequestRestart, requestVars, UsbBounds, UsbTypeOK, FlagsTypeOK

LEMMA ClaimType ==
    ASSUME UsbBounds, ClaimInterface
    PROVE  PartsTypeOK' /\ NumbersTypeOK' /\ (port' = "open" => port = "open")
<1> USE USBHostUPSAssumption
<1>1. CASE ClaimFails
  <2>1. urbStuck' \in BOOLEAN /\ inActive' \in BOOLEAN
    BY <1>1 DEF ClaimFails, Reachable, UsbBounds, UsbTypeOK, FlagsTypeOK
  <2>2. /\ restartRequested' \in BOOLEAN /\ restartReason' \in Reasons
        /\ restartRequested => restartRequested'
    <3>1. UNCHANGED requestVars \/ RequestRestart("descriptor")
      BY <1>1 DEF ClaimFails
    <3>2. "descriptor" \in Reasons
      BY DEF Reasons
    <3>3. QED
      BY <3>1, <3>2, RequestRestartType
      DEF requestVars, UsbBounds, UsbTypeOK, FlagsTypeOK
  <2>3. /\ UNCHANGED <<claimed, serveVars, inVars, silentAge>>
        /\ port' = port \/ port' = "closed"
    BY <1>1 DEF ClaimFails
  <2>4. PartsTypeOK'
    BY <2>1, <2>2, <2>3 DEF PartsTypeOK, serveVars, inVars, UsbBounds, UsbTypeOK, FlagsTypeOK
  <2>5. NumbersTypeOK'
    BY <2>2, <2>3 DEF NumbersTypeOK, serveVars, inVars, UsbBounds, UsbTypeOK
  <2>6. QED
    BY <2>3, <2>4, <2>5
<1>2. CASE ClaimSucceeds
  <2>1. /\ claimed' \in BOOLEAN /\ ready' \in BOOLEAN /\ firstData' \in BOOLEAN
        /\ getOk' \in BOOLEAN /\ restartRequested' \in BOOLEAN
    BY <1>2 DEF ClaimSucceeds
  <2>2. urbStuck' \in BOOLEAN /\ inActive' \in BOOLEAN /\ inPending' \in BOOLEAN
    BY <1>2 DEF ClaimSucceeds, StartSucceeds, StartFails, UsbBounds, UsbTypeOK, FlagsTypeOK
  <2>3. /\ inAttempts' \in 0..MaxInStartAttempts
        /\ inPending' => inAttempts' < MaxInStartAttempts
    <3>1. (~inPending' /\ inAttempts' = inAttempts) \/ inAttempts' = 0
      BY <1>2 DEF ClaimSucceeds
    <3>2. QED
      BY <3>1 DEF UsbBounds, UsbTypeOK
  <2>4. restartReason' \in Reasons
    BY <1>2 DEF ClaimSucceeds, Reasons
  <2>5. NumbersTypeOK'
    <3>1. /\ claimAge' = 0 /\ inRecoveries' = 0 /\ silentAge' = 0 /\ port' = port
      BY <1>2 DEF ClaimSucceeds
    <3>2. /\ claimAge' \in 0..FirstDataMax /\ silentAge' \in 0..LadderLength
          /\ inRecoveries' \in 0..(MaxInRecoveries + 1) /\ ~(inRecoveries' > MaxInRecoveries)
      BY <3>1, LadderNat
    <3>3. QED
      BY <3>1, <3>2, <2>3, <2>4 DEF NumbersTypeOK, UsbBounds, UsbTypeOK
  <2>6. QED
    BY <1>2, <2>1, <2>2, <2>5 DEF PartsTypeOK, ClaimSucceeds
<1>3. QED
  BY <1>1, <1>2 DEF ClaimInterface

LEMMA CycleRootPortType ==
    ASSUME UsbBounds, CycleRootPort
    PROVE  /\ port' \in {"detached", "open", "closed", "dead", "off"}
           /\ urbStuck' \in BOOLEAN /\ inActive' \in BOOLEAN
           /\ events' \in Seq(Events) /\ Len(events') <= EventBound + 1
           /\ port' = "open" => Len(events') <= EventBound
<1> USE USBHostUPSAssumption
<1>1. ASSUME NEW p \in {"detached", "off"}, DeviceGone(p)
      PROVE  /\ port' = p
             /\ urbStuck' \in BOOLEAN /\ inActive' \in BOOLEAN
             /\ events' \in Seq(Events) /\ Len(events') <= EventBound + 1
  <2>1. urbStuck' \in BOOLEAN /\ inActive' \in BOOLEAN /\ port' = p
    BY <1>1 DEF DeviceGone
  <2>2. events' \in Seq(Events) /\ Len(events') <= EventBound + 1
    BY <1>1 DEF DeviceGone, UsbBounds, UsbTypeOK, Events
  <2>3. QED
    BY <2>1, <2>2
<1>2. CASE UNCHANGED <<stackVars, events>>
  BY <1>2 DEF stackVars, UsbBounds, UsbTypeOK, FlagsTypeOK
<1>3. QED
  BY <1>1, <1>2 DEF CycleRootPort

\* The few variables service() sets outside the parts above.
FrameTypeOK ==
    /\ plugged \in BOOLEAN /\ pollDue \in BOOLEAN /\ enumSeen \in BOOLEAN
    /\ mode \in {"ok", "err", "mute"}
    /\ pollPc \in {"events", "desc", "enum", "main"}

QueueTypeOK ==
    /\ events \in Seq(Events) /\ Len(events) <= EventBound + 1
    /\ port = "open" => Len(events) <= EventBound

InvParts ==
    /\ LinkTypeOK /\ DescTypeOK /\ EnumTypeOK /\ CycleTypeOK
    /\ PartsTypeOK /\ NumbersTypeOK /\ FrameTypeOK /\ QueueTypeOK

\* UsbBounds is the conjunction of its parts, before a step and after it.
LEMMA PartsMakeInv ==
    /\ UsbBounds <=> InvParts
    /\ UsbBounds' <=> InvParts'
BY DEF UsbBounds, UsbTypeOK, FlagsTypeOK, InvParts, PartsTypeOK, NumbersTypeOK, FrameTypeOK,
       QueueTypeOK

LEMMA PollTaskFrame ==
    ASSUME UsbBounds, PollTaskNext
    PROVE  FrameTypeOK'
<1>1. UNCHANGED deviceVars /\ (enumSeen' = TRUE \/ enumSeen' = enumSeen)
  BY DEF PollTaskNext, HandleConnected, HandleOpenFailed, HandleDisconnected,
      HandleTransferError, EventsDone, RetryDescriptor, ServiceEnumWatchdog,
      RetryInterfaceStart, PortCycleOver, PortCycleNotBack, ServiceIdle, LinkRecover,
      LinkExhausted, RecoverStuckTransfer, Poll, taskVars
<1>2. pollDue' = TRUE \/ pollDue' = FALSE \/ pollDue' = pollDue
  BY DEF PollTaskNext, HandleConnected, HandleOpenFailed, HandleDisconnected,
      HandleTransferError, NextEvent, EventsDone, RetryDescriptor, ServiceEnumWatchdog,
      RetryInterfaceStart, PortCycleOver, PortCycleNotBack, ServiceIdle, LinkRecover,
      LinkExhausted, RecoverStuckTransfer, Poll, ServiceEnds, taskVars
<1>3. pollPc' \in {"events", "desc", "enum", "main"}
  BY DEF PollTaskNext, HandleConnected, HandleOpenFailed, HandleDisconnected,
      HandleTransferError, NextEvent, EventsDone, RetryDescriptor, AfterDesc,
      ServiceEnumWatchdog, RetryInterfaceStart, PortCycleOver, PortCycleNotBack,
      ServiceIdle, LinkRecover, LinkExhausted, RecoverStuckTransfer, Poll, ServiceEnds, taskVars
<1>4. QED
  BY <1>1, <1>2, <1>3 DEF deviceVars, FrameTypeOK, UsbBounds, UsbTypeOK, FlagsTypeOK

\* The queue only shrinks, but for the DISCONNECTED of a device cut off.
LEMMA PollTaskEvents ==
    ASSUME UsbBounds, PollTaskNext
    PROVE  /\ events' \in Seq(Events) /\ Len(events') <= EventBound + 1
           /\ port' = "open" => Len(events') <= EventBound
<1>1. ASSUME NEW type \in Events, NextEvent(type), port' = "open" => port = "open"
      PROVE  /\ events' \in Seq(Events) /\ Len(events') <= EventBound + 1
             /\ port' = "open" => Len(events') <= EventBound
  <2>1. /\ events \in Seq(Events) /\ events # <<>> /\ events' = Tail(events)
        /\ Len(events) <= EventBound + 1
        /\ port = "open" => Len(events) <= EventBound
    BY <1>1 DEF NextEvent, UsbBounds, UsbTypeOK
  <2>2. events' \in Seq(Events) /\ Len(events') = Len(events) - 1 /\ Len(events) \in Nat
    BY <2>1
  <2>3. QED
    BY <2>1, <2>2, <1>1, USBHostUPSAssumption
<1>2. CASE HandleConnected
  BY <1>1, <1>2, ClaimType DEF HandleConnected, Events
<1>3. CASE HandleOpenFailed \/ HandleDisconnected \/ HandleTransferError
  <2>1. PICK type \in {"OPEN_FAILED", "DISCONNECTED", "TRANSFER_ERROR"} : NextEvent(type)
    BY <1>3 DEF HandleOpenFailed, HandleDisconnected, HandleTransferError
  <2>2. port' = port
    BY <1>3 DEF HandleOpenFailed, HandleDisconnected, HandleTransferError, stackVars
  <2>3. type \in Events
    BY <2>1 DEF Events
  <2>4. QED
    BY <1>1, <2>1, <2>2, <2>3
<1>4. CASE ServiceEnumWatchdog \/ RecoverStuckTransfer
  <2>1. CycleRootPort \/ UNCHANGED <<stackVars, events>>
    BY <1>4 DEF ServiceEnumWatchdog, RecoverStuckTransfer
  <2>2. CASE CycleRootPort
    <3>1. /\ events' \in Seq(Events) /\ Len(events') <= EventBound + 1
          /\ port' = "open" => Len(events') <= EventBound
      BY <2>2, CycleRootPortType
    <3>2. QED
      BY <3>1
  <2>3. CASE UNCHANGED <<stackVars, events>>
    BY <2>3 DEF stackVars, UsbBounds, UsbTypeOK
  <2>4. QED
    BY <2>1, <2>2, <2>3
<1>5. CASE RetryDescriptor
  BY <1>5, ClaimType DEF RetryDescriptor, UsbBounds, UsbTypeOK
<1>6. CASE EventsDone \/ RetryInterfaceStart \/ PortCycleOver \/ PortCycleNotBack
             \/ ServiceIdle \/ LinkRecover \/ LinkExhausted \/ Poll
  <2>1. events' = events /\ port' = port
    BY <1>6 DEF EventsDone, RetryInterfaceStart, PortCycleOver, PortCycleNotBack,
                ServiceIdle, LinkRecover, LinkExhausted, Poll, stackVars
  <2>2. QED
    BY <2>1 DEF UsbBounds, UsbTypeOK
<1>7. QED
  BY <1>2, <1>3, <1>4, <1>5, <1>6 DEF PollTaskNext

\* The interface and the recovery of its interrupt pipe, action by action.
LEMMA PollTaskParts ==
    ASSUME UsbBounds, PollTaskNext
    PROVE  PartsTypeOK' /\ NumbersTypeOK'
<1> USE USBHostUPSAssumption
<1>0. PartsTypeOK /\ NumbersTypeOK
  BY PartsMakeInv DEF InvParts
<1>1. CASE HandleConnected \/ RetryDescriptor
  BY <1>1, ClaimType DEF HandleConnected, RetryDescriptor
<1>2. CASE HandleOpenFailed \/ EventsDone \/ PortCycleOver \/ ServiceIdle
  <2>1. UNCHANGED <<stackVars, claimed, serveVars, inVars, requestVars, silentAge>>
    BY <1>2 DEF HandleOpenFailed, EventsDone, PortCycleOver, ServiceIdle, taskVars
  <2>2. QED
    BY <2>1, <1>0
    DEF PartsTypeOK, NumbersTypeOK, stackVars, serveVars, inVars, requestVars
<1>3. CASE HandleDisconnected
  <2>1. claimed' \in BOOLEAN /\ ready' \in BOOLEAN
    BY <1>3, <1>0 DEF HandleDisconnected, PartsTypeOK
  <2>2. inPending' = FALSE \/ inPending' = inPending
    BY <1>3 DEF HandleDisconnected
  <2>3. inPending' \in BOOLEAN /\ (inPending' => inPending)
    <3>1. inPending \in BOOLEAN
      BY <1>0 DEF PartsTypeOK
    <3>2. CASE inPending' = FALSE
      BY <3>2
    <3>3. CASE inPending' = inPending
      BY <3>1, <3>3
    <3>4. QED
      BY <2>2, <3>2, <3>3
  <2>4. UNCHANGED <<stackVars, firstData, claimAge, getOk, inAttempts,
                    inRecoveries, requestVars, silentAge>>
    BY <1>3 DEF HandleDisconnected
  <2>5. PartsTypeOK'
    BY <2>1, <2>3, <2>4, <1>0 DEF PartsTypeOK, stackVars, requestVars
  <2>6. NumbersTypeOK'
    BY <2>3, <2>4, <1>0 DEF NumbersTypeOK, stackVars, requestVars
  <2>7. QED
    BY <2>5, <2>6
<1>4. CASE HandleTransferError
  <2>1. CASE UNCHANGED <<inActive, inVars, requestVars, urbStuck, silentAge, linkVars>>
    BY <1>4, <2>1, <1>0
    DEF HandleTransferError, PartsTypeOK, NumbersTypeOK, serveVars, inVars, requestVars
  <2>2. CASE /\ inRecoveries' = inRecoveries + 1 /\ inRecoveries' > MaxInRecoveries
             /\ ~restartRequested /\ RequestRestart("in_errors")
             /\ UNCHANGED <<inActive, inPending, inAttempts, urbStuck, silentAge, linkVars>>
    <3>1. /\ restartRequested' = TRUE /\ restartRequested' \in BOOLEAN
          /\ restartReason' \in Reasons
      BY <2>2, RequestRestartType DEF Reasons
    <3>2. inRecoveries' \in 0..(MaxInRecoveries + 1)
      BY <2>2, <1>0 DEF NumbersTypeOK
    <3>3. QED
      BY <1>4, <2>2, <3>1, <3>2, <1>0
      DEF HandleTransferError, PartsTypeOK, NumbersTypeOK, serveVars
  <2>3. CASE /\ inRecoveries' = inRecoveries + 1 /\ ~(inRecoveries' > MaxInRecoveries)
             /\ RecoverInterface /\ Request /\ UNCHANGED requestVars
    <3>1. urbStuck' \in BOOLEAN /\ silentAge' \in 0..LadderLength
      BY <2>3, RequestType
    <3>2. inActive' \in BOOLEAN /\ inPending' \in BOOLEAN
      BY <2>3 DEF RecoverInterface
    <3>3. inAttempts' \in 0..MaxInStartAttempts /\ inAttempts' < MaxInStartAttempts
      BY <2>3 DEF RecoverInterface
    <3>4. inRecoveries' \in 0..(MaxInRecoveries + 1)
      BY <2>3, <1>0 DEF NumbersTypeOK
    <3>5. QED
      BY <1>4, <2>3, <3>1, <3>2, <3>3, <3>4, <1>0
      DEF HandleTransferError, PartsTypeOK, NumbersTypeOK, serveVars, requestVars
  <2>4. QED
    BY <1>4, <2>1, <2>2, <2>3 DEF HandleTransferError
<1>5. CASE ServiceEnumWatchdog
  <2>1. /\ port' \in {"detached", "open", "closed", "dead", "off"}
        /\ urbStuck' \in BOOLEAN /\ inActive' \in BOOLEAN
    <3>1. CycleRootPort \/ UNCHANGED stackVars
      BY <1>5 DEF ServiceEnumWatchdog
    <3>2. QED
      BY <3>1, <1>0, CycleRootPortType DEF stackVars, PartsTypeOK, NumbersTypeOK
  <2>2. /\ restartRequested' \in BOOLEAN /\ restartReason' \in Reasons
        /\ restartRequested => restartRequested'
    <3>1. RequestRestart("not_enumerated") \/ UNCHANGED requestVars
      BY <1>5 DEF ServiceEnumWatchdog
    <3>2. "not_enumerated" \in Reasons
      BY DEF Reasons
    <3>3. QED
      BY <3>1, <3>2, <1>0, RequestRestartType DEF requestVars, PartsTypeOK, NumbersTypeOK
  <2>3. QED
    BY <1>5, <2>1, <2>2, <1>0
    DEF ServiceEnumWatchdog, PartsTypeOK, NumbersTypeOK, serveVars, inVars
<1>6. CASE RetryInterfaceStart
  <2>1. inActive' \in BOOLEAN
    BY <1>6, <1>0 DEF RetryInterfaceStart, StartSucceeds, StartFails, PartsTypeOK
  <2>2. UNCHANGED <<port, urbStuck, claimed, serveVars, inRecoveries, silentAge>>
    BY <1>6 DEF RetryInterfaceStart
  <2>3. CASE inPending' = FALSE /\ UNCHANGED <<inAttempts, requestVars>>
    <3>1. inPending' \in BOOLEAN /\ ~inPending'
      BY <2>3
    <3>2. PartsTypeOK'
      BY <2>1, <2>2, <2>3, <3>1, <1>0 DEF PartsTypeOK, serveVars, requestVars
    <3>3. NumbersTypeOK'
      BY <2>2, <2>3, <3>1, <1>0 DEF NumbersTypeOK, serveVars, requestVars
    <3>4. QED
      BY <3>2, <3>3
  <2>4. CASE /\ inPending /\ inAttempts' = inAttempts + 1
             /\ inPending' = (inAttempts' < MaxInStartAttempts)
             /\ UNCHANGED requestVars \/ RequestRestart("in_start")
    <3>1. /\ restartRequested' \in BOOLEAN /\ restartReason' \in Reasons
          /\ restartRequested => restartRequested'
      <4>1. "in_start" \in Reasons
        BY DEF Reasons
      <4>2. QED
        BY <2>4, <4>1, <1>0, RequestRestartType DEF requestVars, PartsTypeOK, NumbersTypeOK
    <3>2. inPending' \in BOOLEAN
      BY <2>4
    <3>3. /\ inAttempts' \in 0..MaxInStartAttempts
          /\ inPending' => inAttempts' < MaxInStartAttempts
      <4>1. inAttempts \in 0..MaxInStartAttempts /\ inAttempts < MaxInStartAttempts
        BY <2>4, <1>0 DEF NumbersTypeOK
      <4>2. inAttempts' = inAttempts + 1
        BY <2>4
      <4>3. inPending' => inAttempts' < MaxInStartAttempts
        BY <2>4
      <4>4. QED
        BY <4>1, <4>2, <4>3
    <3>4. QED
      BY <2>1, <2>2, <3>1, <3>2, <3>3, <1>0 DEF PartsTypeOK, NumbersTypeOK, serveVars
  <2>5. QED
    BY <1>6, <2>3, <2>4 DEF RetryInterfaceStart
<1>7. CASE PortCycleNotBack \/ LinkExhausted
  <2>1. /\ UNCHANGED <<stackVars, claimed, serveVars, inVars, silentAge>>
        /\ RequestRestart("not_back") \/ RequestRestart("no_answer")
    BY <1>7 DEF PortCycleNotBack, LinkExhausted
  <2>2. "not_back" \in Reasons /\ "no_answer" \in Reasons
    BY DEF Reasons
  <2>3. /\ restartRequested' = TRUE /\ restartRequested' \in BOOLEAN
        /\ restartReason' \in Reasons
    BY <2>1, <2>2, RequestRestartType
  <2>4. QED
    BY <2>1, <2>3, <1>0 DEF PartsTypeOK, NumbersTypeOK, stackVars, serveVars, inVars
<1>8. CASE LinkRecover
  <2>1. inActive' \in BOOLEAN /\ inPending' \in BOOLEAN
    BY <1>8 DEF LinkRecover, RecoverInterface
  <2>2. inAttempts' \in 0..MaxInStartAttempts /\ inAttempts' < MaxInStartAttempts
    BY <1>8 DEF LinkRecover, RecoverInterface
  <2>3. QED
    BY <1>8, <2>1, <2>2, <1>0
    DEF LinkRecover, PartsTypeOK, NumbersTypeOK, serveVars, requestVars
<1>9. CASE RecoverStuckTransfer
  <2>1. /\ port' \in {"detached", "open", "closed", "dead", "off"}
        /\ urbStuck' \in BOOLEAN /\ inActive' \in BOOLEAN
    <3>1. CycleRootPort \/ UNCHANGED stackVars
      BY <1>9 DEF RecoverStuckTransfer
    <3>2. QED
      BY <3>1, <1>0, CycleRootPortType DEF stackVars, PartsTypeOK, NumbersTypeOK
  <2>2. /\ restartRequested' \in BOOLEAN /\ restartReason' \in Reasons
        /\ restartRequested => restartRequested'
    <3>1. UNCHANGED requestVars \/ (OnStuck # "CYCLE_PORT" /\ RequestRestart(OnStuck))
      BY <1>9 DEF RecoverStuckTransfer
    <3>2. OnStuck # "CYCLE_PORT" => OnStuck \in Reasons
      BY DEF OnStuck, Reasons
    <3>3. QED
      BY <3>1, <3>2, <1>0, RequestRestartType DEF requestVars, PartsTypeOK, NumbersTypeOK
  <2>3. ready' \in BOOLEAN
    BY <1>9, <1>0 DEF RecoverStuckTransfer, PartsTypeOK
  <2>4. QED
    BY <1>9, <2>1, <2>2, <2>3, <1>0
    DEF RecoverStuckTransfer, PartsTypeOK, NumbersTypeOK, inVars
<1>10. CASE Poll
  <2>1. urbStuck' \in BOOLEAN /\ silentAge' \in 0..LadderLength
    <3>1. Request \/ UNCHANGED <<urbStuck, silentAge>>
      BY <1>10 DEF Poll
    <3>2. QED
      BY <3>1, <1>0, RequestType DEF PartsTypeOK, NumbersTypeOK
  <2>2. getOk' \in BOOLEAN /\ firstData' \in BOOLEAN
    BY <1>10, <1>0 DEF Poll, PartsTypeOK
  <2>3. QED
    BY <1>10, <2>1, <2>2, <1>0
    DEF Poll, PartsTypeOK, NumbersTypeOK, inVars, requestVars
<1>11. QED
  BY <1>1, <1>2, <1>3, <1>4, <1>5, <1>6, <1>7, <1>8, <1>9, <1>10 DEF PollTaskNext

LEMMA PollTaskInv ==
    ASSUME UsbBounds, PollTaskNext
    PROVE  UsbBounds'
BY PollTaskClasses, PollTaskParts, PollTaskFrame, PollTaskEvents, PartsMakeInv
DEF InvParts, QueueTypeOK

LEMMA ReportInv ==
    ASSUME UsbBounds, ProcessInputReport
    PROVE  UsbBounds'
<1>1. LinkTypeOK' /\ DescTypeOK' /\ EnumTypeOK' /\ CycleTypeOK'
  <2>1. /\ UNCHANGED linkVars /\ UNCHANGED descVars
        /\ UNCHANGED enumVars /\ UNCHANGED cycleVars
    BY DEF ProcessInputReport
  <2>2. LinkTypeOK' /\ DescTypeOK'
    BY <2>1, LinkSteps, DescSteps DEF UsbBounds, UsbTypeOK
  <2>3. EnumTypeOK' /\ CycleTypeOK'
    BY <2>1, EnumSteps, CycleSteps DEF UsbBounds, UsbTypeOK
  <2>4. QED
    BY <2>2, <2>3
<1>2. /\ inRecoveries' = 0
      /\ UNCHANGED <<deviceVars, stackVars, events, pollPc, pollDue, claimed, serveVars,
                     inPending, inAttempts, requestVars, enumSeen, silentAge>>
  BY DEF ProcessInputReport
<1>3. FlagsTypeOK'
  BY <1>2 DEF UsbBounds, UsbTypeOK, FlagsTypeOK, deviceVars, stackVars, serveVars, requestVars
<1>4. inRecoveries' \in 0..(MaxInRecoveries + 1) /\ ~(inRecoveries' > MaxInRecoveries)
  BY <1>2, USBHostUPSAssumption
<1>5. QED
  BY <1>1, <1>2, <1>3, <1>4
  DEF UsbBounds, UsbTypeOK, deviceVars, stackVars, serveVars, requestVars

LEMMA TickInv ==
    ASSUME UsbBounds, Tick
    PROVE  UsbBounds'
<1>1. LinkTypeOK' /\ DescTypeOK' /\ EnumTypeOK' /\ CycleTypeOK'
  <2>1. LinkElapse \/ UNCHANGED linkVars
    BY DEF Tick
  <2>2. DescElapse /\ EnumElapse /\ CycleElapse
    BY DEF Tick
  <2>3. LinkTypeOK' /\ DescTypeOK'
    BY <2>1, <2>2, LinkSteps, DescSteps DEF UsbBounds, UsbTypeOK
  <2>4. EnumTypeOK' /\ CycleTypeOK'
    BY <2>2, EnumSteps, CycleSteps DEF UsbBounds, UsbTypeOK
  <2>5. QED
    BY <2>3, <2>4
<1>2. /\ pollDue' = TRUE
      /\ UNCHANGED <<deviceVars, stackVars, events, pollPc, claimed, ready, firstData, getOk,
                     inVars, requestVars, enumSeen>>
  BY DEF Tick
<1>3. FlagsTypeOK'
  BY <1>2 DEF UsbBounds, UsbTypeOK, FlagsTypeOK, deviceVars, stackVars, inVars, requestVars
<1>4. silentAge' \in 0..LadderLength /\ claimAge' \in 0..FirstDataMax
  <2>1. silentAge' = silentAge \/ silentAge' = Older(silentAge, LadderLength)
    BY DEF Tick
  <2>2. claimAge' = claimAge \/ claimAge' = Older(claimAge, FirstDataMax)
    BY DEF Tick
  <2>3. QED
    BY <2>1, <2>2, LadderNat, USBHostUPSAssumption DEF Older, UsbBounds, UsbTypeOK
<1>5. QED
  BY <1>1, <1>2, <1>3, <1>4
  DEF UsbBounds, UsbTypeOK, deviceVars, stackVars, inVars, requestVars

LEMMA StutterInv ==
    ASSUME UsbBounds, UNCHANGED usbVars
    PROVE  UsbBounds'
<1>1. LinkTypeOK' /\ DescTypeOK' /\ EnumTypeOK' /\ CycleTypeOK'
  BY DEF usbVars, linkVars, descVars, enumVars, cycleVars, UsbBounds, UsbTypeOK,
         LinkTypeOK, DescTypeOK, EnumTypeOK, CycleTypeOK
<1>2. FlagsTypeOK'
  BY DEF usbVars, deviceVars, stackVars, taskVars, serveVars, inVars, requestVars,
         UsbBounds, UsbTypeOK, FlagsTypeOK
<1>3. QED
  BY <1>1, <1>2 DEF usbVars, deviceVars, stackVars, taskVars, serveVars, inVars, requestVars,
                    UsbBounds, UsbTypeOK

LEMMA NextInv ==
    ASSUME UsbBounds, [Next]_usbVars
    PROVE  UsbBounds'
BY DeviceInv, PollTaskInv, ReportInv, TickInv, StutterInv DEF Next

\* A start or a reset: everything is as a boot sets it.
LEMMA InitInv ==
    ASSUME NEW afterRestart \in BOOLEAN, UsbInit(afterRestart),
           plugged \in BOOLEAN, mode \in {"ok", "err", "mute"}
    PROVE  UsbBounds
<1> USE USBHostUPSAssumption
<1>0. LinkInit /\ DescInit /\ CycleInit /\ EnumInit(afterRestart)
  BY DEF UsbInit
<1>1. LinkTypeOK
  BY <1>0, LinkMonitorAssumption DEF LinkInit, LinkTypeOK
<1>2. DescTypeOK /\ CycleTypeOK
  <2>1. descPending \in BOOLEAN /\ waiting \in BOOLEAN /\ timeoutReported \in BOOLEAN
    BY <1>0 DEF DescInit, CycleInit
  <2>2. descAttempts = 0 /\ descLeft = 0 /\ cycleAge = 0
        /\ stamps = [i \in 1..MaxCycles |-> CycleWindow]
    BY <1>0 DEF DescInit, CycleInit
  <2>3. QED
    BY <2>1, <2>2, DescriptorRetryAssumption, PortCyclePolicyAssumption
    DEF DescTypeOK, CycleTypeOK
<1>3. EnumTypeOK
  <2>1. enumArmed \in BOOLEAN /\ enumRestartAsked \in BOOLEAN
    BY <1>0 DEF EnumInit
  <2>2. enumAge = 0 /\ enumCycles = 0
    BY <1>0 DEF EnumInit
  <2>3. QED
    BY <2>1, <2>2, EnumWatchdogAssumption, EnumDueNat DEF EnumTypeOK
<1>4. PartsTypeOK /\ enumSeen \in BOOLEAN /\ pollDue \in BOOLEAN
  BY DEF UsbInit, PartsTypeOK
<1>5. NumbersTypeOK
  <2>1. ~inPending /\ port = "detached" /\ restartReason = ""
    BY DEF UsbInit
  <2>2. claimAge = 0 /\ inAttempts = 0 /\ inRecoveries = 0 /\ silentAge = 0
    BY DEF UsbInit
  <2>3. restartReason \in Reasons
    BY <2>1 DEF Reasons
  <2>4. inAttempts < MaxInStartAttempts /\ ~(inRecoveries > MaxInRecoveries)
    BY <2>2
  <2>5. claimAge \in 0..FirstDataMax /\ inAttempts \in 0..MaxInStartAttempts
        /\ inRecoveries \in 0..(MaxInRecoveries + 1) /\ silentAge \in 0..LadderLength
    BY <2>2, LadderNat
  <2>6. QED
    BY <2>1, <2>3, <2>4, <2>5 DEF NumbersTypeOK
<1>6. FrameTypeOK /\ QueueTypeOK
  <2>1. events = <<>> /\ pollPc = "events"
    BY DEF UsbInit
  <2>2. QED
    BY <1>4, <2>1 DEF FrameTypeOK, QueueTypeOK
<1>7. QED
  BY <1>1, <1>2, <1>3, <1>4, <1>5, <1>6, PartsMakeInv DEF InvParts

\* Every variable of the poll task keeps its type and its bound: the queue, the
\* attempts to start a pipe and the recoveries counted by handleTransferError.
THEOREM UsbTypeCorrect == Spec => []UsbTypeOK
<1>1. Init => UsbBounds
  BY InitInv DEF Init
<1>2. UsbBounds /\ [Next]_usbVars => UsbBounds'
  BY NextInv
<1>3. UsbBounds => UsbTypeOK
  BY DEF UsbBounds
<1>4. QED
  BY <1>1, <1>2, <1>3, PTL DEF Spec

------------------------------------------------------------------------------
(* Live data are live.  isDataStale() looks at the failures and at the age  *)
(* of the last answer; what the data lack in freshness is seen because the  *)
(* age of the monitor never falls behind the silence of the device, and     *)
(* because no service() of a ready interface ends without a request while   *)
(* the link is not failing.                                                 *)

AgeCovers == aliveAge >= StaleAfter \/ aliveAge >= silentAge

PolledLately ==
    ~LinkFailing => backoffLeft = 0 /\ silentAge <= (IF pollDue THEN 1 ELSE 0)

FreshInv == ready /\ ~restartRequested => AgeCovers /\ PolledLately

\* An action that leaves the monitor alone and does not end service().
LEMMA FreshFrame ==
    ASSUME UsbBounds, FreshInv, UNCHANGED <<linkVars, silentAge>>,
           ready' => ready, restartRequested => restartRequested', pollDue => pollDue'
    PROVE  FreshInv'
<1> SUFFICES ASSUME ready', ~restartRequested' PROVE AgeCovers' /\ PolledLately'
  BY DEF FreshInv
<1>1. AgeCovers /\ PolledLately
  BY DEF FreshInv
<1>2. AgeCovers'
  BY <1>1 DEF AgeCovers, linkVars
<1>3. silentAge <= (IF pollDue THEN 1 ELSE 0) => silentAge <= (IF pollDue' THEN 1 ELSE 0)
  BY LadderNat DEF UsbBounds, UsbTypeOK
<1>4. PolledLately'
  BY <1>1, <1>3 DEF PolledLately, LinkFailing, linkVars
<1>5. QED
  BY <1>2, <1>4

\* A request is answered, or makes the link fail.
LEMMA FreshRequest ==
    ASSUME UsbBounds, FreshInv, Request, ready, ~restartRequested
    PROVE  FreshInv'
<1>1. CASE LinkAlive /\ silentAge' = 0
  <2>1. aliveAge' = 0 /\ backoffLeft' = 0 /\ silentAge' = 0
    BY <1>1 DEF LinkAlive, LinkReset
  <2>2. QED
    BY <2>1 DEF FreshInv, AgeCovers, PolledLately
<1>2. CASE LinkFailure /\ UNCHANGED silentAge
  <2>1. LinkFailing'
    BY <1>2, LinkMonitorAssumption
    DEF LinkFailure, LinkFailing, UsbBounds, UsbTypeOK, LinkTypeOK
  <2>2. AgeCovers'
    BY <1>2 DEF LinkFailure, FreshInv, AgeCovers
  <2>3. QED
    BY <2>1, <2>2 DEF FreshInv, PolledLately
<1>3. QED
  BY <1>1, <1>2 DEF Request

LEMMA FreshClaim ==
    ASSUME UsbBounds, FreshInv, ClaimInterface, pollDue => pollDue'
    PROVE  FreshInv'
<1>1. CASE ClaimFails
  <2>1. UNCHANGED <<linkVars, silentAge>> /\ ready' = ready
    BY <1>1 DEF ClaimFails, serveVars
  <2>2. restartRequested => restartRequested'
    BY <1>1 DEF ClaimFails, RequestRestart, requestVars
  <2>3. QED
    BY <2>1, <2>2, FreshFrame
<1>2. CASE ClaimSucceeds
  <2>1. aliveAge' = 0 /\ backoffLeft' = 0 /\ silentAge' = 0
    BY <1>2 DEF ClaimSucceeds, LinkReset
  <2>2. QED
    BY <2>1 DEF FreshInv, AgeCovers, PolledLately
<1>3. QED
  BY <1>1, <1>2 DEF ClaimInterface

LEMMA FreshPollTask ==
    ASSUME UsbBounds, FreshInv, PollTaskNext
    PROVE  FreshInv'
<1>1. CASE HandleConnected \/ RetryDescriptor
  <2>1. ClaimInterface /\ (pollDue => pollDue')
    BY <1>1 DEF HandleConnected, RetryDescriptor, NextEvent
  <2>2. QED
    BY <2>1, FreshClaim
<1>2. CASE HandleOpenFailed \/ HandleDisconnected \/ EventsDone \/ PortCycleOver
  <2>1. UNCHANGED <<linkVars, silentAge>> /\ UNCHANGED requestVars
    BY <1>2 DEF HandleOpenFailed, HandleDisconnected, EventsDone, PortCycleOver, taskVars
  <2>2. pollDue => pollDue'
    BY <1>2 DEF HandleOpenFailed, HandleDisconnected, EventsDone, PortCycleOver, NextEvent,
                taskVars
  <2>3. ready' => ready
    BY <1>2 DEF HandleOpenFailed, HandleDisconnected, EventsDone, PortCycleOver, taskVars,
                serveVars
  <2>4. QED
    BY <2>1, <2>2, <2>3, FreshFrame DEF requestVars
<1>3. CASE HandleTransferError
  <2>1. CASE Request /\ ready /\ ~restartRequested
    BY <2>1, FreshRequest
  <2>2. CASE UNCHANGED linkVars /\ UNCHANGED silentAge
    <3>1. ready' = ready /\ pollDue' = TRUE
      BY <1>3 DEF HandleTransferError, NextEvent, serveVars
    <3>2. restartRequested => restartRequested'
      BY <1>3 DEF HandleTransferError, RequestRestart, requestVars
    <3>3. QED
      BY <2>2, <3>1, <3>2, FreshFrame
  <2>3. QED
    BY <1>3, <2>1, <2>2 DEF HandleTransferError
<1>4. CASE ServiceEnumWatchdog \/ RetryInterfaceStart
  <2>1. UNCHANGED <<linkVars, silentAge>> /\ UNCHANGED ready /\ UNCHANGED pollDue
    BY <1>4 DEF ServiceEnumWatchdog, RetryInterfaceStart, serveVars
  <2>2. restartRequested => restartRequested'
    BY <1>4 DEF ServiceEnumWatchdog, RetryInterfaceStart, RequestRestart, requestVars
  <2>3. QED
    BY <2>1, <2>2, FreshFrame
<1>5. CASE PortCycleNotBack \/ LinkExhausted
  <2>1. restartRequested'
    BY <1>5 DEF PortCycleNotBack, LinkExhausted, PastWait, RequestRestart
  <2>2. QED
    BY <2>1 DEF FreshInv
<1>6. CASE ServiceIdle
  <2>1. (restartRequested \/ ~ready) /\ restartRequested' = restartRequested /\ ready' = ready
    BY <1>6 DEF ServiceIdle, requestVars, serveVars
  <2>2. QED
    BY <2>1 DEF FreshInv
<1>7. CASE LinkRecover
  <2>1. ready /\ ~restartRequested
    BY <1>7 DEF LinkRecover, PastWait
  <2>2. LinkFailing /\ backoff' = backoff /\ aliveAge' = aliveAge /\ silentAge' = silentAge
    BY <1>7 DEF LinkRecover, LinkTick, LinkRecovering
  <2>3. QED
    BY <2>1, <2>2 DEF FreshInv, AgeCovers, PolledLately, LinkFailing
<1>8. CASE RecoverStuckTransfer
  <2>1. ~ready' \/ restartRequested'
    BY <1>8 DEF RecoverStuckTransfer, PastWait, RequestRestart
  <2>2. QED
    BY <2>1 DEF FreshInv
<1>9. CASE Poll
  <2>1. ready /\ ~restartRequested /\ ready' = ready /\ restartRequested' = restartRequested
    BY <1>9 DEF Poll, PastWait, requestVars
  <2>2. CASE CanPoll
    BY <1>9, <2>1, <2>2, FreshRequest DEF Poll
  <2>3. CASE ~CanPoll
    <3>1. UNCHANGED <<linkVars, silentAge>>
      BY <1>9, <2>3 DEF Poll
    <3>2. LinkFailing
      BY <2>1, <2>3 DEF CanPoll, FreshInv, PolledLately
    <3>3. QED
      BY <2>1, <3>1, <3>2 DEF FreshInv, AgeCovers, PolledLately, LinkFailing, linkVars
  <2>4. QED
    BY <2>2, <2>3
<1>10. QED
  BY <1>1, <1>2, <1>3, <1>4, <1>5, <1>6, <1>7, <1>8, <1>9 DEF PollTaskNext

LEMMA FreshTick ==
    ASSUME UsbBounds, FreshInv, Tick
    PROVE  FreshInv'
<1> SUFFICES ASSUME ready', ~restartRequested' PROVE AgeCovers' /\ PolledLately'
  BY DEF FreshInv
<1>1. ready /\ ~restartRequested /\ ~pollDue /\ pollDue' = TRUE
  BY DEF Tick, requestVars
<1>2. AgeCovers /\ PolledLately
  BY <1>1 DEF FreshInv
<1>3. LinkElapse /\ silentAge' = Older(silentAge, LadderLength)
  BY <1>1 DEF Tick
<1>4. /\ aliveAge \in 0..StaleAfter /\ silentAge \in 0..LadderLength
      /\ StaleAfter \in Nat /\ LadderLength \in Nat /\ backoffLeft \in Nat
  BY LinkMonitorAssumption, LadderNat DEF UsbBounds, UsbTypeOK, LinkTypeOK
<1>5. AgeCovers'
  <2>1. aliveAge' = Older(aliveAge, StaleAfter)
    BY <1>3 DEF LinkElapse
  <2>2. QED
    BY <1>2, <1>3, <1>4, <2>1 DEF AgeCovers, Older
<1>6. PolledLately'
  <2>1. backoff' = backoff /\ backoffLeft' = Sooner(backoffLeft)
    BY <1>3 DEF LinkElapse
  <2>2. CASE LinkFailing
    BY <2>1, <2>2 DEF PolledLately, LinkFailing
  <2>3. CASE ~LinkFailing
    <3>1. backoffLeft = 0 /\ silentAge <= 0
      BY <1>1, <1>2, <2>3 DEF PolledLately
    <3>2. backoffLeft' = 0
      BY <2>1, <3>1 DEF Sooner
    <3>3. silentAge' <= 1
      BY <1>3, <1>4, <3>1 DEF Older
    <3>4. QED
      BY <1>1, <3>2, <3>3 DEF PolledLately
  <2>4. QED
    BY <2>2, <2>3
<1>7. QED
  BY <1>5, <1>6

LEMMA FreshNext ==
    ASSUME UsbBounds, FreshInv, [Next]_usbVars
    PROVE  FreshInv'
<1>1. CASE DeviceNext \/ ProcessInputReport \/ UNCHANGED usbVars
  <2>1. /\ UNCHANGED <<linkVars, silentAge>>
        /\ ready' = ready /\ restartRequested' = restartRequested /\ pollDue' = pollDue
    BY <1>1 DEF DeviceNext, Unplug, Plug, Enumerate, EnumerationCancelled, TransferError,
                ChangeMode, ProcessInputReport, usbVars, taskVars, serveVars, requestVars
  <2>2. QED
    BY <2>1, FreshFrame
<1>2. QED
  BY <1>1, FreshPollTask, FreshTick DEF Next

LEMMA FreshMeansServedFresh ==
    ASSUME StaleAfter >= 2, UsbBounds, FreshInv
    PROVE  ServedFresh
<1> SUFFICES ASSUME Served PROVE silentAge < StaleAfter
  BY DEF ServedFresh
<1>1. AgeCovers /\ PolledLately
  BY DEF Served, FreshInv
<1>2. /\ aliveAge \in Nat /\ silentAge \in Nat /\ StaleAfter \in Nat
      /\ LadderLength \in Nat
  BY LadderNat, LinkMonitorAssumption DEF UsbBounds, UsbTypeOK, LinkTypeOK
<1>3. CASE LinkFailing
  BY <1>1, <1>2, <1>3 DEF Served, LinkIsStale, AgeCovers
<1>4. CASE ~LinkFailing
  <2>1. silentAge <= 1
    BY <1>1, <1>2, <1>4 DEF PolledLately
  <2>2. QED
    BY <1>2, <2>1
<1>5. QED
  BY <1>3, <1>4

\* isDataStale(): data served as live are never as old as the stale limit, if that
\* limit is longer than the time between two polls.
THEOREM ServedIsFresh ==
    ASSUME StaleAfter >= 2
    PROVE  Spec => []ServedFresh
<1>1. Init => UsbBounds /\ FreshInv
  <2>1. Init => UsbBounds
    BY InitInv DEF Init
  <2>2. Init => ~ready
    BY DEF Init, UsbInit
  <2>3. QED
    BY <2>1, <2>2 DEF FreshInv
<1>2. UsbBounds /\ FreshInv /\ [Next]_usbVars => UsbBounds' /\ FreshInv'
  BY NextInv, FreshNext
<1>3. UsbBounds /\ FreshInv => ServedFresh
  BY FreshMeansServedFresh
<1>4. QED
  BY <1>1, <1>2, <1>3, PTL DEF Spec


------------------------------------------------------------------------------
(* The interface, its handle and the events between them.  What may be in    *)
(* the queue at once: losses and claims alternate, and the last one tells.   *)

In(q, a) == \E i \in 1..Len(q) : q[i] = a

\* After every `a' comes a `b'.
Followed(q, a, b) == \A i \in 1..Len(q) : q[i] = a => \E j \in 1..Len(q) : j > i /\ q[j] = b

\* Before every CONNECTED comes a DISCONNECTED.
Preceded(q) ==
    \A i \in 1..Len(q) : q[i] = "CONNECTED" =>
        \E j \in 1..Len(q) : j < i /\ q[j] = "DISCONNECTED"

\* Between two CONNECTED comes a DISCONNECTED.
Apart(q) ==
    \A i, k \in 1..Len(q) : i < k /\ q[i] = "CONNECTED" /\ q[k] = "CONNECTED" =>
        \E j \in 1..Len(q) : i < j /\ j < k /\ q[j] = "DISCONNECTED"

Held == claimed \/ descPending

Accounted ==
    /\ port = "open" => Followed(events, "DISCONNECTED", "CONNECTED")
    /\ port # "open" => Followed(events, "CONNECTED", "DISCONNECTED")
    /\ Held => Preceded(events)
    /\ Apart(events)
    /\ port = "open" => Held \/ In(events, "CONNECTED")
    /\ Held /\ port # "open" => In(events, "DISCONNECTED")
    /\ ~(claimed /\ descPending)
    /\ pollPc = "desc" => descPending

\* The head of the queue is handled.
LEMMA TailKeeps ==
    ASSUME NEW q \in Seq(Events), q # <<>>
    PROVE  /\ \A a, b : Followed(q, a, b) => Followed(Tail(q), a, b)
           /\ Apart(q) => Apart(Tail(q))
           /\ Head(q) # "DISCONNECTED" /\ Preceded(q) => Preceded(Tail(q))
           /\ \A a : Head(q) # a /\ In(q, a) => In(Tail(q), a)
           /\ \A a : In(Tail(q), a) => In(q, a)
           /\ \A a, b : Head(q) = a /\ a # b /\ Followed(q, a, b) => In(Tail(q), b)
           /\ Head(q) = "CONNECTED" => In(q, "CONNECTED") /\ ~Preceded(q)
           /\ Head(q) = "CONNECTED" /\ Apart(q) => Preceded(Tail(q))
<1> DEFINE t == Tail(q)
<1>1. /\ t \in Seq(Events) /\ Len(q) \in Nat \ {0} /\ Len(t) = Len(q) - 1 /\ Head(q) = q[1]
      /\ \A i \in 1..Len(t) : t[i] = q[i + 1]
  OBVIOUS
<1>2. \A i \in 1..Len(q) : i = 1 \/ (i - 1 \in 1..Len(t) /\ t[i - 1] = q[i])
  BY <1>1
<1> HIDE DEF t
<1>3. ASSUME NEW a, NEW b, Followed(q, a, b) PROVE Followed(t, a, b)
  <2>1. SUFFICES ASSUME NEW i \in 1..Len(t), t[i] = a
                 PROVE  \E j \in 1..Len(t) : j > i /\ t[j] = b
    BY DEF Followed
  <2>2. i + 1 \in 1..Len(q) /\ q[i + 1] = a
    BY <1>1, <2>1
  <2>3. PICK j \in 1..Len(q) : j > i + 1 /\ q[j] = b
    BY <1>3, <2>2 DEF Followed
  <2>4. j - 1 \in 1..Len(t) /\ t[j - 1] = b /\ j - 1 > i
    BY <1>1, <1>2, <2>3
  <2>5. QED
    BY <2>4
<1>4. ASSUME Apart(q) PROVE Apart(t)
  <2>1. SUFFICES ASSUME NEW i \in 1..Len(t), NEW k \in 1..Len(t), i < k,
                        t[i] = "CONNECTED", t[k] = "CONNECTED"
                 PROVE  \E j \in 1..Len(t) : i < j /\ j < k /\ t[j] = "DISCONNECTED"
    BY DEF Apart
  <2>2. /\ i + 1 \in 1..Len(q) /\ k + 1 \in 1..Len(q) /\ i + 1 < k + 1
        /\ q[i + 1] = "CONNECTED" /\ q[k + 1] = "CONNECTED"
    BY <1>1, <2>1
  <2>3. PICK j \in 1..Len(q) : i + 1 < j /\ j < k + 1 /\ q[j] = "DISCONNECTED"
    BY <1>4, <2>2 DEF Apart
  <2>4. j - 1 \in 1..Len(t) /\ t[j - 1] = "DISCONNECTED" /\ i < j - 1 /\ j - 1 < k
    BY <1>1, <1>2, <2>3
  <2>5. QED
    BY <2>4
<1>5. ASSUME q[1] # "DISCONNECTED", Preceded(q) PROVE Preceded(t)
  <2>1. SUFFICES ASSUME NEW i \in 1..Len(t), t[i] = "CONNECTED"
                 PROVE  \E j \in 1..Len(t) : j < i /\ t[j] = "DISCONNECTED"
    BY DEF Preceded
  <2>2. i + 1 \in 1..Len(q) /\ q[i + 1] = "CONNECTED"
    BY <1>1, <2>1
  <2>3. PICK j \in 1..Len(q) : j < i + 1 /\ q[j] = "DISCONNECTED"
    BY <1>5, <2>2 DEF Preceded
  <2>4. j - 1 \in 1..Len(t) /\ t[j - 1] = "DISCONNECTED" /\ j - 1 < i
    BY <1>1, <1>2, <1>5, <2>3
  <2>5. QED
    BY <2>4
<1>6. ASSUME NEW a PROVE /\ q[1] # a /\ In(q, a) => In(t, a)
                         /\ In(t, a) => In(q, a)
  <2>1. ASSUME q[1] # a, In(q, a) PROVE In(t, a)
    <3>1. PICK i \in 1..Len(q) : q[i] = a
      BY <2>1 DEF In
    <3>2. i - 1 \in 1..Len(t) /\ t[i - 1] = a
      BY <1>2, <2>1, <3>1
    <3>3. QED
      BY <3>2 DEF In
  <2>2. ASSUME In(t, a) PROVE In(q, a)
    <3>1. PICK i \in 1..Len(t) : t[i] = a
      BY <2>2 DEF In
    <3>2. i + 1 \in 1..Len(q) /\ q[i + 1] = a
      BY <1>1, <3>1
    <3>3. QED
      BY <3>2 DEF In
  <2>3. QED
    BY <2>1, <2>2
<1>7. ASSUME NEW a, NEW b, q[1] = a, a # b, Followed(q, a, b) PROVE In(t, b)
  <2>1. PICK j \in 1..Len(q) : j > 1 /\ q[j] = b
    BY <1>1, <1>7 DEF Followed
  <2>2. j - 1 \in 1..Len(t) /\ t[j - 1] = b
    BY <1>2, <2>1
  <2>3. QED
    BY <2>2 DEF In
<1>8. ASSUME q[1] = "CONNECTED" PROVE In(q, "CONNECTED") /\ ~Preceded(q)
  BY <1>1, <1>8 DEF In, Preceded
<1>9. ASSUME q[1] = "CONNECTED", Apart(q) PROVE Preceded(t)
  <2>1. SUFFICES ASSUME NEW i \in 1..Len(t), t[i] = "CONNECTED"
                 PROVE  \E j \in 1..Len(t) : j < i /\ t[j] = "DISCONNECTED"
    BY DEF Preceded
  <2>2. 1 \in 1..Len(q) /\ i + 1 \in 1..Len(q) /\ 1 < i + 1 /\ q[i + 1] = "CONNECTED"
    BY <1>1, <2>1
  <2>3. PICK j \in 1..Len(q) : 1 < j /\ j < i + 1 /\ q[j] = "DISCONNECTED"
    BY <1>9, <2>2 DEF Apart
  <2>4. j - 1 \in 1..Len(t) /\ t[j - 1] = "DISCONNECTED" /\ j - 1 < i
    BY <1>1, <1>2, <2>3
  <2>5. QED
    BY <2>4
<1>10. QED
  BY <1>1, <1>3, <1>4, <1>5, <1>6, <1>7, <1>8, <1>9 DEF t

\* The HID task posts an event.
LEMMA AppendKeeps ==
    ASSUME NEW q \in Seq(Events), NEW e \in Events
    PROVE  /\ \A a, b : e # a /\ Followed(q, a, b) => Followed(Append(q, e), a, b)
           /\ \A a : e # a => Followed(Append(q, e), a, e)
           /\ e # "CONNECTED" /\ Apart(q) => Apart(Append(q, e))
           /\ Followed(q, "CONNECTED", "DISCONNECTED") /\ Apart(q) => Apart(Append(q, e))
           /\ e # "CONNECTED" /\ Preceded(q) => Preceded(Append(q, e))
           /\ In(q, "DISCONNECTED") /\ Preceded(q) => Preceded(Append(q, e))
           /\ \A a : In(Append(q, e), a) <=> In(q, a) \/ a = e
<1> DEFINE r == Append(q, e)
<1>1. /\ Len(q) \in Nat /\ Len(r) = Len(q) + 1 /\ r[Len(q) + 1] = e
      /\ \A i \in 1..Len(q) : r[i] = q[i]
  OBVIOUS
<1>2. \A i \in 1..Len(r) : i \in 1..Len(q) \/ (i = Len(q) + 1 /\ r[i] = e)
  BY <1>1
<1> HIDE DEF r
<1>3. ASSUME NEW a, NEW b, e # a, Followed(q, a, b) PROVE Followed(r, a, b)
  <2>1. SUFFICES ASSUME NEW i \in 1..Len(r), r[i] = a
                 PROVE  \E j \in 1..Len(r) : j > i /\ r[j] = b
    BY DEF Followed
  <2>2. i \in 1..Len(q) /\ q[i] = a
    BY <1>1, <1>2, <1>3, <2>1
  <2>3. PICK j \in 1..Len(q) : j > i /\ q[j] = b
    BY <1>3, <2>2 DEF Followed
  <2>4. QED
    BY <1>1, <2>3
<1>4. ASSUME NEW a, e # a PROVE Followed(r, a, e)
  <2>1. ASSUME NEW i \in 1..Len(r), r[i] = a PROVE Len(q) + 1 > i
    BY <1>1, <1>2, <1>4, <2>1
  <2>2. Len(q) + 1 \in 1..Len(r)
    BY <1>1
  <2>3. QED
    BY <1>1, <2>1, <2>2 DEF Followed
<1>5. ASSUME e # "CONNECTED" \/ Followed(q, "CONNECTED", "DISCONNECTED"), Apart(q)
      PROVE  Apart(r)
  <2>1. SUFFICES ASSUME NEW i \in 1..Len(r), NEW k \in 1..Len(r), i < k,
                        r[i] = "CONNECTED", r[k] = "CONNECTED"
                 PROVE  \E j \in 1..Len(r) : i < j /\ j < k /\ r[j] = "DISCONNECTED"
    BY DEF Apart
  <2>2. i \in 1..Len(q) /\ q[i] = "CONNECTED"
    BY <1>1, <1>2, <2>1
  <2>3. \E j \in 1..Len(q) : i < j /\ j < k /\ q[j] = "DISCONNECTED"
    <3>1. CASE k \in 1..Len(q)
      BY <1>1, <1>5, <2>1, <2>2, <3>1 DEF Apart
    <3>2. CASE k = Len(q) + 1 /\ r[k] = e
      <4>1. Followed(q, "CONNECTED", "DISCONNECTED")
        BY <1>5, <2>1, <3>2
      <4>2. PICK j \in 1..Len(q) : j > i /\ q[j] = "DISCONNECTED"
        BY <2>2, <4>1 DEF Followed
      <4>3. QED
        BY <1>1, <3>2, <4>2
    <3>3. QED
      BY <1>2, <3>1, <3>2
  <2>4. QED
    BY <1>1, <2>3
<1>6. ASSUME e # "CONNECTED" \/ In(q, "DISCONNECTED"), Preceded(q) PROVE Preceded(r)
  <2>1. SUFFICES ASSUME NEW i \in 1..Len(r), r[i] = "CONNECTED"
                 PROVE  \E j \in 1..Len(r) : j < i /\ r[j] = "DISCONNECTED"
    BY DEF Preceded
  <2>2. CASE i \in 1..Len(q)
    BY <1>1, <1>6, <2>1, <2>2 DEF Preceded
  <2>3. CASE i = Len(q) + 1 /\ r[i] = e
    <3>1. PICK j \in 1..Len(q) : q[j] = "DISCONNECTED"
      BY <1>6, <2>1, <2>3 DEF In
    <3>2. QED
      BY <1>1, <2>3, <3>1
  <2>4. QED
    BY <1>2, <2>2, <2>3
<1>7. ASSUME NEW a PROVE In(r, a) <=> In(q, a) \/ a = e
  BY <1>1, <1>2 DEF In
<1>8. QED
  BY <1>3, <1>4, <1>5, <1>6, <1>7 DEF r

\* Pending() and Reachable by the queue as a sequence.
LEMMA QueueFacts ==
    ASSUME UsbBounds
    PROVE  /\ events \in Seq(Events)
           /\ \A a : Pending(a) <=> In(events, a)
           /\ Reachable <=> port = "open" /\ ~In(events, "DISCONNECTED")
<1>1. events \in Seq(Events)
  BY DEF UsbBounds, UsbTypeOK
<1>2. DOMAIN events = 1..Len(events)
  BY <1>1
<1>3. QED
  BY <1>1, <1>2 DEF Pending, In, Reachable

\* Nothing that matters changes.
LEMMA AccountedSame ==
    ASSUME Accounted, UNCHANGED <<port, events, claimed, descPending>>,
           pollPc' = "desc" => descPending'
    PROVE  Accounted'
BY DEF Accounted, Held

\* The device leaves the bus.
LEMMA AccountedGone ==
    ASSUME UsbBounds, Accounted, NEW p, p # "open", DeviceGone(p),
           UNCHANGED <<claimed, descPending>>, pollPc' = "desc" => descPending'
    PROVE  Accounted'
<1>1. port' # "open" /\ Held' = Held
  BY DEF DeviceGone, Held
<1>2. CASE port = "open"
  <2>1. events' = Append(events, "DISCONNECTED") /\ events \in Seq(Events)
    BY <1>2, QueueFacts DEF DeviceGone
  <2>2. "DISCONNECTED" \in Events
    BY DEF Events
  <2>3. /\ Followed(events', "CONNECTED", "DISCONNECTED") /\ In(events', "DISCONNECTED")
        /\ Apart(events) => Apart(events')
        /\ Preceded(events) => Preceded(events')
    BY <2>1, <2>2, AppendKeeps
  <2>4. QED
    BY <1>1, <2>3 DEF Accounted
<1>3. CASE port # "open"
  BY <1>1, <1>3 DEF DeviceGone, Accounted
<1>4. QED
  BY <1>2, <1>3

\* A step of the device or of the stack.
LEMMA AccountedDevice ==
    ASSUME UsbBounds, Accounted, DeviceNext
    PROVE  Accounted'
<1>1. /\ UNCHANGED <<claimed, descPending>>
      /\ pollPc' = "desc" => descPending'
  BY DEF DeviceNext, Unplug, Plug, Enumerate, EnumerationCancelled, TransferError, ChangeMode,
         taskVars, descVars, Accounted
<1>2. CASE Unplug
  <2>1. PICK p : p # "open" /\ DeviceGone(p)
    BY <1>2 DEF Unplug
  <2>2. QED
    BY <1>1, <2>1, AccountedGone
<1>3. CASE Plug \/ EnumerationCancelled \/ (\E m \in {"ok", "err", "mute"} : ChangeMode(m))
  <2>1. /\ events' = events
        /\ port' = port \/ (port # "open" /\ port' # "open")
    BY <1>3 DEF Plug, EnumerationCancelled, ChangeMode, stackVars
  <2>2. QED
    BY <1>1, <2>1 DEF Accounted, Held
<1>4. CASE Enumerate \/ TransferError
  <2>1. PICK e \in {"CONNECTED", "OPEN_FAILED", "TRANSFER_ERROR"} :
            /\ events' = Append(events, e)
            /\ \/ e = "CONNECTED" /\ port # "open" /\ port' = "open"
               \/ e = "OPEN_FAILED" /\ port # "open" /\ port' # "open"
               \/ e = "TRANSFER_ERROR" /\ port' = port
    BY <1>4 DEF Enumerate, TransferError
  <2>2. events \in Seq(Events) /\ e \in Events
    BY <2>1, QueueFacts DEF Events
  <2>3. Held' = Held
    BY <1>1 DEF Held
  <2>4. CASE e = "CONNECTED"
    <3>1. /\ Followed(events', "DISCONNECTED", "CONNECTED") /\ In(events', "CONNECTED")
          /\ Followed(events, "CONNECTED", "DISCONNECTED") /\ Apart(events) => Apart(events')
          /\ In(events, "DISCONNECTED") /\ Preceded(events) => Preceded(events')
      BY <2>1, <2>2, <2>4, AppendKeeps
    <3>2. QED
      BY <1>1, <2>1, <2>3, <2>4, <3>1 DEF Accounted
  <2>5. CASE e # "CONNECTED"
    <3>1. /\ Followed(events, "CONNECTED", "DISCONNECTED") =>
               Followed(events', "CONNECTED", "DISCONNECTED")
          /\ Followed(events, "DISCONNECTED", "CONNECTED") =>
               Followed(events', "DISCONNECTED", "CONNECTED")
      BY <2>1, <2>2, <2>5, AppendKeeps
    <3>2. /\ Apart(events) => Apart(events')
          /\ Preceded(events) => Preceded(events')
          /\ \A a : In(events, a) => In(events', a)
      BY <2>1, <2>2, <2>5, AppendKeeps
    <3>3. (port = "open") <=> (port' = "open")
      BY <2>1, <2>5
    <3>4. QED
      BY <1>1, <2>3, <3>1, <3>2, <3>3 DEF Accounted
  <2>6. QED
    BY <2>4, <2>5
<1>5. QED
  BY <1>2, <1>3, <1>4 DEF DeviceNext

\* A claim, when the interface is neither held nor in the queue.
LEMMA AccountedClaim ==
    ASSUME UsbBounds, Accounted, ClaimInterface
    PROVE  /\ \/ port' = port
              \/ Reachable /\ port' = "closed" /\ ~descPending' /\ UNCHANGED claimed
           /\ \/ Reachable /\ claimed' /\ ~descPending' /\ port' = port
              \/ UNCHANGED claimed /\ (~descPending' => ~Reachable \/ port' = "closed")
BY DEF ClaimInterface, ClaimFails, ClaimSucceeds, Answers, DescFailure, DescClear

LEMMA AccountedConnected ==
    ASSUME UsbBounds, Accounted, HandleConnected
    PROVE  Accounted'
<1>1. /\ events # <<>> /\ Head(events) = "CONNECTED" /\ events' = Tail(events)
      /\ ClaimInterface /\ pollPc' = "events" /\ events \in Seq(Events)
  BY QueueFacts DEF HandleConnected, NextEvent
<1>2. ~claimed /\ ~descPending
  BY <1>1, TailKeeps DEF Accounted, Held
<1>3. /\ Apart(events') /\ Preceded(events')
      /\ \A a, b : Followed(events, a, b) => Followed(events', a, b)
      /\ Followed(events, "CONNECTED", "DISCONNECTED") => In(events', "DISCONNECTED")
  BY <1>1, TailKeeps DEF Accounted
<1>4. In(events, "DISCONNECTED") => In(events', "DISCONNECTED")
  BY <1>1, TailKeeps
<1>5. ~(claimed' /\ descPending')
  BY <1>1, <1>2, AccountedClaim
<1>6. CASE port = "open" /\ port' = "open"
  <2>1. Held' \/ In(events', "CONNECTED")
    <3>1. CASE In(events, "DISCONNECTED")
      <4>1. PICK i \in 1..Len(events') : events'[i] = "DISCONNECTED"
        BY <1>4, <3>1 DEF In
      <4>2. Followed(events', "DISCONNECTED", "CONNECTED")
        BY <1>3, <1>6 DEF Accounted
      <4>3. QED
        BY <4>1, <4>2 DEF Followed, In
    <3>2. CASE ~In(events, "DISCONNECTED")
      BY <1>1, <1>6, <3>2, QueueFacts, AccountedClaim DEF Held
    <3>3. QED
      BY <3>1, <3>2
  <2>2. QED
    BY <1>1, <1>3, <1>5, <1>6, <2>1 DEF Accounted
<1>7. CASE port # "open"
  <2>1. port' = port
    BY <1>1, <1>7, AccountedClaim DEF Reachable
  <2>2. QED
    BY <1>1, <1>3, <1>5, <1>7, <2>1 DEF Accounted
<1>8. CASE port = "open" /\ port' # "open"
  <2>1. Reachable /\ ~descPending' /\ ~claimed'
    BY <1>1, <1>2, <1>8, AccountedClaim
  <2>2. ~In(events, "DISCONNECTED")
    BY <2>1, QueueFacts
  <2>3. ~In(events', "CONNECTED")
    <3>1. ~In(events', "DISCONNECTED")
      BY <1>1, <2>2, TailKeeps
    <3>2. QED
      BY <1>3, <3>1 DEF Preceded, In
  <2>4. QED
    BY <1>1, <1>3, <1>8, <2>1, <2>3 DEF Accounted, Held, Followed, In
<1>9. QED
  BY <1>6, <1>7, <1>8

LEMMA AccountedRetry ==
    ASSUME UsbBounds, Accounted, RetryDescriptor
    PROVE  Accounted'
<1>1. ClaimInterface /\ pollPc' # "desc" /\ events' = events /\ descPending /\ ~claimed /\ Held
  BY DEF RetryDescriptor, AfterDesc, Accounted, Held
<1>2. ~(claimed' /\ descPending')
  BY <1>1, AccountedClaim
<1>3. CASE port = "open" /\ port' = "open"
  <2>1. Held' \/ In(events, "CONNECTED")
    <3>1. CASE In(events, "DISCONNECTED")
      <4>1. Followed(events, "DISCONNECTED", "CONNECTED")
        BY <1>3 DEF Accounted
      <4>2. QED
        BY <3>1, <4>1 DEF Followed, In
    <3>2. CASE ~In(events, "DISCONNECTED")
      BY <1>1, <1>3, <3>2, QueueFacts, AccountedClaim DEF Held
    <3>3. QED
      BY <3>1, <3>2
  <2>2. QED
    BY <1>1, <1>2, <1>3, <2>1 DEF Accounted
<1>4. CASE port # "open"
  <2>1. port' = port
    BY <1>1, <1>4, AccountedClaim DEF Reachable
  <2>2. QED
    BY <1>1, <1>2, <1>4, <2>1 DEF Accounted
<1>5. CASE port = "open" /\ port' # "open"
  <2>1. Reachable /\ ~descPending' /\ ~claimed'
    BY <1>1, <1>5, AccountedClaim
  <2>2. ~In(events, "DISCONNECTED")
    BY <2>1, QueueFacts
  <2>3. ~In(events, "CONNECTED")
    BY <1>1, <2>2 DEF Accounted, Preceded, In
  <2>4. QED
    BY <1>1, <1>5, <2>1, <2>3 DEF Accounted, Held, Followed, In
<1>6. QED
  BY <1>3, <1>4, <1>5

LEMMA AccountedDisconnected ==
    ASSUME UsbBounds, Accounted, HandleDisconnected
    PROVE  Accounted'
<1>1. /\ events # <<>> /\ Head(events) = "DISCONNECTED" /\ events' = Tail(events)
      /\ ~claimed' /\ ~descPending' /\ pollPc' = "events" /\ port' = port
      /\ events \in Seq(Events)
  BY QueueFacts DEF HandleDisconnected, NextEvent, DescClear, stackVars
<1>2. /\ Apart(events')
      /\ \A a, b : Followed(events, a, b) => Followed(events', a, b)
      /\ Followed(events, "DISCONNECTED", "CONNECTED") => In(events', "CONNECTED")
  BY <1>1, TailKeeps DEF Accounted
<1>3. QED
  BY <1>1, <1>2 DEF Accounted, Held

LEMMA AccountedOtherEvent ==
    ASSUME UsbBounds, Accounted, HandleOpenFailed \/ HandleTransferError
    PROVE  Accounted'
<1>1. /\ events # <<>> /\ Head(events) \notin {"CONNECTED", "DISCONNECTED"}
      /\ events' = Tail(events) /\ UNCHANGED <<claimed, descPending, port>>
      /\ pollPc' = "events" /\ events \in Seq(Events)
  BY QueueFacts DEF HandleOpenFailed, HandleTransferError, NextEvent, stackVars, descVars
<1>2. /\ Apart(events')
      /\ \A a, b : Followed(events, a, b) => Followed(events', a, b)
      /\ Preceded(events) => Preceded(events')
      /\ In(events, "CONNECTED") => In(events', "CONNECTED")
      /\ In(events, "DISCONNECTED") => In(events', "DISCONNECTED")
  BY <1>1, TailKeeps DEF Accounted
<1>3. QED
  BY <1>1, <1>2 DEF Accounted, Held

LEMMA AccountedNext ==
    ASSUME UsbBounds, Accounted, [Next]_usbVars
    PROVE  Accounted'
<1>1. CASE HandleConnected \/ HandleDisconnected \/ HandleOpenFailed \/ HandleTransferError
             \/ RetryDescriptor \/ DeviceNext
  BY <1>1, AccountedConnected, AccountedDisconnected, AccountedOtherEvent, AccountedRetry,
     AccountedDevice
<1>2. CASE ServiceEnumWatchdog \/ RecoverStuckTransfer
  <2>1. /\ CycleRootPort \/ UNCHANGED <<stackVars, events>>
        /\ UNCHANGED <<claimed, descPending>> /\ pollPc' # "desc"
    BY <1>2 DEF ServiceEnumWatchdog, RecoverStuckTransfer, ServiceEnds, descVars
  <2>2. CASE UNCHANGED <<stackVars, events>>
    BY <2>1, <2>2, AccountedSame DEF stackVars
  <2>3. CASE CycleRootPort
    <3>1. UNCHANGED <<stackVars, events>> \/ \E p \in {"detached", "off"} : DeviceGone(p)
      BY <2>3 DEF CycleRootPort
    <3>2. ASSUME NEW p \in {"detached", "off"}, DeviceGone(p) PROVE Accounted'
      BY <2>1, <3>2, AccountedGone
    <3>3. QED
      BY <2>2, <3>1, <3>2
  <2>4. QED
    BY <2>1, <2>2, <2>3
<1>3. CASE EventsDone \/ ProcessInputReport \/ Tick \/ UNCHANGED usbVars
  <2>1. /\ UNCHANGED <<port, events, claimed, descPending>>
        /\ pollPc' = "desc" => descPending'
    BY <1>3 DEF EventsDone, DescDue, AfterDesc, ProcessInputReport, Tick, DescElapse, usbVars,
                taskVars, stackVars, descVars, Accounted
  <2>2. QED
    BY <2>1, AccountedSame
<1>4. CASE RetryInterfaceStart \/ PortCycleOver \/ PortCycleNotBack \/ ServiceIdle
             \/ LinkRecover \/ LinkExhausted \/ Poll
  <2>1. UNCHANGED <<port, events, claimed, descPending>> /\ pollPc' # "desc"
    BY <1>4 DEF RetryInterfaceStart, PortCycleOver, PortCycleNotBack, ServiceIdle, PastWait,
                LinkRecover, LinkExhausted, Poll, ServiceEnds, taskVars, stackVars, descVars
  <2>2. QED
    BY <2>1, AccountedSame
<1>5. QED
  BY <1>1, <1>2, <1>3, <1>4 DEF Next, PollTaskNext

------------------------------------------------------------------------------
(* The interrupt pipe of an interface in use.                               *)

\* What keeps it: the transfer, its error in the queue, a start or a restart due.
PipeCared ==
    inActive \/ In(events, "TRANSFER_ERROR") \/ inPending \/ restartRequested \/ ~InterruptPipe

InPipeInv ==
    claimed /\ ready /\ port = "open" /\ ~In(events, "DISCONNECTED") => PipeCared

LEMMA InPipeMeans ==
    ASSUME UsbBounds
    PROVE  InPipeInv <=> InPipeRestarted
BY QueueFacts DEF InPipeInv, InPipeRestarted, PipeCared

LEMMA InPipeDevice ==
    ASSUME UsbBounds, Accounted, InPipeInv, DeviceNext
    PROVE  InPipeInv'
<1>1. UNCHANGED <<claimed, ready, inPending, restartRequested>>
  BY DEF DeviceNext, Unplug, Plug, Enumerate, EnumerationCancelled, TransferError, ChangeMode,
         taskVars, serveVars, inVars, requestVars
<1>2. CASE Unplug
  BY <1>2 DEF Unplug, DeviceGone, InPipeInv
<1>3. CASE Plug \/ EnumerationCancelled \/ (\E m \in {"ok", "err", "mute"} : ChangeMode(m))
  <2>1. /\ UNCHANGED <<inActive, events>>
        /\ port' = port \/ port' # "open"
    BY <1>3 DEF Plug, EnumerationCancelled, ChangeMode, stackVars
  <2>2. QED
    BY <1>1, <2>1 DEF InPipeInv, PipeCared
<1>4. CASE Enumerate
  <2>1. PICK e \in {"CONNECTED", "OPEN_FAILED"} : events' = Append(events, e)
    BY <1>4 DEF Enumerate
  <2>2. events \in Seq(Events) /\ e \in Events /\ port # "open"
    BY <1>4, <2>1, QueueFacts DEF Events, Enumerate
  <2>3. claimed => In(events, "DISCONNECTED")
    BY <2>2 DEF Accounted, Held
  <2>4. claimed' => In(events', "DISCONNECTED")
    BY <1>1, <2>1, <2>2, <2>3, AppendKeeps
  <2>5. QED
    BY <2>4 DEF InPipeInv
<1>5. CASE TransferError
  <2>1. events' = Append(events, "TRANSFER_ERROR") /\ events \in Seq(Events)
    BY <1>5, QueueFacts DEF TransferError
  <2>2. "TRANSFER_ERROR" \in Events
    BY DEF Events
  <2>3. In(events', "TRANSFER_ERROR")
    BY <2>1, <2>2, AppendKeeps
  <2>4. QED
    BY <2>3 DEF InPipeInv, PipeCared
<1>6. QED
  BY <1>2, <1>3, <1>4, <1>5 DEF DeviceNext

\* A claim starts the pipe, or leaves its start due.
LEMMA InPipeClaim ==
    ASSUME UsbBounds, Accounted, ClaimInterface, ~claimed
    PROVE  claimed' => inActive' \/ inPending'
BY DEF ClaimInterface, ClaimFails, ClaimSucceeds, StartSucceeds

\* An event is handled.
LEMMA InPipeEvents ==
    ASSUME UsbBounds, Accounted, InPipeInv,
           \/ HandleConnected \/ HandleDisconnected
           \/ HandleOpenFailed \/ HandleTransferError
    PROVE  InPipeInv'
<1>1. events # <<>> /\ events' = Tail(events) /\ events \in Seq(Events)
  BY QueueFacts DEF HandleConnected, HandleDisconnected, HandleOpenFailed, HandleTransferError,
                    NextEvent
<1>2. CASE HandleConnected
  <2>1. Head(events) = "CONNECTED" /\ ClaimInterface
    BY <1>2 DEF HandleConnected, NextEvent
  <2>2. ~claimed
    BY <1>1, <2>1, TailKeeps DEF Accounted, Held
  <2>3. QED
    BY <2>1, <2>2, InPipeClaim DEF InPipeInv, PipeCared
<1>3. CASE HandleDisconnected
  BY <1>3 DEF HandleDisconnected, InPipeInv
<1>4. CASE HandleOpenFailed \/ HandleTransferError
  <2>1. /\ Head(events) # "DISCONNECTED" /\ UNCHANGED <<port, claimed, ready>>
        /\ Head(events) = "TRANSFER_ERROR" <=> HandleTransferError
    BY <1>4 DEF HandleOpenFailed, HandleTransferError, NextEvent, stackVars, serveVars
  <2>2. /\ In(events, "DISCONNECTED") => In(events', "DISCONNECTED")
        /\ Head(events) # "TRANSFER_ERROR" /\ In(events, "TRANSFER_ERROR")
             => In(events', "TRANSFER_ERROR")
    BY <1>1, <2>1, TailKeeps
  <2>3. CASE HandleOpenFailed
    <3>1. UNCHANGED <<inActive, inPending, restartRequested>>
          /\ Head(events) # "TRANSFER_ERROR"
      BY <2>3 DEF HandleOpenFailed, NextEvent, stackVars, inVars, requestVars
    <3>2. QED
      BY <2>1, <2>2, <3>1 DEF InPipeInv, PipeCared
  <2>4. CASE HandleTransferError
    <3>1. InterruptPipe /\ claimed /\ ready => inPending' \/ restartRequested'
      BY <2>4 DEF HandleTransferError, RequestRestart, RecoverInterface, requestVars, inVars
    <3>2. QED
      BY <2>1, <3>1 DEF InPipeInv, PipeCared
  <2>5. QED
    BY <1>4, <2>3, <2>4
<1>5. QED
  BY <1>2, <1>3, <1>4

\* The rest of the poll task.
LEMMA InPipeTask ==
    ASSUME UsbBounds, Accounted, InPipeInv, PollTaskNext,
           ~HandleConnected, ~HandleDisconnected, ~HandleOpenFailed, ~HandleTransferError
    PROVE  InPipeInv'
<1>1. CASE RetryDescriptor
  <2>1. ClaimInterface /\ ~claimed
    BY <1>1 DEF RetryDescriptor, Accounted
  <2>2. QED
    BY <2>1, InPipeClaim DEF InPipeInv, PipeCared
<1>2. CASE ServiceEnumWatchdog
  <2>1. /\ \/ port' # "open"
           \/ UNCHANGED <<stackVars, events>>
        /\ restartRequested => restartRequested'
        /\ UNCHANGED <<claimed, ready, inPending>>
    BY <1>2 DEF ServiceEnumWatchdog, CycleRootPort, DeviceGone, RequestRestart, requestVars,
                serveVars, inVars
  <2>2. QED
    BY <2>1 DEF InPipeInv, PipeCared, stackVars
<1>3. CASE RetryInterfaceStart
  <2>1. inActive' \/ inPending' \/ restartRequested'
    BY <1>3 DEF RetryInterfaceStart, StartSucceeds, RequestRestart
  <2>2. QED
    BY <2>1 DEF InPipeInv, PipeCared
<1>4. CASE PortCycleNotBack \/ LinkExhausted \/ RecoverStuckTransfer
  <2>1. restartRequested' \/ ~ready'
    BY <1>4 DEF PortCycleNotBack, LinkExhausted, RecoverStuckTransfer, PastWait, RequestRestart
  <2>2. QED
    BY <2>1 DEF InPipeInv, PipeCared
<1>5. CASE LinkRecover
  BY <1>5 DEF LinkRecover, RecoverInterface, InPipeInv, PipeCared
<1>6. CASE EventsDone \/ PortCycleOver \/ ServiceIdle \/ Poll
  <2>1. UNCHANGED <<port, inActive, events, claimed, ready, inPending, restartRequested>>
    BY <1>6 DEF EventsDone, PortCycleOver, ServiceIdle, Poll, taskVars, stackVars, serveVars,
                inVars, requestVars
  <2>2. QED
    BY <2>1 DEF InPipeInv, PipeCared
<1>7. QED
  BY <1>1, <1>2, <1>3, <1>4, <1>5, <1>6 DEF PollTaskNext

LEMMA InPipeNext ==
    ASSUME UsbBounds, Accounted, InPipeInv, [Next]_usbVars
    PROVE  InPipeInv'
<1>1. CASE ProcessInputReport \/ Tick \/ UNCHANGED usbVars
  <2>1. UNCHANGED <<port, inActive, events, claimed, ready, inPending, restartRequested>>
    BY <1>1 DEF ProcessInputReport, Tick, usbVars, taskVars, stackVars, serveVars, inVars,
                requestVars
  <2>2. QED
    BY <2>1 DEF InPipeInv, PipeCared
<1>2. QED
  BY <1>1, InPipeDevice, InPipeEvents, InPipeTask DEF Next, PollTaskNext

\* UsbInv: no interface is lost between the HID driver, the queue and the poll task, and the
\* interrupt pipe of one in use is never left stopped (processEvents(), claimInterface(),
\* recoverInterface()), whatever the device and the HID task do between two steps.
THEOREM UsbInvariant == Spec => []UsbInv
<1>1. Init => UsbBounds /\ Accounted /\ InPipeInv
  <2>1. Init => UsbBounds
    BY InitInv DEF Init
  <2>2. Init => events = <<>> /\ port = "detached" /\ ~claimed /\ ~descPending
                /\ pollPc = "events"
    BY DEF Init, UsbInit, DescInit
  <2>3. Init => Accounted /\ InPipeInv
    BY <2>2 DEF Accounted, Held, Followed, Preceded, Apart, In, InPipeInv
  <2>4. QED
    BY <2>1, <2>3
<1>2. UsbBounds /\ Accounted /\ InPipeInv /\ [Next]_usbVars =>
        UsbBounds' /\ Accounted' /\ InPipeInv'
  BY NextInv, AccountedNext, InPipeNext
<1>3. UsbBounds /\ Accounted /\ InPipeInv => UsbInv
  <2>1. UsbBounds => UsbTypeOK
    BY DEF UsbBounds
  <2>2. UsbBounds /\ Accounted => InterfaceAccounted
    BY QueueFacts DEF Accounted, InterfaceAccounted, Held
  <2>3. UsbBounds /\ InPipeInv => InPipeRestarted
    BY InPipeMeans
  <2>4. QED
    BY <2>1, <2>2, <2>3 DEF UsbInv
<1>4. QED
  BY <1>1, <1>2, <1>3, PTL DEF Spec

------------------------------------------------------------------------------
(* Restarts and port cycles have their cause.  The rungs of the ladder are   *)
(* counted by the monitor, the silence by the observer: the silence is never *)
(* shorter than the rungs climbed and the window of the one stood on.        *)

Rungs(n) == n * LinkTimeout

Earned ==
    ready => /\ claimed
             /\ silentAge >= Rungs(linkRecoveries) + windowAge
             /\ LinkFailing => silentAge >= firstFailureAge

LEMMA RungsFacts ==
    /\ \A n \in 0..MaxLinkRecoveries :
         /\ Rungs(n) \in Nat
         /\ Rungs(n) + LinkTimeout <= LadderLength
         /\ Rungs(n + 1) = Rungs(n) + LinkTimeout
    /\ Rungs(0) = 0
    /\ Rungs(MaxLinkRecoveries) + LinkTimeout = LadderLength
<1> USE LinkMonitorAssumption
<1>1. ASSUME NEW n \in 0..MaxLinkRecoveries
      PROVE  /\ Rungs(n) \in Nat
             /\ Rungs(n) + LinkTimeout <= LadderLength
             /\ Rungs(n + 1) = Rungs(n) + LinkTimeout
  <2>1. n * LinkTimeout \in Nat /\ (MaxLinkRecoveries - n) * LinkTimeout \in Nat
    BY DEF Rungs
  <2>2. MaxLinkRecoveries * LinkTimeout =
          n * LinkTimeout + (MaxLinkRecoveries - n) * LinkTimeout
    OBVIOUS
  <2>3. LadderLength = MaxLinkRecoveries * LinkTimeout + LinkTimeout
    BY DEF LadderLength
  <2>4. (n + 1) * LinkTimeout = n * LinkTimeout + LinkTimeout
    OBVIOUS
  <2>5. QED
    BY <2>1, <2>2, <2>3, <2>4 DEF Rungs
<1>2. Rungs(0) = 0
  BY DEF Rungs
<1>3. Rungs(MaxLinkRecoveries) + LinkTimeout = LadderLength
  BY DEF Rungs, LadderLength
<1>4. QED
  BY <1>1, <1>2, <1>3

LEMMA EarnedTypes ==
    ASSUME UsbBounds
    PROVE  /\ linkRecoveries \in 0..MaxLinkRecoveries /\ windowAge \in 0..LinkTimeout
           /\ firstFailureAge \in 0..StuckRestart /\ silentAge \in 0..LadderLength
           /\ LadderLength \in Nat /\ LinkTimeout \in Nat /\ StuckRestart \in Nat
           /\ MaxLinkRecoveries \in Nat
BY LadderNat, LinkMonitorAssumption DEF UsbBounds, UsbTypeOK, LinkTypeOK

\* An action that leaves the monitor alone.
LEMMA EarnedFrame ==
    ASSUME Earned, UNCHANGED <<linkVars, silentAge>>, ready' => ready /\ claimed'
    PROVE  Earned'
BY DEF Earned, LinkFailing, linkVars

\* The monitor starts afresh with an answer.
LEMMA EarnedReset ==
    ASSUME LinkReset, silentAge' = 0, ready' => claimed'
    PROVE  Earned'
BY RungsFacts DEF LinkReset, Earned, LinkFailing

LEMMA EarnedRequest ==
    ASSUME UsbBounds, Earned, Request, ready' = ready, claimed' = claimed
    PROVE  Earned'
<1>1. CASE LinkAlive /\ silentAge' = 0
  BY <1>1, EarnedReset DEF LinkAlive, Earned
<1>2. CASE LinkFailure /\ UNCHANGED silentAge
  <2>1. /\ linkRecoveries' = linkRecoveries /\ windowAge' = windowAge
        /\ firstFailureAge' = IF LinkFailing THEN firstFailureAge ELSE 0
    BY <1>2 DEF LinkFailure
  <2>2. QED
    BY <1>2, <2>1, EarnedTypes DEF Earned
<1>3. QED
  BY <1>1, <1>2 DEF Request

LEMMA EarnedClaim ==
    ASSUME Earned, ClaimInterface
    PROVE  Earned'
<1>1. CASE ClaimFails
  BY <1>1, EarnedFrame DEF ClaimFails, serveVars, Earned
<1>2. CASE ClaimSucceeds
  BY <1>2, EarnedReset DEF ClaimSucceeds
<1>3. QED
  BY <1>1, <1>2 DEF ClaimInterface

LEMMA EarnedPollTask ==
    ASSUME UsbBounds, Earned, PollTaskNext
    PROVE  Earned'
<1>1. CASE HandleConnected \/ RetryDescriptor
  BY <1>1, EarnedClaim DEF HandleConnected, RetryDescriptor
<1>2. CASE HandleOpenFailed \/ EventsDone \/ PortCycleOver \/ ServiceEnumWatchdog
           \/ RetryInterfaceStart \/ PortCycleNotBack \/ ServiceIdle \/ LinkExhausted
  <2>1. UNCHANGED <<linkVars, silentAge>> /\ ready' = ready /\ claimed' = claimed
    BY <1>2 DEF HandleOpenFailed, EventsDone, PortCycleOver, ServiceEnumWatchdog,
                RetryInterfaceStart, PortCycleNotBack, ServiceIdle, LinkExhausted,
                taskVars, serveVars
  <2>2. QED
    BY <2>1, EarnedFrame DEF Earned
<1>3. CASE HandleDisconnected
  <2>1. UNCHANGED <<linkVars, silentAge>> /\ ~(ready' /\ ready)
    BY <1>3 DEF HandleDisconnected, Earned, UsbBounds, UsbTypeOK, FlagsTypeOK
  <2>2. ready' => ready
    BY <1>3 DEF HandleDisconnected
  <2>3. QED
    BY <2>1, <2>2, EarnedFrame
<1>4. CASE HandleTransferError
  <2>1. ready' = ready /\ claimed' = claimed
    BY <1>4 DEF HandleTransferError, serveVars
  <2>2. CASE Request
    BY <2>1, <2>2, EarnedRequest
  <2>3. CASE UNCHANGED linkVars /\ UNCHANGED silentAge
    BY <2>1, <2>3, EarnedFrame DEF Earned
  <2>4. QED
    BY <1>4, <2>2, <2>3 DEF HandleTransferError
<1>5. CASE LinkRecover
  <2>1. /\ ready' = ready /\ claimed' = claimed /\ silentAge' = silentAge
        /\ backoff' = backoff /\ firstFailureAge' = firstFailureAge
        /\ linkRecoveries' = linkRecoveries + 1 /\ windowAge' = 0
    BY <1>5 DEF LinkRecover, LinkRecovering, serveVars
  <2>2. windowAge >= LinkTimeout
    BY <1>5, EarnedTypes DEF LinkRecover, LinkTick
  <2>3. Rungs(linkRecoveries + 1) = Rungs(linkRecoveries) + LinkTimeout
    BY EarnedTypes, RungsFacts
  <2>4. Rungs(linkRecoveries) \in Nat
    BY EarnedTypes, RungsFacts
  <2>5. QED
    BY <2>1, <2>2, <2>3, <2>4, EarnedTypes DEF Earned, LinkFailing
<1>6. CASE RecoverStuckTransfer
  <2>1. CASE ~ready'
    BY <2>1 DEF Earned
  <2>2. CASE ready'
    <3>1. UNCHANGED <<linkVars, silentAge>> /\ ready' = ready /\ claimed' = claimed
      BY <1>6, <2>2 DEF RecoverStuckTransfer
    <3>2. QED
      BY <3>1, EarnedFrame DEF Earned
  <2>3. QED
    BY <2>1, <2>2
<1>7. CASE Poll
  <2>1. ready' = ready /\ claimed' = claimed
    BY <1>7 DEF Poll
  <2>2. CASE Request
    BY <2>1, <2>2, EarnedRequest
  <2>3. CASE UNCHANGED <<linkVars, silentAge>>
    BY <2>1, <2>3, EarnedFrame DEF Earned
  <2>4. QED
    BY <1>7, <2>2, <2>3 DEF Poll
<1>8. QED
  BY <1>1, <1>2, <1>3, <1>4, <1>5, <1>6, <1>7 DEF PollTaskNext

LEMMA EarnedTick ==
    ASSUME StuckRestart <= LadderLength, UsbBounds, Earned, Tick
    PROVE  Earned'
<1> SUFFICES ASSUME ready' PROVE Earned'
  BY DEF Earned
<1>1. ready /\ claimed' = claimed
  BY DEF Tick
<1>2. LinkElapse /\ silentAge' = Older(silentAge, LadderLength)
  BY <1>1 DEF Tick
<1>3. /\ linkRecoveries' = linkRecoveries /\ backoff' = backoff
      /\ windowAge' = Older(windowAge, LinkTimeout)
      /\ LinkFailing => firstFailureAge' = Older(firstFailureAge, StuckRestart)
  BY <1>2 DEF LinkElapse
<1>4. Rungs(linkRecoveries) \in Nat /\ Rungs(linkRecoveries) + LinkTimeout <= LadderLength
  BY EarnedTypes, RungsFacts
<1>5. silentAge' >= Rungs(linkRecoveries) + windowAge'
  BY <1>1, <1>2, <1>3, <1>4, EarnedTypes DEF Earned, Older
<1>6. LinkFailing => silentAge' >= firstFailureAge'
  BY <1>1, <1>2, <1>3, EarnedTypes DEF Earned, Older
<1>7. QED
  BY <1>1, <1>3, <1>5, <1>6 DEF Earned, LinkFailing

LEMMA EarnedNext ==
    ASSUME StuckRestart <= LadderLength, UsbBounds, Earned, [Next]_usbVars
    PROVE  Earned'
<1>1. CASE DeviceNext \/ ProcessInputReport \/ UNCHANGED usbVars
  <2>1. UNCHANGED <<linkVars, silentAge>> /\ ready' = ready /\ claimed' = claimed
    BY <1>1 DEF DeviceNext, Unplug, Plug, Enumerate, EnumerationCancelled, TransferError,
                ChangeMode, ProcessInputReport, usbVars, taskVars, serveVars
  <2>2. QED
    BY <2>1, EarnedFrame DEF Earned
<1>2. QED
  BY <1>1, EarnedPollTask, EarnedTick DEF Next

\* The last rung, or a stuck transfer, is reached after its time.
LEMMA RestartDue ==
    ASSUME StuckRestart <= LadderLength, UsbBounds, Earned, ready,
           LinkTick(urbStuck) = "RESTART"
    PROVE  /\ silentAge >= StuckRestart
           /\ ~urbStuck => silentAge >= LadderLength
<1>1. LinkFailing
  BY DEF LinkTick
<1>2. CASE urbStuck /\ firstFailureAge >= StuckRestart
  BY <1>1, <1>2, EarnedTypes DEF Earned
<1>3. CASE ~(urbStuck /\ firstFailureAge >= StuckRestart)
  <2>1. ~(windowAge < LinkTimeout) /\ linkRecoveries >= MaxLinkRecoveries
    BY <1>1, <1>3 DEF LinkTick
  <2>2. windowAge >= LinkTimeout /\ linkRecoveries = MaxLinkRecoveries
    BY <2>1, EarnedTypes
  <2>3. silentAge >= LadderLength
    BY <2>2, EarnedTypes, RungsFacts DEF Earned
  <2>4. QED
    BY <2>3, EarnedTypes
<1>4. QED
  BY <1>2, <1>3

\* The first reason stays.
LEMMA RequestReason ==
    ASSUME NEW why, RequestRestart(why), ~restartRequested
    PROVE  restartReason' = why
BY DEF RequestRestart

RestartCause ==
    ~restartRequested /\ restartRequested' =>
        CASE restartReason' = "no_answer" -> silentAge >= LadderLength
          [] restartReason' \in {"stuck_again", "too_many"} ->
               urbStuck /\ silentAge >= StuckRestart
          [] restartReason' = "descriptor" -> urbStuck' /\ ~Served
          [] restartReason' = "not_enumerated" -> port \notin {"open", "closed"}
          [] restartReason' = "not_back" -> ~Proven
          [] OTHER -> restartReason' \in {"in_errors", "in_start"}

LEMMA RestartHasCause ==
    ASSUME StuckRestart <= LadderLength, UsbBounds, Earned, [Next]_usbVars
    PROVE  RestartCause
<1> SUFFICES ASSUME ~restartRequested, restartRequested' PROVE RestartCause
  BY DEF RestartCause
<1>1. CASE HandleConnected \/ RetryDescriptor
  <2>1. ClaimFails
    BY <1>1 DEF HandleConnected, RetryDescriptor, ClaimInterface, ClaimSucceeds
  <2>2. urbStuck' /\ ~claimed /\ RequestRestart("descriptor")
    BY <2>1 DEF ClaimFails, requestVars
  <2>3. restartReason' = "descriptor"
    BY <2>2, RequestReason
  <2>4. ~Served
    BY <2>2 DEF Served, Earned
  <2>5. QED
    BY <2>2, <2>3, <2>4 DEF RestartCause
<1>2. CASE HandleTransferError
  <2>1. RequestRestart("in_errors")
    BY <1>2 DEF HandleTransferError, requestVars
  <2>2. restartReason' = "in_errors"
    BY <2>1, RequestReason
  <2>3. QED
    BY <2>2 DEF RestartCause
<1>3. CASE ServiceEnumWatchdog
  <2>1. EnumTick(Enumerated) = "REQUEST_RESTART" /\ RequestRestart("not_enumerated")
    BY <1>3 DEF ServiceEnumWatchdog, requestVars
  <2>2. ~Enumerated
    BY <2>1 DEF EnumTick
  <2>3. restartReason' = "not_enumerated"
    BY <2>1, RequestReason
  <2>4. QED
    BY <2>2, <2>3 DEF RestartCause, Enumerated
<1>4. CASE RetryInterfaceStart
  <2>1. RequestRestart("in_start")
    BY <1>4 DEF RetryInterfaceStart, requestVars
  <2>2. restartReason' = "in_start"
    BY <2>1, RequestReason
  <2>3. QED
    BY <2>2 DEF RestartCause
<1>5. CASE PortCycleNotBack
  <2>1. ~Proven /\ RequestRestart("not_back")
    BY <1>5 DEF PortCycleNotBack
  <2>2. restartReason' = "not_back"
    BY <2>1, RequestReason
  <2>3. QED
    BY <2>1, <2>2 DEF RestartCause
<1>6. CASE LinkExhausted
  <2>1. ready /\ LinkTick(urbStuck) = "RESTART" /\ ~urbStuck /\ RequestRestart("no_answer")
    BY <1>6 DEF LinkExhausted
  <2>2. restartReason' = "no_answer" /\ silentAge >= LadderLength
    BY <2>1, RequestReason, RestartDue
  <2>3. QED
    BY <2>2 DEF RestartCause
<1>7. CASE RecoverStuckTransfer
  <2>1. ready /\ LinkTick(urbStuck) = "RESTART" /\ urbStuck
    BY <1>7 DEF RecoverStuckTransfer
  <2>2. OnStuck # "CYCLE_PORT" /\ RequestRestart(OnStuck)
    BY <1>7 DEF RecoverStuckTransfer, requestVars
  <2>3. restartReason' \in {"stuck_again", "too_many"}
    BY <2>2, RequestReason DEF OnStuck
  <2>4. silentAge >= StuckRestart
    BY <2>1, RestartDue
  <2>5. QED
    BY <2>1, <2>3, <2>4 DEF RestartCause
<1>8. CASE DeviceNext \/ ProcessInputReport \/ Tick \/ UNCHANGED usbVars \/ HandleOpenFailed
           \/ HandleDisconnected \/ EventsDone \/ PortCycleOver \/ ServiceIdle
           \/ LinkRecover \/ Poll
  <2>1. UNCHANGED requestVars
    BY <1>8 DEF DeviceNext, Unplug, Plug, Enumerate, EnumerationCancelled, TransferError,
                ChangeMode, ProcessInputReport, Tick, usbVars, taskVars, HandleOpenFailed,
                HandleDisconnected, EventsDone, PortCycleOver, ServiceIdle, LinkRecover, Poll
  <2>2. QED
    BY <2>1 DEF requestVars
<1>9. QED
  BY <1>1, <1>2, <1>3, <1>4, <1>5, <1>6, <1>7, <1>8 DEF Next, PollTaskNext

CutOff == plugged' /\ port \in {"open", "closed"} /\ port' \in {"detached", "off"}

LEMMA CycleHasCause ==
    ASSUME StuckRestart <= LadderLength, UsbBounds, Earned, [Next]_usbVars, CutOff
    PROVE  ready /\ urbStuck /\ silentAge >= StuckRestart
<1>1. CASE RecoverStuckTransfer
  <2>1. ready /\ LinkTick(urbStuck) = "RESTART" /\ urbStuck
    BY <1>1 DEF RecoverStuckTransfer
  <2>2. QED
    BY <2>1, RestartDue
<1>2. CASE ServiceEnumWatchdog
  <2>1. Enumerated
    BY DEF CutOff, Enumerated
  <2>2. EnumTick(Enumerated) = "NONE"
    BY <2>1 DEF EnumTick
  <2>3. port' = port
    BY <1>2, <2>2 DEF ServiceEnumWatchdog, stackVars
  <2>4. QED
    BY <2>3 DEF CutOff
<1>3. CASE DeviceNext
  BY <1>3 DEF DeviceNext, Unplug, Plug, Enumerate, EnumerationCancelled, TransferError,
              ChangeMode, CutOff, stackVars, deviceVars
<1>4. CASE HandleConnected \/ RetryDescriptor
  <2>1. port' = port \/ port' = "closed"
    BY <1>4 DEF HandleConnected, RetryDescriptor, ClaimInterface, ClaimSucceeds, ClaimFails
  <2>2. QED
    BY <2>1 DEF CutOff
<1>5. CASE ProcessInputReport \/ Tick \/ UNCHANGED usbVars \/ HandleOpenFailed
           \/ HandleDisconnected \/ HandleTransferError \/ EventsDone \/ RetryInterfaceStart
           \/ PortCycleOver \/ PortCycleNotBack \/ ServiceIdle \/ LinkRecover
           \/ LinkExhausted \/ Poll
  <2>1. port' = port
    BY <1>5 DEF ProcessInputReport, Tick, usbVars, stackVars, HandleOpenFailed,
                HandleDisconnected, HandleTransferError, EventsDone, RetryInterfaceStart,
                PortCycleOver, PortCycleNotBack, ServiceIdle, LinkRecover, LinkExhausted, Poll
  <2>2. QED
    BY <2>1 DEF CutOff
<1>6. QED
  BY <1>1, <1>2, <1>3, <1>4, <1>5 DEF Next, PollTaskNext

LEMMA EarnedInit == Init => Earned
BY DEF Init, UsbInit, Earned

\* Every restart service() asks for has a cause a restart may remove, and comes after the
\* milder recoveries had their time, if a stuck transfer is not waited for longer than for
\* the whole ladder.
THEOREM RestartsAreEarned ==
    ASSUME StuckRestart <= LadderLength
    PROVE  Spec => RestartEarned
<1>1. Init => UsbBounds /\ Earned
  BY InitInv, EarnedInit DEF Init
<1>2. UsbBounds /\ Earned /\ [Next]_usbVars => UsbBounds' /\ Earned' /\ RestartCause
  BY NextInv, EarnedNext, RestartHasCause
<1>3. RestartEarned <=> [][RestartCause]_usbVars
  BY DEF RestartEarned, RestartCause
<1>4. QED
  BY <1>1, <1>2, <1>3, PTL DEF Spec

\* A device the stack has enumerated is cut off by the poll task only to free a transfer that
\* has been stuck for its time: never by the watchdog of the enumeration.
THEOREM CyclesAreEarned ==
    ASSUME StuckRestart <= LadderLength
    PROVE  Spec => CycleEarned
<1>1. Init => UsbBounds /\ Earned
  BY InitInv, EarnedInit DEF Init
<1>2. UsbBounds /\ Earned /\ [Next]_usbVars =>
        /\ UsbBounds' /\ Earned'
        /\ CutOff => ready /\ urbStuck /\ silentAge >= StuckRestart
  BY NextInv, EarnedNext, CycleHasCause
<1>3. CycleEarned <=> [][CutOff => ready /\ urbStuck /\ silentAge >= StuckRestart]_usbVars
  BY DEF CycleEarned, CutOff
<1>4. QED
  BY <1>1, <1>2, <1>3, PTL DEF Spec

================================================================================
