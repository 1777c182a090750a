-------------------------- MODULE UsbRecovery_proofs --------------------------
(****************************************************************************)
(* The row of controlled restarts, proved for every number of restarts,     *)
(* every delay and both health periods; then the firmware, which implements *)
(* ControlledRestart.                                                       *)
(*                                                                          *)
(* The invariant RowInv ties the policy in RAM to the counter in RTC memory *)
(* and to the observers: the wait that is left and the time already waited  *)
(* make up the delay of the restart, and what the policy takes for a        *)
(* healthy time is not longer than the data were fresh.                     *)
(*                                                                          *)
(* The firmware of UsbRecovery implements ControlledRestart: whatever the   *)
(* poll task does, the loopTask sees inputs that ControlledRestart allows.  *)
(* So what is proved of the row of restarts holds of the firmware.  What    *)
(* makes the inputs truth values is the type invariant of the poll task,    *)
(* which every reset establishes again.                                     *)
(****************************************************************************)
EXTENDS UsbRecovery, USBHostUPS_proofs

\* A wait is under way only while a restart may still come, and is long enough.
WaitInv ==
    /\ scheduled =>
         /\ decision # "NONE"
         /\ consecutive < MaxRestarts
         /\ pendingRun + waitLeft >= Delay[consecutive]
    /\ loopPc = "restart" => scheduled /\ waitLeft = 0

\* The health the policy has seen is the health of the data.
HealthInv ==
    /\ loopPc # "update" => healthy = sampled
    /\ healthy /\ sampled => healthyRun >= healthyAge \/ healthyRun >= ProvenReset

RowInv ==
    /\ RestartTypeOK
    /\ CountersAgree
    /\ WaitInv
    /\ HealthInv
    /\ sickRestarts <= rtcCount

LEMMA InitRowInv == RestartInit => RowInv
<1> SUFFICES ASSUME RestartInit PROVE RowInv
  OBVIOUS
<1>1. /\ scheduled \in BOOLEAN /\ healthy \in BOOLEAN
      /\ sampled \in BOOLEAN /\ loopDue \in BOOLEAN
  BY DEF RestartInit, PolicyInit
<1>2. /\ consecutive \in 0..MaxRestarts /\ waitLeft \in 0..MaxDelay
      /\ healthyAge \in 0..HealthyReset /\ rtcCount \in 0..MaxRestarts
      /\ pendingRun \in 0..MaxDelay /\ healthyRun \in 0..ProvenReset
  BY RestartPolicyAssumption DEF RestartInit, PolicyInit
<1>3. RestartTypeOK
  BY <1>1, <1>2 DEF RestartInit, RestartTypeOK, PolicyTypeOK, Decisions
<1>4. CountersAgree /\ sickRestarts <= rtcCount
  BY DEF RestartInit, PolicyInit, CountersAgree
<1>5. WaitInv
  BY DEF RestartInit, PolicyInit, WaitInv
<1>6. HealthInv
  BY DEF RestartInit, PolicyInit, HealthInv
<1>7. QED
  BY <1>3, <1>4, <1>5, <1>6 DEF RowInv

\* Whatever count a boot finds in RTC memory, the boot leaves the loop at rest.
LEMMA BootRowInv ==
    ASSUME NEW count \in 0..MaxRestarts, Boot(count),
           sickRestarts' \in Nat, sickRestarts' <= count
    PROVE  RowInv'
<1>1. /\ scheduled' \in BOOLEAN /\ healthy' \in BOOLEAN
      /\ sampled' \in BOOLEAN /\ loopDue' \in BOOLEAN
  BY DEF Boot, PolicyBoot
<1>2. /\ consecutive' \in 0..MaxRestarts /\ waitLeft' \in 0..MaxDelay
      /\ healthyAge' \in 0..HealthyReset /\ rtcCount' \in 0..MaxRestarts
      /\ pendingRun' \in 0..MaxDelay /\ healthyRun' \in 0..ProvenReset
  BY RestartPolicyAssumption DEF Boot, PolicyBoot
<1>3. RestartTypeOK'
  BY <1>1, <1>2 DEF Boot, RestartTypeOK, PolicyTypeOK, Decisions
<1>4. CountersAgree' /\ sickRestarts' <= rtcCount'
  BY DEF Boot, PolicyBoot, CountersAgree
<1>5. WaitInv'
  BY DEF Boot, PolicyBoot, WaitInv
<1>6. HealthInv'
  BY DEF Boot, PolicyBoot, HealthInv
<1>7. QED
  BY <1>3, <1>4, <1>5, <1>6 DEF RowInv

LEMMA SampleRowInv ==
    ASSUME RowInv, NEW fresh \in BOOLEAN, LoopSample(fresh)
    PROVE  RowInv'
BY RestartPolicyAssumption
DEF LoopSample, policyVars, RowInv, RestartTypeOK, PolicyTypeOK, Decisions,
    CountersAgree, WaitInv, HealthInv

\* What update() computes, on the way to what it decides.
LEMMA UpdateValues ==
    ASSUME RowInv, NEW proven \in BOOLEAN, loopPc = "update"
    PROVE  /\ HealthyFor(sampled) \in 0..HealthyReset
           /\ CountAfter(sampled, proven) \in {0, consecutive}
           /\ CountAfter(sampled, proven) \in 0..MaxRestarts
           /\ CountAfter(sampled, proven) < MaxRestarts =>
                WaitAfter(sampled, proven) \in 0..MaxDelay
           /\ ClearsCounter(sampled, proven) => healthyRun >= ProvenReset
<1>1. HealthyFor(sampled) \in 0..HealthyReset
  BY RestartPolicyAssumption DEF HealthyFor, RowInv, RestartTypeOK, PolicyTypeOK
<1>2. /\ CountAfter(sampled, proven) \in {0, consecutive}
      /\ CountAfter(sampled, proven) \in 0..MaxRestarts
  BY RestartPolicyAssumption DEF CountAfter, RowInv, RestartTypeOK, PolicyTypeOK
<1>3. CountAfter(sampled, proven) < MaxRestarts =>
        WaitAfter(sampled, proven) \in 0..MaxDelay
  BY <1>2, RestartPolicyAssumption DEF WaitAfter, RowInv, RestartTypeOK, PolicyTypeOK
<1>4. ASSUME ClearsCounter(sampled, proven)
      PROVE  healthyRun >= ProvenReset
  <2>1. healthy /\ sampled /\ healthyAge >= ProvenReset
    BY <1>4, RestartPolicyAssumption
    DEF ClearsCounter, HealthyFor, RowInv, RestartTypeOK, PolicyTypeOK
  <2>2. QED
    BY <2>1, RestartPolicyAssumption DEF RowInv, RestartTypeOK, PolicyTypeOK, HealthInv
<1>5. QED
  BY <1>1, <1>2, <1>3, <1>4

LEMMA UpdateRowInv ==
    ASSUME RowInv, NEW requested \in BOOLEAN, NEW proven \in BOOLEAN,
           LoopUpdate(requested, proven)
    PROVE  RowInv'
<1> DEFINE count == CountAfter(sampled, proven)
           waits == DecisionOf(requested, sampled, proven) \in {"WAIT", "RESTART"}
<1>1. /\ HealthyFor(sampled) \in 0..HealthyReset
      /\ count \in {0, consecutive} /\ count \in 0..MaxRestarts
      /\ count < MaxRestarts => WaitAfter(sampled, proven) \in 0..MaxDelay
      /\ ClearsCounter(sampled, proven) => healthyRun >= ProvenReset
  BY UpdateValues DEF LoopUpdate
<1>2. waits => requested /\ count < MaxRestarts
  <2>1. ~requested => DecisionOf(requested, sampled, proven) = "NONE"
    BY DEF DecisionOf
  <2>2. requested /\ count >= MaxRestarts =>
          DecisionOf(requested, sampled, proven) = "DEGRADED"
    BY DEF DecisionOf
  <2>3. count >= MaxRestarts \/ count < MaxRestarts
    BY <1>1, RestartPolicyAssumption
  <2>4. QED
    BY <2>1, <2>2, <2>3
<1>3. /\ scheduled' \in BOOLEAN /\ healthy' \in BOOLEAN
      /\ sampled' \in BOOLEAN /\ loopDue' \in BOOLEAN
  <2>1. scheduled' \in BOOLEAN
    BY DEF LoopUpdate, PolicyUpdate
  <2>2. QED
    BY <2>1 DEF LoopUpdate, PolicyUpdate, RowInv, RestartTypeOK
<1>4. /\ consecutive' \in 0..MaxRestarts /\ healthyAge' \in 0..HealthyReset
      /\ healthyRun' \in 0..ProvenReset /\ sickRestarts' \in Nat
      /\ pendingRun' \in 0..MaxDelay
  BY <1>1, RestartPolicyAssumption DEF LoopUpdate, PolicyUpdate, RowInv, RestartTypeOK
<1>5. waitLeft' \in 0..MaxDelay
  BY <1>1, <1>2, RestartPolicyAssumption DEF LoopUpdate, PolicyUpdate
<1>6. rtcCount' = consecutive' /\ rtcCount' \in 0..MaxRestarts
  BY <1>4 DEF LoopUpdate, PolicyUpdate, CountAfter, RowInv, CountersAgree
<1>7. decision' \in Decisions /\ loopPc' \in {"sample", "restart"}
  BY DEF LoopUpdate, DecisionOf, Decisions
<1>8. RestartTypeOK'
  BY <1>3, <1>4, <1>5, <1>6, <1>7 DEF RestartTypeOK, PolicyTypeOK
<1>9. sickRestarts' <= rtcCount'
  <2>1. CASE ClearsCounter(sampled, proven)
    BY <1>1, <2>1, <1>6 DEF LoopUpdate
  <2>2. CASE ~ClearsCounter(sampled, proven)
    BY <2>2, <1>6 DEF LoopUpdate, RowInv, RestartTypeOK
  <2>3. QED
    BY <2>1, <2>2
<1>10. WaitInv'
  <2>1. ASSUME waits
        PROVE  pendingRun' + waitLeft' >= Delay[consecutive']
    <3>1. /\ consecutive' = count /\ pendingRun' = pendingRun
          /\ waitLeft' = WaitAfter(sampled, proven)
      BY <1>2, <2>1 DEF LoopUpdate, PolicyUpdate
    <3>2. CASE scheduled /\ count = consecutive
      BY <3>1, <3>2 DEF WaitAfter, RowInv, WaitInv
    <3>3. CASE ~scheduled
      BY <3>1, <3>3, <1>2, <2>1, <1>1, RestartPolicyAssumption
      DEF WaitAfter, RowInv, RestartTypeOK
    <3>4. CASE count = 0
      BY <3>1, <3>4, <1>4, <1>5, RestartPolicyAssumption
    <3>5. QED
      BY <1>1, <3>2, <3>3, <3>4
  <2>2. scheduled' = waits /\ decision' = DecisionOf(requested, sampled, proven)
    BY DEF LoopUpdate, PolicyUpdate
  <2>3. scheduled' => decision' # "NONE" /\ consecutive' < MaxRestarts
    <3>1. consecutive' = count
      BY DEF LoopUpdate, PolicyUpdate
    <3>2. waits => DecisionOf(requested, sampled, proven) # "NONE"
      OBVIOUS
    <3>3. QED
      BY <2>2, <1>2, <3>1, <3>2
  <2>4. ASSUME loopPc' = "restart"
        PROVE  scheduled' /\ waitLeft' = 0
    <3>1. DecisionOf(requested, sampled, proven) = "RESTART"
      BY <2>4, <2>2 DEF LoopUpdate
    <3>2. WaitAfter(sampled, proven) = 0
      BY <3>1 DEF DecisionOf
    <3>3. QED
      BY <3>1, <3>2, <2>2 DEF LoopUpdate, PolicyUpdate
  <2>5. QED
    BY <2>1, <2>2, <2>3, <2>4 DEF WaitInv
<1>11. HealthInv'
  <2>1. loopPc' # "update" => healthy' = sampled'
    BY DEF LoopUpdate, PolicyUpdate
  <2>2. ASSUME sampled
        PROVE  healthyRun >= HealthyFor(sampled) \/ healthyRun >= ProvenReset
    BY <2>2, RestartPolicyAssumption
    DEF HealthyFor, RowInv, HealthInv, RestartTypeOK, PolicyTypeOK
  <2>3. QED
    BY <2>1, <2>2 DEF HealthInv, LoopUpdate, PolicyUpdate
<1>12. QED
  BY <1>6, <1>8, <1>9, <1>10, <1>11 DEF RowInv, CountersAgree

LEMMA ElapseRowInv ==
    ASSUME RowInv, LoopElapse
    PROVE  RowInv'
<1>1. /\ loopPc' = "sample" /\ healthy = sampled
      /\ UNCHANGED <<consecutive, scheduled, healthy, rtcCount, sampled, decision, sickRestarts>>
  BY DEF LoopElapse, PolicyElapse, RowInv, HealthInv
<1>2. waitLeft' \in 0..MaxDelay /\ healthyAge' \in 0..HealthyReset
  BY RestartPolicyAssumption
  DEF LoopElapse, PolicyElapse, Sooner, Older, RowInv, RestartTypeOK, PolicyTypeOK
<1>3. pendingRun' \in 0..MaxDelay /\ healthyRun' \in 0..ProvenReset
  BY RestartPolicyAssumption DEF LoopElapse, Older, RowInv, RestartTypeOK
<1>4. RestartTypeOK'
  BY <1>1, <1>2, <1>3 DEF LoopElapse, RowInv, RestartTypeOK, PolicyTypeOK
<1>5. WaitInv'
  <2>1. ASSUME scheduled
        PROVE  pendingRun' + waitLeft' >= Delay[consecutive]
    <3>1. /\ decision # "NONE" /\ consecutive < MaxRestarts
          /\ pendingRun + waitLeft >= Delay[consecutive]
      BY <2>1 DEF RowInv, WaitInv
    <3>2. Delay[consecutive] \in 0..MaxDelay
      BY <3>1, RestartPolicyAssumption DEF RowInv, RestartTypeOK, PolicyTypeOK
    <3>3. /\ pendingRun' = Older(pendingRun, MaxDelay)
          /\ waitLeft' = Sooner(waitLeft)
      BY <3>1 DEF LoopElapse, PolicyElapse
    <3>4. QED
      BY <3>1, <3>2, <3>3, <1>2, <1>3, RestartPolicyAssumption
      DEF Older, Sooner, RowInv, RestartTypeOK, PolicyTypeOK
  <2>2. QED
    BY <2>1, <1>1 DEF RowInv, WaitInv
<1>6. HealthInv'
  <2>1. ASSUME healthy, sampled
        PROVE  healthyRun' >= healthyAge' \/ healthyRun' >= ProvenReset
    <3>1. healthyRun >= healthyAge \/ healthyRun >= ProvenReset
      BY <2>1 DEF RowInv, HealthInv
    <3>2. /\ healthyAge' = Older(healthyAge, HealthyReset)
          /\ healthyRun' = Older(healthyRun, ProvenReset)
      BY <2>1 DEF LoopElapse, PolicyElapse
    <3>3. QED
      BY <3>1, <3>2, RestartPolicyAssumption
      DEF Older, RowInv, RestartTypeOK, PolicyTypeOK
  <2>2. QED
    BY <2>1, <1>1 DEF HealthInv
<1>7. QED
  BY <1>1, <1>4, <1>5, <1>6 DEF RowInv, CountersAgree

LEMMA StepRowInv == RowInv /\ [RestartNext]_restartVars => RowInv'
<1> SUFFICES ASSUME RowInv, [RestartNext]_restartVars PROVE RowInv'
  OBVIOUS
<1>1. ASSUME NEW fresh \in BOOLEAN, LoopSample(fresh) PROVE RowInv'
  BY <1>1, SampleRowInv
<1>2. ASSUME NEW requested \in BOOLEAN, NEW proven \in BOOLEAN,
             LoopUpdate(requested, proven)
      PROVE  RowInv'
  BY <1>2, UpdateRowInv
<1>3. CASE LoopRestart
  <2>1. rtcCount < MaxRestarts /\ rtcCount \in Nat /\ rtcCount < 255
    BY <1>3, RestartPolicyAssumption
    DEF LoopRestart, RowInv, WaitInv, CountersAgree, RestartTypeOK
  <2>2. Boot(rtcCount + 1) /\ sickRestarts' = sickRestarts + 1
    BY <1>3, <2>1 DEF LoopRestart
  <2>3. rtcCount + 1 \in 0..MaxRestarts
    BY <2>1, RestartPolicyAssumption
  <2>4. sickRestarts' \in Nat /\ sickRestarts' <= rtcCount + 1
    BY <2>2, <2>1 DEF RowInv, RestartTypeOK
  <2>5. QED
    BY <2>2, <2>3, <2>4, BootRowInv
<1>4. CASE OtherReset
  BY <1>4, BootRowInv DEF OtherReset, RowInv, RestartTypeOK
<1>5. CASE PowerCycle
  <2>1. 0 \in 0..MaxRestarts
    BY RestartPolicyAssumption
  <2>2. QED
    BY <1>5, <2>1, BootRowInv DEF PowerCycle
<1>6. CASE LoopElapse
  BY <1>6, ElapseRowInv
<1>7. CASE UNCHANGED restartVars
  BY <1>7
  DEF restartVars, policyVars, loopVars, observerVars, RowInv, RestartTypeOK,
      PolicyTypeOK, CountersAgree, WaitInv, HealthInv
<1>8. QED
  BY <1>1, <1>2, <1>3, <1>4, <1>5, <1>6, <1>7 DEF RestartNext

\* The invariant holds throughout: the types of the policy and of the loop.
THEOREM RowInvariant == RestartSpec => []RowInv
BY InitRowInv, StepRowInv, PTL DEF RestartSpec

\* No counter of RestartPolicy.h and main.cpp passes its limit, and RAM and RTC
\* memory agree on the place in the row (restartPolicy, CrashDiag), resets included.
THEOREM RestartInvariant == RestartSpec => []RestartInv
<1>1. RowInv => RestartInv
  BY DEF RowInv, RestartInv
<1>2. QED
  BY <1>1, RowInvariant, PTL

\* The guard against boot loops holds for every number of restarts and whatever
\* the UPS, the watchdogs and the user do in between.
THEOREM NoBootLoop == RestartSpec => []SickRestartsBounded
<1>1. RowInv => SickRestartsBounded
  BY RestartPolicyAssumption
  DEF RowInv, SickRestartsBounded, RestartTypeOK, CountersAgree, WaitInv
<1>2. QED
  BY <1>1, RowInvariant, PTL

\* No restart comes before its delay has passed with the request pending.
THEOREM NoEarlyRestart == RestartSpec => []RestartWaitedOut
<1>1. RowInv => RestartWaitedOut
  BY RestartPolicyAssumption
  DEF RowInv, RestartWaitedOut, RestartTypeOK, CountersAgree, WaitInv
<1>2. QED
  BY <1>1, RowInvariant, PTL

------------------------------------------------------------------------------
\* The RAM of the poll task after a boot, as a state of its own.
Booted ==
    /\ \E afterRestart \in BOOLEAN : UsbInit(afterRestart)
    /\ plugged \in BOOLEAN /\ mode \in {"ok", "err", "mute"}

LEMMA BootedInv == Booted => UsbBounds
BY InitInv DEF Booted

LEMMA ResetIsBoot ==
    ASSUME UsbBounds, ResetBoard
    PROVE  Booted'
<1>1. PICK afterRestart \in BOOLEAN : UsbReset(afterRestart)
  <2>1. UsbReset(rtcCount' > 0)
    BY DEF ResetBoard
  <2>2. (rtcCount' > 0) \in BOOLEAN
    OBVIOUS
  <2>3. QED
    BY Zenon, <2>1, <2>2
<1>2. (LinkInit /\ DescInit /\ CycleInit /\ EnumInit(afterRestart))'
  BY <1>1 DEF UsbReset, LinkReset, LinkInit, DescClear, DescInit, CycleBoot, CycleInit,
              EnumBoot, EnumInit
<1>3. UsbInit(afterRestart)'
  BY <1>1, <1>2 DEF UsbReset, UsbInit
<1>4. plugged' \in BOOLEAN /\ mode' \in {"ok", "err", "mute"}
  BY DEF ResetBoard, deviceVars, UsbBounds, UsbTypeOK, FlagsTypeOK
<1>5. QED
  BY <1>3, <1>4 DEF Booted

\* Every step of the firmware keeps the types of the poll task.
LEMMA RecoveryStepInv == UsbBounds /\ [RecoveryNext]_recoveryVars => UsbBounds'
<1>1. ASSUME UsbBounds, UsbStep PROVE UsbBounds'
  BY <1>1, DeviceInv, PollTaskInv, ReportInv DEF UsbStep
<1>2. ASSUME UsbBounds, LoopStep PROVE UsbBounds'
  BY <1>2, StutterInv DEF LoopStep
<1>3. ASSUME UsbBounds, ResetBoard PROVE UsbBounds'
  <2>1. Booted'
    BY <1>3, ResetIsBoot
  <2>2. Booted' => UsbBounds'
    BY BootedInv, PTL
  <2>3. QED
    BY <2>1, <2>2
<1>4. ASSUME UsbBounds, Elapse PROVE UsbBounds'
  BY <1>4, TickInv DEF Elapse
<1>5. ASSUME UsbBounds, UNCHANGED recoveryVars PROVE UsbBounds'
  BY <1>5, StutterInv DEF recoveryVars
<1>6. QED
  BY <1>1, <1>2, <1>3, <1>4, <1>5 DEF RecoveryNext

\* Every step of the firmware is a step of ControlledRestart, or leaves it alone.
LEMMA StepImplements ==
    UsbBounds /\ [RecoveryNext]_recoveryVars => [RestartNext]_restartVars
<1> SUFFICES ASSUME UsbBounds, [RecoveryNext]_recoveryVars
             PROVE  [RestartNext]_restartVars
  OBVIOUS
<1>0. restartRequested \in BOOLEAN
  BY DEF UsbBounds, UsbTypeOK, FlagsTypeOK
<1>1. CASE UsbStep
  BY <1>1 DEF UsbStep
<1>2. CASE LoopStep
  BY <1>0, <1>2 DEF LoopStep, RestartNext, Served, Proven
<1>3. CASE ResetBoard
  BY <1>3 DEF ResetBoard, RestartNext
<1>4. CASE Elapse
  BY <1>4 DEF Elapse, RestartNext
<1>5. CASE UNCHANGED recoveryVars
  BY <1>5 DEF recoveryVars
<1>6. QED
  BY <1>1, <1>2, <1>3, <1>4, <1>5 DEF RecoveryNext

LEMMA RecoveryInitInv == RecoveryInit => UsbBounds /\ RestartInit
BY InitInv DEF RecoveryInit

\* The firmware as a whole (poll task, loopTask, resets) implements the
\* specification of its controlled restarts.
THEOREM ImplementsControlledRestart == RecoverySpec => RestartSpec
BY RecoveryInitInv, RecoveryStepInv, StepImplements, PTL DEF RecoverySpec, RestartSpec

\* No boot loop in the firmware: whatever the UPS, the cable and the USB stack
\* do, the board never restarts itself more than MaxRestarts times in a row.
THEOREM FirmwareNoBootLoop == RecoverySpec => []SickRestartsBounded
BY ImplementsControlledRestart, NoBootLoop, PTL

\* And never before the delay of the restart has passed.
THEOREM FirmwareNoEarlyRestart == RecoverySpec => []RestartWaitedOut
BY ImplementsControlledRestart, NoEarlyRestart, PTL

\* The data the firmware serves are live, across the resets too: a reset leaves
\* no interface ready.
LEMMA RecoveryStepFresh == UsbBounds /\ FreshInv /\ [RecoveryNext]_recoveryVars => FreshInv'
<1> SUFFICES ASSUME UsbBounds, FreshInv, [RecoveryNext]_recoveryVars PROVE FreshInv'
  OBVIOUS
<1>1. CASE UsbStep
  <2>1. [Next]_usbVars
    BY <1>1 DEF UsbStep, Next
  <2>2. QED
    BY <2>1, FreshNext
<1>2. CASE LoopStep \/ UNCHANGED recoveryVars
  <2>1. UNCHANGED usbVars
    BY <1>2 DEF LoopStep, recoveryVars
  <2>2. QED
    BY <2>1, FreshNext
<1>3. CASE ResetBoard
  <2>1. ~ready'
    BY <1>3 DEF ResetBoard, UsbReset
  <2>2. QED
    BY <2>1 DEF FreshInv
<1>4. CASE Elapse
  BY <1>4, FreshTick DEF Elapse
<1>5. QED
  BY <1>1, <1>2, <1>3, <1>4 DEF RecoveryNext

\* isDataStale() in the firmware as a whole.
THEOREM FirmwareServesFresh ==
    ASSUME StaleAfter >= 2
    PROVE  RecoverySpec => []ServedFresh
<1>1. RecoveryInit => UsbBounds /\ FreshInv
  <2>1. RecoveryInit => ~ready
    BY DEF RecoveryInit, UsbInit
  <2>2. QED
    BY <2>1, RecoveryInitInv DEF FreshInv
<1>2. UsbBounds /\ FreshInv => ServedFresh
  BY FreshMeansServedFresh
<1>3. QED
  BY <1>1, <1>2, RecoveryStepInv, RecoveryStepFresh, PTL DEF RecoverySpec

------------------------------------------------------------------------------
(* The row of restarts ends by live data, and never while the watchdog of   *)
(* the enumeration is armed: data come from an interface that is claimed,   *)
(* so from a device the poll task has seen enumerated, and it looks at the  *)
(* watchdog before it polls.                                                *)

WatchdogFirst ==
    /\ ready \/ descPending \/ pollPc = "desc" => enumSeen
    /\ pollPc = "main" /\ enumSeen => ~enumArmed
    /\ firstData => ~enumArmed

LEMMA WatchdogFirstInit ==
    ASSUME NEW afterRestart \in BOOLEAN, UsbInit(afterRestart)
    PROVE  WatchdogFirst
BY DEF UsbInit, DescInit, WatchdogFirst

LEMMA ClaimWatchdog ==
    ASSUME ClaimInterface
    PROVE  firstData' => firstData
<1>1. CASE ClaimFails
  BY <1>1 DEF ClaimFails, serveVars
<1>2. CASE ClaimSucceeds
  BY <1>2 DEF ClaimSucceeds
<1>3. QED
  BY <1>1, <1>2 DEF ClaimInterface

LEMMA WatchdogFirstUsb ==
    ASSUME UsbBounds, WatchdogFirst, DeviceNext \/ PollTaskNext \/ ProcessInputReport
    PROVE  WatchdogFirst'
<1>0. /\ enumSeen \in BOOLEAN /\ enumArmed \in BOOLEAN /\ ready \in BOOLEAN
      /\ firstData \in BOOLEAN
  BY DEF UsbBounds, UsbTypeOK, FlagsTypeOK, EnumTypeOK
<1>1. CASE DeviceNext \/ ProcessInputReport
  BY <1>1 DEF DeviceNext, Unplug, Plug, Enumerate, EnumerationCancelled, TransferError, ChangeMode,
              ProcessInputReport, taskVars, serveVars, descVars, enumVars, WatchdogFirst
<1>2. CASE HandleConnected
  <2>1. enumSeen' = TRUE /\ pollPc' = "events" /\ enumArmed' = enumArmed
    BY <1>2 DEF HandleConnected, NextEvent, enumVars
  <2>2. firstData' => firstData
    BY <1>2, ClaimWatchdog DEF HandleConnected
  <2>3. QED
    BY <2>1, <2>2 DEF WatchdogFirst
<1>3. CASE RetryDescriptor
  <2>1. enumSeen /\ enumSeen' = enumSeen /\ enumArmed' = enumArmed /\ pollPc' = AfterDesc
    BY <1>3 DEF RetryDescriptor, enumVars, WatchdogFirst
  <2>2. firstData' => firstData
    BY <1>3, ClaimWatchdog DEF RetryDescriptor
  <2>3. QED
    BY <2>1, <2>2 DEF AfterDesc, WatchdogFirst
<1>4. CASE HandleOpenFailed \/ HandleDisconnected \/ HandleTransferError
  <2>1. pollPc' = "events" /\ firstData' = firstData /\ enumArmed' = enumArmed
    BY <1>4 DEF HandleOpenFailed, HandleDisconnected, HandleTransferError, NextEvent, serveVars,
                enumVars
  <2>2. (ready' => ready) /\ (descPending' => descPending) /\ (enumSeen => enumSeen')
    BY <1>0, <1>4 DEF HandleOpenFailed, HandleDisconnected, HandleTransferError, NextEvent,
                      serveVars, descVars, DescClear
  <2>3. QED
    BY <2>1, <2>2 DEF WatchdogFirst
<1>5. CASE EventsDone
  BY <1>5 DEF EventsDone, AfterDesc, DescDue, serveVars, descVars, enumVars, WatchdogFirst
<1>6. CASE ServiceEnumWatchdog
  <2>1. enumArmed' = (enumArmed /\ ~Enumerated) /\ pollPc' = "main"
    BY <1>6 DEF ServiceEnumWatchdog, EnumTicked
  <2>2. UNCHANGED <<ready, firstData, descPending, enumSeen>>
    BY <1>6 DEF ServiceEnumWatchdog, serveVars, descVars
  <2>3. QED
    BY <2>1, <2>2 DEF Enumerated, WatchdogFirst
<1>7. CASE \/ RetryInterfaceStart \/ PortCycleOver \/ PortCycleNotBack \/ ServiceIdle
           \/ LinkRecover \/ LinkExhausted \/ RecoverStuckTransfer
  <2>1. UNCHANGED <<firstData, descPending, enumSeen, enumArmed>> /\ (ready' => ready)
    BY <1>0, <1>7 DEF RetryInterfaceStart, PortCycleOver, PortCycleNotBack, ServiceIdle, LinkRecover,
                LinkExhausted, RecoverStuckTransfer, taskVars, serveVars, descVars, enumVars
  <2>2. pollPc' = "events" \/ pollPc' = pollPc
    BY <1>7 DEF RetryInterfaceStart, PortCycleOver, PortCycleNotBack, ServiceIdle, LinkRecover,
                LinkExhausted, RecoverStuckTransfer, ServiceEnds, taskVars
  <2>3. QED
    BY <2>1, <2>2 DEF WatchdogFirst
<1>8. CASE Poll
  <2>1. pollPc = "main" /\ ready /\ ready' = ready /\ pollPc' = "events"
    BY <1>8 DEF Poll, PastWait, ServiceEnds
  <2>2. UNCHANGED <<descPending, enumSeen, enumArmed>>
    BY <1>8 DEF Poll, descVars, enumVars
  <2>3. QED
    BY <2>1, <2>2 DEF WatchdogFirst
<1>9. QED
  BY <1>1, <1>2, <1>3, <1>4, <1>5, <1>6, <1>7, <1>8 DEF PollTaskNext

\* What the loopTask saw, and when.
SeenInv ==
    /\ sampled => ~enumArmed
    /\ loopPc = "update" /\ sampled => silentAge < StaleAfter

RowEndInv ==
    /\ UsbBounds /\ FreshInv /\ RowInv
    /\ WatchdogFirst /\ SeenInv /\ ArmedInRow

LEMMA ArmedFalls ==
    ASSUME UsbBounds, DeviceNext \/ PollTaskNext \/ ProcessInputReport
    PROVE  /\ enumArmed' => enumArmed
           /\ silentAge' = silentAge \/ silentAge' = 0
<1>1. enumArmed' => enumArmed
  <2>1. CASE ServiceEnumWatchdog
    BY <2>1 DEF ServiceEnumWatchdog, EnumTicked
  <2>2. CASE ~ServiceEnumWatchdog
    <3>1. UNCHANGED enumVars
      BY <2>2 DEF DeviceNext, Unplug, Plug, Enumerate, EnumerationCancelled, TransferError, ChangeMode,
                  ProcessInputReport, PollTaskNext, HandleConnected, HandleOpenFailed,
                  HandleDisconnected, HandleTransferError, EventsDone, RetryDescriptor,
                  RetryInterfaceStart, PortCycleOver, PortCycleNotBack, ServiceIdle, LinkRecover,
                  LinkExhausted, RecoverStuckTransfer, Poll
    <3>2. QED
      BY <3>1 DEF enumVars
  <2>3. QED
    BY <2>1, <2>2
<1>2. silentAge' = silentAge \/ silentAge' = 0
  <2>1. Request => silentAge' = silentAge \/ silentAge' = 0
    BY DEF Request
  <2>2. ClaimInterface => silentAge' = silentAge \/ silentAge' = 0
    BY DEF ClaimInterface, ClaimFails, ClaimSucceeds
  <2>3. CASE HandleConnected \/ RetryDescriptor
    BY <2>2, <2>3 DEF HandleConnected, RetryDescriptor
  <2>4. CASE HandleTransferError \/ Poll
    BY <2>1, <2>4 DEF HandleTransferError, Poll
  <2>5. CASE DeviceNext \/ ProcessInputReport
    BY <2>5 DEF DeviceNext, Unplug, Plug, Enumerate, EnumerationCancelled, TransferError, ChangeMode,
                ProcessInputReport
  <2>6. CASE \/ HandleOpenFailed \/ HandleDisconnected \/ EventsDone \/ ServiceEnumWatchdog
             \/ RetryInterfaceStart \/ PortCycleOver \/ PortCycleNotBack \/ ServiceIdle
             \/ LinkRecover \/ LinkExhausted \/ RecoverStuckTransfer
    BY <2>6 DEF HandleOpenFailed, HandleDisconnected, EventsDone, ServiceEnumWatchdog,
                RetryInterfaceStart, PortCycleOver, PortCycleNotBack, ServiceIdle, LinkRecover,
                LinkExhausted, RecoverStuckTransfer
  <2>7. QED
    BY <2>3, <2>4, <2>5, <2>6 DEF PollTaskNext
<1>3. QED
  BY <1>1, <1>2

LEMMA RowEndStep ==
    ASSUME StaleAfter >= 2, RowEndInv, [RecoveryNext]_recoveryVars
    PROVE  RowEndInv'
<1>1. UsbBounds' /\ FreshInv'
  BY RecoveryStepInv, RecoveryStepFresh DEF RowEndInv
<1>2. RowInv'
  <2>1. [RestartNext]_restartVars
    BY StepImplements DEF RowEndInv
  <2>2. QED
    BY <2>1, StepRowInv DEF RowEndInv
<1>3. WatchdogFirst' /\ SeenInv' /\ ArmedInRow'
  <2> USE DEF RowEndInv
  <2>a. enumArmed \in BOOLEAN /\ sampled \in BOOLEAN /\ silentAge \in Nat /\ StaleAfter \in Nat
    BY LadderNat, LinkMonitorAssumption DEF UsbBounds, UsbTypeOK, EnumTypeOK, RowInv, RestartTypeOK
  <2>1. CASE UsbStep
    <3>1. UNCHANGED <<sampled, loopPc, rtcCount>>
      BY <2>1 DEF UsbStep, restartVars, loopVars
    <3>2. DeviceNext \/ PollTaskNext \/ ProcessInputReport
      BY <2>1 DEF UsbStep
    <3>3. (enumArmed' => enumArmed) /\ (silentAge' = silentAge \/ silentAge' = 0)
      BY <3>2, ArmedFalls
    <3>4. WatchdogFirst'
      BY <3>2, WatchdogFirstUsb
    <3>5. QED
      BY <2>a, <3>1, <3>3, <3>4 DEF SeenInv, ArmedInRow
  <2>2. CASE LoopSample(Served) /\ UNCHANGED usbVars
    <3>1. sampled' = Served /\ rtcCount' = rtcCount
      BY <2>2 DEF LoopSample
    <3>2. UNCHANGED <<enumVars, descVars, taskVars, silentAge>>
      BY <2>2 DEF usbVars
    <3>3. Served => ~enumArmed /\ silentAge < StaleAfter
      BY FreshMeansServedFresh DEF Served, ServedFresh, WatchdogFirst
    <3>4. QED
      BY <3>1, <3>2, <3>3
      DEF enumVars, descVars, taskVars, serveVars, SeenInv, ArmedInRow, WatchdogFirst
  <2>3. CASE LoopUpdate(restartRequested, Proven) /\ UNCHANGED usbVars
    <3>1. UNCHANGED <<enumVars, descVars, taskVars, silentAge>>
      BY <2>3 DEF usbVars
    <3>2. sampled' = sampled /\ loopPc' # "update"
      BY <2>3 DEF LoopUpdate
    <3>3. rtcCount' = rtcCount \/ sampled
      BY <2>3 DEF LoopUpdate, ClearsCounter
    <3>4. QED
      BY <3>1, <3>2, <3>3
      DEF enumVars, descVars, taskVars, serveVars, SeenInv, ArmedInRow, WatchdogFirst
  <2>4. CASE ResetBoard
    <3>1. sampled' = FALSE
      BY <2>4 DEF ResetBoard, LoopRestart, OtherReset, PowerCycle, Boot
    <3>2. UsbReset(rtcCount' > 0)
      BY <2>4 DEF ResetBoard
    <3>3. enumArmed' = (rtcCount' > 0) /\ ~ready' /\ ~firstData' /\ ~descPending' /\ pollPc' = "events"
      BY <3>2 DEF UsbReset, EnumBoot, DescClear
    <3>4. QED
      BY <3>1, <3>3 DEF SeenInv, ArmedInRow, WatchdogFirst
  <2>5. CASE Elapse
    <3>1. UNCHANGED <<sampled, loopPc, rtcCount>> /\ loopPc = "sample"
      BY <2>5 DEF Elapse, LoopElapse
    <3>2. UNCHANGED <<enumArmed, descPending, pollPc, ready, firstData, enumSeen>>
      BY <2>5 DEF Elapse, Tick, EnumElapse, DescElapse
    <3>3. QED
      BY <3>1, <3>2 DEF SeenInv, ArmedInRow, WatchdogFirst
  <2>6. CASE UNCHANGED recoveryVars
    BY <2>6 DEF recoveryVars, usbVars, restartVars, loopVars, enumVars, descVars, taskVars, serveVars,
                SeenInv, ArmedInRow, WatchdogFirst
  <2>7. QED
    BY <2>1, <2>2, <2>3, <2>4, <2>5, <2>6 DEF RecoveryNext, LoopStep
<1>4. QED
  BY <1>1, <1>2, <1>3 DEF RowEndInv

LEMMA RowEndInit == RecoveryInit => RowEndInv
<1> SUFFICES ASSUME RecoveryInit PROVE RowEndInv
  OBVIOUS
<1>1. UsbInit(FALSE) /\ RestartInit
  BY DEF RecoveryInit
<1>2. UsbBounds /\ RowInv
  BY <1>1, RecoveryInitInv, InitRowInv
<1>3. ~ready /\ enumArmed = FALSE
  BY <1>1 DEF UsbInit, EnumInit
<1>4. WatchdogFirst
  BY <1>1, WatchdogFirstInit
<1>5. sampled = FALSE
  BY <1>1 DEF RestartInit
<1>6. QED
  BY <1>2, <1>3, <1>4, <1>5 DEF RowEndInv, FreshInv, SeenInv, ArmedInRow

\* serviceEnumWatchdog() only acts in a row of restarts: takeCleared() never ends the
\* row of a boot whose watchdog still waits for an enumeration.
THEOREM WatchdogInRow ==
    ASSUME StaleAfter >= 2
    PROVE  RecoverySpec => []ArmedInRow
<1>1. RowEndInv => ArmedInRow
  BY DEF RowEndInv
<1>2. RowEndInv /\ [RecoveryNext]_recoveryVars => RowEndInv'
  BY RowEndStep
<1>3. QED
  BY <1>1, <1>2, RowEndInit, PTL DEF RecoverySpec

\* trackHealth() and main.cpp: the counter in RTC memory is only cleared on data that
\* are live at that moment and were fresh for ProvenReset.
THEOREM RowEndsByLiveData ==
    ASSUME StaleAfter >= 2
    PROVE  RecoverySpec => RowEndsLive
<1>1. RowEndInv /\ RowEndInv' /\ [RecoveryNext]_recoveryVars =>
        [ rtcCount > 0 /\ loopPc = "update" /\ ~loopDue' /\ rtcCount' = 0 =>
            silentAge < StaleAfter /\ healthyRun >= ProvenReset ]_recoveryVars
  <2> SUFFICES ASSUME RowEndInv, [RecoveryNext]_recoveryVars, rtcCount > 0, loopPc = "update",
                      ~loopDue', rtcCount' = 0
               PROVE  silentAge < StaleAfter /\ healthyRun >= ProvenReset
    OBVIOUS
  <2>1. rtcCount' # rtcCount
    OBVIOUS
  <2>2. ~ResetBoard
    BY DEF ResetBoard, LoopRestart, OtherReset, PowerCycle, Boot
  <2>3. LoopUpdate(restartRequested, Proven)
    BY <2>1, <2>2 DEF RecoveryNext, UsbStep, LoopStep, LoopSample, Elapse, LoopElapse, recoveryVars,
                      restartVars, loopVars
  <2>4. ClearsCounter(sampled, Proven)
    BY <2>1, <2>3 DEF LoopUpdate
  <2>5. sampled /\ silentAge < StaleAfter
    BY <2>4 DEF ClearsCounter, RowEndInv, SeenInv
  <2>6. HealthyFor(sampled) >= ProvenReset /\ HealthyFor(sampled) \in {0, healthyAge}
    <3>1. HealthyFor(sampled) \in {0, healthyAge} /\ healthyAge \in Nat
      BY RestartPolicyAssumption DEF HealthyFor, RowEndInv, RowInv, RestartTypeOK, PolicyTypeOK
    <3>2. HealthyFor(sampled) >= ProvenReset
      <4>1. CASE Proven
        BY <2>4, <4>1 DEF ClearsCounter
      <4>2. CASE ~Proven
        <5>1. HealthyFor(sampled) >= HealthyReset
          BY <2>4, <4>2 DEF ClearsCounter
        <5>2. ProvenReset \in Nat /\ HealthyReset \in Nat /\ ProvenReset <= HealthyReset
          BY RestartPolicyAssumption
        <5>3. HealthyFor(sampled) \in Nat
          BY <3>1
        <5>4. QED
          BY <5>1, <5>2, <5>3
      <4>3. QED
        BY <4>1, <4>2
    <3>3. QED
      BY <3>1, <3>2
  <2>7. healthy /\ healthyAge >= ProvenReset
    BY <2>6, RestartPolicyAssumption DEF HealthyFor
  <2>8. healthyRun >= ProvenReset
    BY <2>5, <2>7, RestartPolicyAssumption
    DEF RowEndInv, RowInv, HealthInv, RestartTypeOK, PolicyTypeOK
  <2>9. QED
    BY <2>5, <2>8
<1>2. RowEndInv /\ [RecoveryNext]_recoveryVars => RowEndInv'
  BY RowEndStep
<1>3. QED
  BY <1>1, <1>2, RowEndInit, PTL DEF RecoverySpec, RowEndsLive

==============================================================================
