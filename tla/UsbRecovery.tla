------------------------------ MODULE UsbRecovery ------------------------------
(****************************************************************************)
(* The recovery of a lost UPS, from the first failed request to the restart *)
(* of the board: the poll task (USBHostUPS) and the loopTask                *)
(* (ControlledRestart) in one firmware.  The loopTask reads the state of    *)
(* the poll task without a lock, in two looks (isDataStale() before the     *)
(* arguments of update()); a reset empties the RAM of both and enumerates   *)
(* the device anew; RTC memory decides if the enumeration watchdog is armed.*)
(****************************************************************************)
EXTENDS USBHostUPS, ControlledRestart

recoveryVars == <<usbVars, restartVars>>

RecoveryInit ==
    /\ plugged = TRUE
    /\ mode = "ok"
    /\ UsbInit(FALSE)
    /\ RestartInit

UsbStep == (DeviceNext \/ PollTaskNext \/ ProcessInputReport) /\ UNCHANGED restartVars

LoopStep ==
    \/ LoopSample(Served) /\ UNCHANGED usbVars
    \/ LoopUpdate(restartRequested, Proven) /\ UNCHANGED usbVars

\* Mutant: every boot arms the watchdog.
ResetBoardArmsAlways ==
    /\ \/ LoopRestart
       \/ "reset" \in Faults /\ (OtherReset \/ PowerCycle)
    /\ UsbReset(TRUE)
    /\ UNCHANGED deviceVars

\* Mutant: every reset counts as a controlled restart.
ResetBoardCountsAll ==
    /\ \/ LoopRestart
       \/ "reset" \in Faults /\ Boot(rtcCount + 1) /\ UNCHANGED sickRestarts
    /\ UsbReset(rtcCount' > 0)
    /\ UNCHANGED deviceVars

\* begin() arms the watchdog if the RTC counter is not 0.  The UPS keeps its power.
ResetBoard ==
    /\ \/ LoopRestart
       \/ "reset" \in Faults /\ (OtherReset \/ PowerCycle)
    /\ UsbReset(rtcCount' > 0)
    /\ UNCHANGED deviceVars

Elapse == Tick /\ LoopElapse

RecoveryNext == UsbStep \/ LoopStep \/ ResetBoard \/ Elapse

RecoverySpec == RecoveryInit /\ [][RecoveryNext]_recoveryVars

\* Both tasks keep running, time passes, a device on the bus enumerates, and a
\* restart decided by the loopTask comes.
RecoveryFairSpec ==
    /\ RecoverySpec
    /\ WF_recoveryVars(PollTaskNext /\ UNCHANGED restartVars)
    /\ WF_recoveryVars(LoopStep)
    /\ WF_recoveryVars(loopPc = "restart" /\ ResetBoard)
    /\ SF_recoveryVars(Elapse)
    /\ WF_recoveryVars(Enumerate /\ UNCHANGED restartVars)

------------------------------------------------------------------------------
\* The watchdog of the enumeration only runs in a row of restarts: the row does
\* not end (takeCleared()) while a boot still waits for its first enumeration.
ArmedInRow == enumArmed => rtcCount > 0

\* The row of restarts only ends by live data: when loop() clears the counter in
\* RTC memory, the device has answered within the stale limit and the data have
\* been fresh for ProvenReset, although the two looks are at different moments.
RowEndsLive ==
    [][ rtcCount > 0 /\ loopPc = "update" /\ ~loopDue' /\ rtcCount' = 0 =>
        silentAge < StaleAfter /\ healthyRun >= ProvenReset ]_recoveryVars

\* A restart asked for by the poll task comes, or the request is withdrawn, or
\* the row is at its end and the board stays up in degraded mode.
RequestAnswered ==
    restartRequested ~> (loopPc = "restart" \/ ~restartRequested \/ decision = "DEGRADED")

\* A reset of the board that is not a decision of the loopTask.
ForeignReset ==
    /\ OtherReset \/ PowerCycle
    /\ UsbReset(rtcCount' > 0)
    /\ UNCHANGED deviceVars

\* A UPS that stays attached and answers again comes back by itself, through the
\* port cycles and the restarts it takes, whatever resets came before, unless
\* the row of restarts was over, or its interface was given up.
UpsComesBack ==
    <>[](plugged /\ mode = "ok") /\ <>[][~ForeignReset]_recoveryVars =>
    []<>(Served \/ decision = "DEGRADED" \/ port \in {"dead", "closed", "off"})

==============================================================================
