------------------------------ MODULE USBHostUPS ------------------------------
(****************************************************************************)
(* The connection to the UPS (lib/USBHostUPS/src/USBHostUPS.cpp): the poll  *)
(* task, which alone handles the interface and its recovery, the HID driver *)
(* and the USB stack under it, and a device that may be unplugged, answer   *)
(* with errors or not answer at all.                                        *)
(*                                                                          *)
(* The poll task runs service() every 10 ms; pollPc says how far it is.  A  *)
(* step of the device or of the HID task may come between any two of its    *)
(* steps.  Control requests block, and are answered or not in one step.     *)
(* One HID interface: the handle is only present or not (claimed).          *)
(****************************************************************************)
EXTENDS LinkMonitor, DescriptorRetry, EnumWatchdog, PortCyclePolicy, Sequences

CONSTANTS
    MaxInRecoveries,     \* MAX_IN_RECOVERIES
    MaxInStartAttempts,  \* MAX_IN_START_ATTEMPTS
    FirstDataMax,        \* FIRST_DATA_MAX_MS
    InterruptPipe,       \* the device has no QUIRK_NO_INTERRUPT_PIPE
    EventBound,          \* bound: events of the HID task not handled yet
    Faults               \* what may go wrong in the environment

FaultKinds == {"unplug",      \* the cable is pulled and put back
               "err",         \* requests fail at once, for a while
               "mute",        \* requests time out, for a while
               "in_error",    \* the transfers of the interrupt pipe fail
               "cancel",      \* the stack cancels an enumeration
               "open",        \* the HID driver cannot open the interface
               "power",       \* switching the root port fails
               "reset"}       \* resets the firmware does not decide (UsbRecovery)

ASSUME USBHostUPSAssumption ==
    /\ MaxInRecoveries \in Nat
    /\ MaxInStartAttempts \in Nat \ {0}
    /\ FirstDataMax \in Nat
    /\ InterruptPipe \in BOOLEAN
    /\ EventBound \in Nat \ {0}
    /\ Faults \subseteq FaultKinds

VARIABLES
    plugged,    \* the cable is in
    mode,       \* how the device takes requests: "ok", "err" or "mute"
    port,       \* the root port: "detached", "open" (the HID driver holds the
                \* interface), "closed" (enumerated, interface not held), "dead"
                \* (enumeration cancelled) or "off"
    urbStuck,   \* ctrl_inflight outside a request
    inActive,   \* an IN transfer is submitted
    events      \* _event_queue

deviceVars == <<plugged, mode>>
stackVars == <<port, urbStuck, inActive>>

VARIABLES
    pollPc,            \* where service() is: "events", "desc", "enum" or "main"
    pollDue,           \* service() has not run to its end since the last tick
    claimed,           \* _hid_dev_handle # NULL
    ready,             \* _is_ready_to_poll
    firstData,         \* _first_data_ready
    claimAge,          \* now - _claimed_at
    getOk,             \* _get_ok_since_claim > 0
    inPending,         \* _in_restart_pending
    inAttempts,        \* _in_start_attempts
    inRecoveries,      \* _in_recoveries
    restartRequested,  \* _restart_requested
    restartReason,     \* _restart_reason
    enumSeen,          \* _enum_seen
    silentAge          \* observer: ticks since the claim or the last answer

serveVars == <<ready, firstData, claimAge, getOk>>
inVars == <<inPending, inAttempts, inRecoveries>>
requestVars == <<restartRequested, restartReason>>
taskVars == <<pollPc, pollDue, claimed, serveVars, inVars, requestVars, enumSeen>>
usbVars == <<deviceVars, stackVars, events, taskVars, silentAge,
             linkVars, descVars, enumVars, cycleVars>>

\* Without an answer for this long the ladder has no rung left.
LadderLength == (MaxLinkRecoveries + 1) * LinkTimeout

Events == {"CONNECTED", "OPEN_FAILED", "DISCONNECTED", "TRANSFER_ERROR"}
Reasons == {"", "descriptor", "in_errors", "not_enumerated", "in_start",
            "not_back", "no_answer", "stuck_again", "too_many"}

FlagsTypeOK ==
    /\ plugged \in BOOLEAN /\ urbStuck \in BOOLEAN /\ inActive \in BOOLEAN
    /\ pollDue \in BOOLEAN /\ claimed \in BOOLEAN /\ ready \in BOOLEAN
    /\ firstData \in BOOLEAN /\ getOk \in BOOLEAN /\ inPending \in BOOLEAN
    /\ restartRequested \in BOOLEAN /\ enumSeen \in BOOLEAN

UsbTypeOK ==
    /\ LinkTypeOK /\ DescTypeOK /\ EnumTypeOK /\ CycleTypeOK
    /\ FlagsTypeOK
    /\ mode \in {"ok", "err", "mute"}
    /\ port \in {"detached", "open", "closed", "dead", "off"}
    /\ events \in Seq(Events) /\ Len(events) <= EventBound + 1
    /\ pollPc \in {"events", "desc", "enum", "main"}
    /\ claimAge \in 0..FirstDataMax
    /\ inAttempts \in 0..MaxInStartAttempts
    /\ inRecoveries \in 0..(MaxInRecoveries + 1)
    /\ restartReason \in Reasons
    /\ silentAge \in 0..LadderLength

\* RAM and the USB stack after a reset; `afterRestart': the RTC counter is not 0.
UsbInit(afterRestart) ==
    /\ LinkInit /\ DescInit /\ CycleInit /\ EnumInit(afterRestart)
    /\ port = "detached" /\ urbStuck = FALSE /\ inActive = FALSE /\ events = <<>>
    /\ pollPc = "events" /\ pollDue = TRUE
    /\ claimed = FALSE
    /\ ready = FALSE /\ firstData = FALSE /\ claimAge = 0 /\ getOk = FALSE
    /\ inPending = FALSE /\ inAttempts = 0 /\ inRecoveries = 0
    /\ restartRequested = FALSE /\ restartReason = ""
    /\ enumSeen = FALSE
    /\ silentAge = 0

UsbReset(afterRestart) ==
    /\ LinkReset /\ DescClear /\ CycleBoot /\ EnumBoot(afterRestart)
    /\ port' = "detached" /\ urbStuck' = FALSE /\ inActive' = FALSE /\ events' = <<>>
    /\ pollPc' = "events" /\ pollDue' = TRUE
    /\ claimed' = FALSE
    /\ ready' = FALSE /\ firstData' = FALSE /\ claimAge' = 0 /\ getOk' = FALSE
    /\ inPending' = FALSE /\ inAttempts' = 0 /\ inRecoveries' = 0
    /\ restartRequested' = FALSE /\ restartReason' = ""
    /\ enumSeen' = FALSE
    /\ silentAge' = 0

------------------------------------------------------------------------------
(****************************************************************************)
(* What the rest of the firmware reads.                                     *)
(****************************************************************************)

\* isDataStale() is FALSE: NUT clients, the web page and the automatic shutdown
\* take the values as live.
Served == ready /\ firstData /\ ~restartRequested /\ ~LinkIsStale

\* isControlPipeProven()
Proven == ready /\ firstData /\ getOk /\ ~LinkFailing

------------------------------------------------------------------------------
(****************************************************************************)
(* The device and the USB stack.                                            *)
(****************************************************************************)

\* The interface the poll task holds, or is about to claim, is still there.
Reachable == port = "open" /\ ~\E i \in DOMAIN events : events[i] = "DISCONNECTED"

\* A control request to the interface gets an answer.
Answers == Reachable /\ mode = "ok" /\ ~urbStuck

Room == Len(events) < EventBound

\* Mutant: without a reserved slot the DISCONNECTED finds no room.
DeviceGoneUnnoticed(newPort) ==
    /\ port' = newPort
    /\ urbStuck' = FALSE
    /\ inActive' = FALSE
    /\ events' = IF port = "open" /\ events = <<>> THEN <<"DISCONNECTED">> ELSE events

\* The device leaves the bus.  The stack hands a stuck URB back.
DeviceGone(newPort) ==
    /\ port' = newPort
    /\ urbStuck' = FALSE
    /\ inActive' = FALSE
    /\ events' = IF port = "open" THEN Append(events, "DISCONNECTED") ELSE events

Unplug ==
    /\ "unplug" \in Faults /\ Room
    /\ plugged /\ plugged' = FALSE
    /\ DeviceGone(IF port = "off" THEN "off" ELSE "detached")
    /\ UNCHANGED <<mode, taskVars, silentAge, linkVars, descVars, enumVars, cycleVars>>

Plug ==
    /\ ~plugged /\ plugged' = TRUE
    /\ UNCHANGED <<mode, stackVars, events, taskVars, silentAge,
                   linkVars, descVars, enumVars, cycleVars>>

\* The stack enumerates the device and the HID driver reports the interface:
\* handle_driver_event() opens it and posts the outcome.
Enumerate ==
    /\ plugged /\ port = "detached" /\ mode # "mute" /\ Room
    /\ \/ port' = "open" /\ events' = Append(events, "CONNECTED")
       \/ "open" \in Faults /\ port' = "closed" /\ events' = Append(events, "OPEN_FAILED")
    /\ UNCHANGED <<deviceVars, urbStuck, inActive, taskVars, silentAge,
                   linkVars, descVars, enumVars, cycleVars>>

\* The stack gives up an enumeration and leaves the port disabled until a detach.
EnumerationCancelled ==
    /\ "cancel" \in Faults
    /\ plugged /\ port = "detached" /\ port' = "dead"
    /\ UNCHANGED <<deviceVars, urbStuck, inActive, events, taskVars, silentAge,
                   linkVars, descVars, enumVars, cycleVars>>

\* The device changes how it takes requests.  A late answer returns the URB.
ChangeMode(m) ==
    /\ m \in {"ok"} \union (Faults \intersect {"err", "mute"})
    /\ m # mode /\ mode' = m
    /\ urbStuck' = FALSE
    /\ UNCHANGED <<plugged, port, inActive, events, taskVars, silentAge,
                   linkVars, descVars, enumVars, cycleVars>>

\* The transfer of the interrupt pipe comes back with an error: the HID task
\* posts TRANSFER_ERROR and submits no other.  Once between two polls at most.
TransferError ==
    /\ "in_error" \in Faults /\ Room
    /\ inActive /\ ~pollDue
    /\ inActive' = FALSE
    /\ events' = Append(events, "TRANSFER_ERROR")
    /\ UNCHANGED <<deviceVars, port, urbStuck, taskVars, silentAge,
                   linkVars, descVars, enumVars, cycleVars>>

DeviceNext ==
    \/ Unplug \/ Plug \/ Enumerate \/ EnumerationCancelled \/ TransferError
    \/ \E m \in {"ok", "err", "mute"} : ChangeMode(m)

------------------------------------------------------------------------------
(****************************************************************************)
(* Parts of service(), each with the variables it sets.                     *)
(****************************************************************************)

\* A control request and noteControlResult().  Sets linkVars, urbStuck, silentAge.
Request ==
    IF Answers
    THEN LinkAlive /\ silentAge' = 0 /\ UNCHANGED urbStuck
    ELSE /\ LinkFailure /\ UNCHANGED silentAge
         /\ urbStuck' = (urbStuck \/ (Reachable /\ mode = "mute"))

\* requestRestart(): the first reason stays.  Sets requestVars.
RequestRestart(why) ==
    IF restartRequested THEN UNCHANGED requestVars
    ELSE restartRequested' = TRUE /\ restartReason' = why

\* Mutant: the interface is stopped and not started again.
RecoverInterfaceStops ==
    /\ inActive' = FALSE
    /\ inAttempts' = 0
    /\ UNCHANGED inPending

\* recoverInterface(), but for the CLEAR_FEATURE request some callers add: the IN
\* transfer is flushed and a new start is due.  Sets inActive, inPending, inAttempts.
RecoverInterface ==
    /\ inActive' = FALSE
    /\ inPending' = TRUE
    /\ inAttempts' = 0

\* hid_host_device_start() succeeds only on an interface that is there.  It may
\* fail there too, until the HID task has handed the flushed transfer back.
\* Sets inActive.
StartSucceeds == Reachable /\ inActive' = TRUE
StartFails == UNCHANGED inActive

\* claimInterface() on a device that does not answer the read of its report
\* descriptor.  After the last attempt the interface is closed.
ClaimFails ==
    /\ ~Answers
    /\ DescFailure
    /\ LET stuck == urbStuck \/ (Reachable /\ mode = "mute")
       IN  /\ urbStuck' = stuck
           /\ IF LastDescAttempt
              THEN /\ port' = IF Reachable THEN "closed" ELSE port
                   /\ inActive' = FALSE
                   /\ IF stuck /\ ~claimed THEN RequestRestart("descriptor")
                                           ELSE UNCHANGED requestVars
              ELSE UNCHANGED <<port, inActive, requestVars>>
    /\ UNCHANGED <<claimed, serveVars, inVars, linkVars, silentAge>>

\* claimInterface() on a device that answers.
ClaimSucceeds ==
    /\ Answers
    /\ DescClear
    /\ LinkReset
    /\ claimed' = TRUE
    /\ ready' = TRUE
    /\ firstData' = FALSE /\ claimAge' = 0 /\ getOk' = FALSE
    /\ inRecoveries' = 0
    /\ restartRequested' = FALSE /\ restartReason' = ""
    /\ \/ StartSucceeds /\ inPending' = FALSE /\ UNCHANGED inAttempts
       \/ StartFails /\ inPending' = TRUE /\ inAttempts' = 0
    /\ silentAge' = 0
    /\ UNCHANGED <<port, urbStuck>>

ClaimInterface == ClaimFails \/ ClaimSucceeds

\* cycleRootPort(): the stack drops the device and the port is on again.  It
\* stays as it was if it cannot be switched off, off if it cannot be switched on.
\* Sets stackVars and events.
CycleRootPort ==
    \/ DeviceGone("detached")
    \/ "power" \in Faults /\ DeviceGone("off")
    \/ "power" \in Faults /\ UNCHANGED <<stackVars, events>>

------------------------------------------------------------------------------
(****************************************************************************)
(* processEvents(): the events in order, until the queue is empty.          *)
(****************************************************************************)

NextEvent(type) ==
    /\ pollPc = "events"
    /\ events # <<>> /\ Head(events) = type
    /\ events' = Tail(events)
    /\ pollDue' = TRUE
    /\ UNCHANGED pollPc

HandleConnected ==
    /\ NextEvent("CONNECTED")
    /\ enumSeen' = TRUE
    /\ ClaimInterface
    /\ UNCHANGED <<deviceVars, enumVars, cycleVars>>

HandleOpenFailed ==
    /\ NextEvent("OPEN_FAILED")
    /\ enumSeen' = TRUE
    /\ UNCHANGED <<deviceVars, stackVars, claimed, serveVars, inVars, requestVars,
                   silentAge, linkVars, descVars, enumVars, cycleVars>>

HandleDisconnected ==
    /\ NextEvent("DISCONNECTED")
    /\ DescClear
    /\ claimed' = FALSE
    /\ IF claimed THEN ready' = FALSE /\ inPending' = FALSE ELSE UNCHANGED <<ready, inPending>>
    /\ UNCHANGED <<deviceVars, stackVars, firstData, claimAge, getOk, inAttempts,
                   inRecoveries, requestVars, enumSeen, silentAge,
                   linkVars, enumVars, cycleVars>>

HandleTransferError ==
    /\ NextEvent("TRANSFER_ERROR")
    /\ IF InterruptPipe /\ claimed /\ ready /\ ~inPending /\ ~restartRequested
       THEN /\ inRecoveries' = inRecoveries + 1
            /\ IF inRecoveries' > MaxInRecoveries
               THEN /\ RequestRestart("in_errors")
                    /\ UNCHANGED <<inActive, inPending, inAttempts,
                                   urbStuck, silentAge, linkVars>>
               ELSE RecoverInterface /\ Request /\ UNCHANGED requestVars
       ELSE UNCHANGED <<inActive, inVars, requestVars, urbStuck, silentAge, linkVars>>
    /\ UNCHANGED <<deviceVars, port, claimed, serveVars, enumSeen,
                   descVars, enumVars, cycleVars>>

\* An INPUT report: the interrupt pipe works.  The values it carries are left out.
ProcessInputReport ==
    /\ pollPc = "events"
    /\ InterruptPipe /\ inActive /\ claimed
    /\ inRecoveries > 0 /\ inRecoveries' = 0
    /\ UNCHANGED <<deviceVars, stackVars, events, pollPc, pollDue, claimed, serveVars,
                   inPending, inAttempts, requestVars, enumSeen, silentAge,
                   linkVars, descVars, enumVars, cycleVars>>

AfterDesc == IF enumArmed THEN "enum" ELSE "main"

EventsDone ==
    /\ pollPc = "events"
    /\ events = <<>>
    /\ pollDue \/ inPending
    /\ pollPc' = IF DescDue THEN "desc" ELSE AfterDesc
    /\ UNCHANGED <<deviceVars, stackVars, events, pollDue, claimed, serveVars, inVars,
                   requestVars, enumSeen, silentAge, linkVars, descVars, enumVars, cycleVars>>

------------------------------------------------------------------------------
(****************************************************************************)
(* The rest of service().                                                   *)
(****************************************************************************)

\* Another read of the report descriptor, 2 s after the last.
RetryDescriptor ==
    /\ pollPc = "desc"
    /\ ClaimInterface
    /\ pollPc' = AfterDesc
    /\ UNCHANGED <<deviceVars, events, pollDue, enumSeen, enumVars, cycleVars>>

\* Mutant: only the events of the HID driver tell.
EnumeratedByEvent == enumSeen

\* A device enumerated since the boot: usb_host_lib_info() counts it, too.
Enumerated == enumSeen \/ port \in {"open", "closed"}

\* serviceEnumWatchdog()
ServiceEnumWatchdog ==
    LET enumerated == Enumerated
        action == EnumTick(enumerated)
    IN  /\ pollPc = "enum"
        /\ EnumTicked(enumerated)
        /\ IF action = "CYCLE_PORT" THEN CycleRootPort ELSE UNCHANGED <<stackVars, events>>
        /\ IF action = "REQUEST_RESTART" THEN RequestRestart("not_enumerated")
                                         ELSE UNCHANGED requestVars
        /\ pollPc' = "main"
        /\ UNCHANGED <<deviceVars, pollDue, claimed, serveVars, inVars, enumSeen,
                       silentAge, linkVars, descVars, cycleVars>>

\* service() returns.
ServiceEnds ==
    /\ pollPc' = "events"
    /\ pollDue' = FALSE

\* retryInterfaceStart(), every 50 ms: the rest of service() waits for the pipe.
RetryInterfaceStart ==
    /\ pollPc = "main" /\ ~restartRequested /\ inPending
    /\ \/ /\ StartSucceeds
          /\ inPending' = FALSE
          /\ UNCHANGED <<inAttempts, requestVars>>
       \/ /\ StartFails
          /\ inAttempts' = inAttempts + 1
          /\ inPending' = (inAttempts' < MaxInStartAttempts)
          /\ IF inPending' THEN UNCHANGED requestVars ELSE RequestRestart("in_start")
    /\ pollPc' = "events"
    /\ UNCHANGED <<deviceVars, port, urbStuck, events, pollDue, claimed, serveVars,
                   inRecoveries, enumSeen, silentAge, linkVars, descVars, enumVars, cycleVars>>

\* servicePortCycleWait(): the device is back after a port cycle ...
PortCycleOver ==
    /\ pollPc = "main" /\ ~restartRequested /\ ~inPending
    /\ waiting /\ Proven
    /\ CycleProven
    /\ UNCHANGED <<deviceVars, stackVars, events, taskVars, silentAge,
                   linkVars, descVars, enumVars>>

\* ... or it is not, in time.
PortCycleNotBack ==
    /\ pollPc = "main" /\ ~restartRequested /\ ~inPending
    /\ ~Proven /\ BackTimedOut
    /\ CycleTimeoutReported
    /\ RequestRestart("not_back")
    /\ ServiceEnds
    /\ UNCHANGED <<deviceVars, stackVars, events, claimed, serveVars, inVars, enumSeen,
                   silentAge, linkVars, descVars, enumVars>>

\* service() goes past servicePortCycleWait().
PastWait ==
    /\ pollPc = "main" /\ ~restartRequested /\ ~inPending
    /\ ~(waiting /\ Proven) /\ (Proven \/ ~BackTimedOut)

\* Nothing to do: a restart is waited for, or no interface is ready.
ServiceIdle ==
    /\ pollPc = "main"
    /\ restartRequested \/ (PastWait /\ ~ready)
    /\ ServiceEnds
    /\ UNCHANGED <<deviceVars, stackVars, events, claimed, serveVars, inVars, requestVars,
                   enumSeen, silentAge, linkVars, descVars, enumVars, cycleVars>>

\* The ladder: the interface is restarted, the data stay as old as they are.
LinkRecover ==
    /\ PastWait /\ ready /\ LinkTick(urbStuck) = "RECOVER"
    /\ LinkRecovering
    /\ RecoverInterface
    /\ ServiceEnds
    /\ UNCHANGED <<deviceVars, port, urbStuck, events, claimed, serveVars, inRecoveries,
                   requestVars, enumSeen, silentAge, descVars, enumVars, cycleVars>>

\* The ladder is over.
LinkExhausted ==
    /\ PastWait /\ ready /\ LinkTick(urbStuck) = "RESTART" /\ ~urbStuck
    /\ RequestRestart("no_answer")
    /\ ServiceEnds
    /\ UNCHANGED <<deviceVars, stackVars, events, claimed, serveVars, inVars, enumSeen,
                   silentAge, linkVars, descVars, enumVars, cycleVars>>

\* recoverStuckTransfer(): the root port is switched off and on, or a restart
\* asked for if that has just been tried, or tried too often.
RecoverStuckTransfer ==
    /\ PastWait /\ ready /\ LinkTick(urbStuck) = "RESTART" /\ urbStuck
    /\ IF OnStuck = "CYCLE_PORT"
       THEN /\ CycleStarted /\ CycleRootPort
            /\ ready' = FALSE
            /\ LinkReset
            /\ UNCHANGED requestVars
       ELSE /\ RequestRestart(OnStuck)
            /\ UNCHANGED <<stackVars, events, ready, linkVars, cycleVars>>
    /\ ServiceEnds
    /\ UNCHANGED <<deviceVars, claimed, firstData, claimAge, getOk, inVars, enumSeen,
                   silentAge, descVars, enumVars>>

\* Mutant: the first data are waited for without a limit.
AlwaysAwaitsFirstData == TRUE

\* The first full poll may still be waited for.
AwaitsFirstData == claimAge < FirstDataMax

\* _driver->loop(): a request, unless the backoff forbids it.  An answer may be a
\* STALL, without data.  Then the first full poll is over, or waited for no more.
Poll ==
    /\ PastWait /\ ready /\ LinkTick(urbStuck) = "NONE"
    /\ IF CanPoll THEN Request ELSE UNCHANGED <<linkVars, urbStuck, silentAge>>
    /\ getOk' \in {getOk} \union (IF CanPoll /\ Answers THEN {TRUE} ELSE {})
    /\ firstData' \in {TRUE} \union (IF AwaitsFirstData THEN {firstData} ELSE {})
    /\ ServiceEnds
    /\ UNCHANGED <<deviceVars, port, inActive, events, claimed, ready, claimAge, inVars,
                   requestVars, enumSeen, descVars, enumVars, cycleVars>>

PollTaskNext ==
    \/ HandleConnected \/ HandleOpenFailed \/ HandleDisconnected \/ HandleTransferError
    \/ EventsDone \/ RetryDescriptor \/ ServiceEnumWatchdog \/ RetryInterfaceStart
    \/ PortCycleOver \/ PortCycleNotBack \/ ServiceIdle
    \/ LinkRecover \/ LinkExhausted \/ RecoverStuckTransfer \/ Poll

\* A tick of millis(), after at least one service() since the last.  The ages the
\* poll task does not look at meanwhile stay as they are.
Tick ==
    /\ pollPc = "events" /\ ~pollDue /\ ~inPending
    /\ pollDue' = TRUE
    /\ DescElapse /\ EnumElapse /\ CycleElapse
    /\ IF ready
       THEN /\ LinkElapse
            /\ silentAge' = Older(silentAge, LadderLength)
            /\ claimAge' = IF firstData THEN claimAge ELSE Older(claimAge, FirstDataMax)
       ELSE UNCHANGED <<linkVars, silentAge, claimAge>>
    /\ UNCHANGED <<deviceVars, stackVars, events, pollPc, claimed, ready, firstData, getOk,
                   inVars, requestVars, enumSeen>>

Init ==
    /\ plugged = TRUE
    /\ mode = "ok"
    /\ \E afterRestart \in BOOLEAN : UsbInit(afterRestart)

Next == DeviceNext \/ PollTaskNext \/ ProcessInputReport \/ Tick

Spec == Init /\ [][Next]_usbVars

\* The poll task keeps running, time passes, and a device on the bus enumerates.
Fairness ==
    /\ WF_usbVars(PollTaskNext)
    /\ SF_usbVars(Tick)
    /\ WF_usbVars(Enumerate)

FairSpec == Spec /\ Fairness

------------------------------------------------------------------------------
\* The values served as live are live: the device answered, or was claimed, less
\* than the stale limit ago (isDataStale(), whatever port cycles, recoveries of
\* the interrupt pipe and pauses of the polling come in between).
ServedFresh == Served => silentAge < StaleAfter

\* No interface is lost between the HID driver, the event queue and the poll
\* task: one the driver holds is claimed, about to be, or has an event pending,
\* and one the task still holds after its loss has its DISCONNECTED pending.
Pending(type) == \E i \in DOMAIN events : events[i] = type
InterfaceAccounted ==
    /\ port = "open" => claimed \/ descPending \/ Pending("CONNECTED")
    /\ (claimed \/ descPending) /\ port # "open" => Pending("DISCONNECTED")

\* The interrupt pipe of an interface in use is never left idle: its transfer is
\* submitted, its error is in the queue, or a new start or a restart is due.
InPipeRestarted ==
    claimed /\ ready /\ Reachable =>
        inActive \/ Pending("TRANSFER_ERROR") \/ inPending \/ restartRequested \/ ~InterruptPipe

\* What events, claims and recoveries keep true of the interface, in whatever order the
\* poll task, the HID task and the device take their steps (USBHostUPS.cpp).
UsbInv == UsbTypeOK /\ InterfaceAccounted /\ InPipeRestarted

\* The poll task cuts off a device the stack has enumerated only to free a stuck
\* transfer, after StuckRestart without an answer: never because the watchdog of
\* the enumeration missed its event.
CycleEarned ==
    [][ plugged' /\ port \in {"open", "closed"} /\ port' \in {"detached", "off"} =>
        ready /\ urbStuck /\ silentAge >= StuckRestart ]_usbVars

\* A restart is only asked for a cause that a restart may remove, and after the
\* milder recoveries had their time: the whole ladder without an answer, a
\* transfer stuck for StuckRestart, nothing enumerated, ...
RestartEarned ==
    [][ ~restartRequested /\ restartRequested' =>
        CASE restartReason' = "no_answer" -> silentAge >= LadderLength
          [] restartReason' \in {"stuck_again", "too_many"} ->
               urbStuck /\ silentAge >= StuckRestart
          [] restartReason' = "descriptor" -> urbStuck' /\ ~Served
          [] restartReason' = "not_enumerated" -> port \notin {"open", "closed"}
          [] restartReason' = "not_back" -> ~Proven
          [] OTHER -> restartReason' \in {"in_errors", "in_start"} ]_usbVars

\* A link that stops answering is not left at that: it answers again, or the
\* interface goes away, or a restart is asked for.
FailureEscalates == (ready /\ LinkFailing) ~> (~ready \/ ~LinkFailing \/ restartRequested)

\* A transfer stuck in the stack does not stay there: the device answers late,
\* the port is cycled, or a restart is asked for.
StuckReleased == urbStuck ~> (~urbStuck \/ restartRequested)

\* A device that stays attached and answers ends up served, unless the stack
\* gave it up, or a restart is asked for, which is then the way back.
AttachedServed ==
    <>[](plugged /\ mode = "ok") =>
    []<>(Served \/ restartRequested \/ port \in {"dead", "closed", "off"})

\* The same without the excuse of an interface that was given up:
\* EnumWatchdog.h: "whatever happens later is the job of the link recovery".
EnumeratedRecovers ==
    <>[](plugged /\ mode = "ok") =>
    []<>(Served \/ restartRequested \/ port \in {"dead", "off"})

==============================================================================
