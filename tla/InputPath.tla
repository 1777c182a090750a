------------------------------ MODULE InputPath ------------------------------
(****************************************************************************)
(* The way of an INPUT report (lib/USBHostUPS/src/USBHostUPS.cpp): the HID  *)
(* task receives packets and lifecycle events and posts them to a queue;    *)
(* the poll task, back from a request that kept it away, handles them,      *)
(* joins the packets to reports and watches for silence.  A device sends    *)
(* when it likes, its pipe fails, its cable is pulled and put back.         *)
(****************************************************************************)
EXTENDS InputWatchdog, InputReassembler

CONSTANTS
    QueueLen,      \* EVENT_QUEUE_LEN
    Reserved,      \* EVENT_QUEUE_RESERVED
    MaxInRecoveries, \* MAX_IN_RECOVERIES
    Devices,       \* the UPSes: lengths of the reports, covered when the driver polls
                   \* every value of them, and pause, a bound on its pauses
    MaxAway,       \* bound: ticks the poll task is away in a blocking request
    MaxOthers      \* bound: recoveries of the interface other than for silence

ASSUME InputPathAssumption ==
    /\ {QueueLen, Reserved, MaxInRecoveries, MaxAway, MaxOthers} \subseteq Nat
    /\ Reserved < QueueLen
    /\ Devices \subseteq [lengths : (SUBSET (1..MaxReport)) \ {{}}, covered : BOOLEAN,
                           pause : Nat]
    /\ \A d \in Devices : SilenceFactor * (d.pause - 1) + MaxAway <= AgeLimit
    /\ MinSilence + MaxAway <= AgeLimit
    /\ 2 * MaxAway < SilenceRetry /\ 2 * MaxAway < MinSilence
    /\ \A d \in Devices : MaxAway < d.pause
    /\ MaxGap + MaxAway < GapCap /\ MaxGap < AgeLimit
    /\ MaxSilenceRecoveries < MaxOthers

VARIABLES
    device,     \* the one at hand
    attached,   \* the cable is in
    pipe,       \* an IN transfer is submitted
    stream,     \* the packet the device sends next: part of a report of length len
    cut,        \* packets before the next one were lost
    heard       \* ticks since the HID task last received a packet

deviceVars == <<device, attached, pipe, stream, cut, heard>>

VARIABLES
    queue,            \* _event_queue
    pollPc,           \* the poll task: "away", in "events" or past them ("main")
    awayAge,          \* ticks it is away
    claimed,          \* _hid_dev_handle # NULL, _is_ready_to_poll
    restartPending,   \* _in_restart_pending
    restartRequested, \* _restart_requested
    inRecoveries,     \* _in_recoveries
    listsBuilt        \* _lists_built of the driver

pollVars == <<queue, pollPc, awayAge, claimed, restartPending, restartRequested,
              inRecoveries, listsBuilt>>

VARIABLES
    decoded,    \* observer: the packets of the report just decoded
    excused,    \* observer: packets were lost and the reports are not aligned again
    others      \* observer: recoveries for another cause since the last packet

observers == <<decoded, excused, others>>
inputVars == <<inWdVars, reassemblerVars, deviceVars, pollVars, observers>>

Parts(len) == (len + Mps - 1) \div Mps
FirstParts == {[len |-> n, part |-> 1] : n \in device.lengths}
Following == IF stream.part < Parts(stream.len)
             THEN {[stream EXCEPT !.part = @ + 1]} ELSE FirstParts

Lifecycle == {"CONNECTED", "DISCONNECTED", "TRANSFER_ERROR"}
IsInput(ev) == ev.type = "INPUT_REPORT"
Pending(type) == \E i \in DOMAIN queue : queue[i].type = type

InputTypeOK ==
    /\ InWdTypeOK
    /\ Len(assembly) <= MaxReport \div Mps
    /\ assemblyAge \in 0..GapCap
    /\ stream.part \in 1..Parts(stream.len)
    /\ {attached, pipe, cut, claimed, restartPending, restartRequested,
        listsBuilt, excused} \subseteq BOOLEAN
    /\ heard \in 0..AgeLimit
    /\ Len(queue) <= QueueLen
    /\ \A i \in DOMAIN queue : IsInput(queue[i]) => i <= QueueLen - Reserved
    /\ pollPc \in {"away", "events", "main"} /\ awayAge \in 0..MaxAway
    /\ inRecoveries \in 0..(MaxInRecoveries + 1)
    /\ others \in 0..MaxOthers

InputInit ==
    /\ intervals = <<>> /\ haveBurst = FALSE /\ burstAge = 0 /\ inputAge = 0
    /\ silent = FALSE /\ silenceRecoveries = 0 /\ silenceWindow = 0
    /\ assembly = <<>> /\ assemblyAge = 0
    /\ device \in Devices
    /\ attached = FALSE /\ pipe = FALSE /\ cut = FALSE /\ heard = 0
    /\ stream \in FirstParts
    /\ queue = <<>> /\ pollPc = "away" /\ awayAge = 0
    /\ claimed = FALSE /\ restartPending = FALSE /\ restartRequested = FALSE
    /\ inRecoveries = 0 /\ listsBuilt = FALSE
    /\ decoded = <<>> /\ excused = FALSE /\ others = 0

-------------------------------------------------------------------------------
(* The device and the HID task.                                            *)

\* Mutant: an INPUT report takes a slot of the reserve.
RoomOneMore(q) == QueueLen - Len(q) >= Reserved

\* postEvent() keeps the reserved slots free of INPUT reports.
Room(q) == QueueLen - Len(q) > Reserved
PostReserved(ev) == queue' = IF Len(queue) < QueueLen THEN Append(queue, ev) ELSE queue

\* Bound: a device pauses no longer than this, so that its intervals are exact, unless
\* it is a silence, whose interval is not kept.
SampleExact ==
    ~haveBurst \/ burstAge < device.pause \/ (IsPeriodic /\ burstAge >= SilenceThreshold)

\* A packet comes in.  The first byte of a continuation may be the ID of any report.
Receive(expected) ==
    /\ pipe /\ SampleExact
    /\ stream.part = 1 => expected = stream.len
    /\ LET late == stream.part > 1 /\ heard > MaxGap
           left == stream.len - Mps * (stream.part - 1)
           packet == [type |-> "INPUT_REPORT", age |-> 0, len |-> stream.len,
                      part |-> stream.part, size |-> IF left < Mps THEN left ELSE Mps,
                      expected |-> expected, lost |-> cut \/ late,
                      paused |-> heard > MaxGap]
       IN  /\ queue' = IF Room(queue) THEN Append(queue, packet) ELSE queue
           /\ cut' = ~Room(queue)
    /\ stream' \in Following /\ heard' = 0
    /\ UNCHANGED <<inWdVars, reassemblerVars, observers, device, attached, pipe,
                   pollPc, awayAge, claimed, restartPending, restartRequested,
                   inRecoveries, listsBuilt>>

\* The device ends a transfer with an error, and nothing submits the next.
InError ==
    /\ pipe /\ pipe' = FALSE
    /\ PostReserved([type |-> "TRANSFER_ERROR"])
    /\ UNCHANGED <<inWdVars, reassemblerVars, observers, device, attached, stream,
                   cut, heard, pollPc, awayAge, claimed, restartPending, restartRequested,
                   inRecoveries, listsBuilt>>

Unplug ==
    /\ attached /\ attached' = FALSE /\ pipe' = FALSE
    /\ PostReserved([type |-> "DISCONNECTED"])
    /\ UNCHANGED <<inWdVars, reassemblerVars, observers, device, stream, cut,
                   heard, pollPc, awayAge, claimed, restartPending, restartRequested,
                   inRecoveries, listsBuilt>>

\* An enumeration takes longer than the poll task needs to see the removal.
Plug ==
    /\ ~attached /\ ~claimed /\ ~Pending("DISCONNECTED")
    /\ attached' = TRUE /\ cut' = FALSE
    /\ stream' \in FirstParts
    /\ PostReserved([type |-> "CONNECTED"])
    /\ UNCHANGED <<inWdVars, reassemblerVars, observers, device, pipe, heard,
                   pollPc, awayAge, claimed, restartPending, restartRequested,
                   inRecoveries, listsBuilt>>

-------------------------------------------------------------------------------
(* The poll task: service().                                               *)

\* Packets still queued belong to the stream before the restart.
Straddled ==
    LET left == \E i \in DOMAIN queue : IsInput(queue[i])
    IN  cut' = left /\ excused' = (excused \/ left)

\* Mutant: the packets before a restart of the interface stay in the assembly.
RecoverKeepsAssembly ==
    /\ pipe' = FALSE
    /\ UNCHANGED reassemblerVars
    /\ restartPending' = TRUE
    /\ listsBuilt' = FALSE
    /\ Straddled
    /\ pollPc' = "away" /\ awayAge' = 0

\* recoverInterface(): the endpoint is flushed and its halt cleared, which may block, and
\* the driver starts anew.
RecoverInterface ==
    /\ pipe' = FALSE
    /\ ReassemblerReset
    /\ restartPending' = TRUE
    /\ listsBuilt' = FALSE
    /\ Straddled
    /\ pollPc' = "away" /\ awayAge' = 0

Away == pollPc' = "away" /\ awayAge' = 0

Wake ==
    /\ pollPc = "away" /\ pollPc' = "events" /\ awayAge' = 0
    /\ decoded' = <<>>
    /\ UNCHANGED <<inWdVars, reassemblerVars, deviceVars, queue, claimed, restartPending,
                   restartRequested, inRecoveries, listsBuilt, excused, others>>

NextEvent(type) ==
    /\ pollPc = "events" /\ queue # <<>> /\ Head(queue).type = type
    /\ queue' = Tail(queue)

\* claimInterface(), whose start of the pipe fails when the device is gone again.
HandleConnected ==
    /\ NextEvent("CONNECTED")
    /\ claimed' = TRUE /\ InWdReset /\ ReassemblerReset
    /\ pipe' = attached /\ restartPending' = ~attached
    /\ restartRequested' = FALSE /\ inRecoveries' = 0 /\ listsBuilt' = FALSE
    /\ decoded' = <<>> /\ excused' = FALSE /\ others' = 0 /\ heard' = 0
    /\ UNCHANGED <<device, attached, stream, cut, pollPc, awayAge>>

\* processInputReport()
HandleInput ==
    /\ NextEvent("INPUT_REPORT") /\ claimed
    /\ inRecoveries' = 0
    /\ LET p == Head(queue) IN
       /\ OnInput(p.age)
       /\ Feed(p, p.age)
       /\ decoded' = IF ReportEnds(p, p.age) THEN ReportOf(p, p.age) ELSE <<>>
       /\ excused' = (~(p.part = 1 /\ ~Joins(p.age)) /\ (excused \/ p.lost))
    /\ others' = 0
    /\ UNCHANGED <<deviceVars, pollPc, awayAge, claimed, restartPending, restartRequested,
                   listsBuilt>>

HandleDisconnected ==
    /\ NextEvent("DISCONNECTED")
    /\ claimed' = FALSE /\ restartPending' = FALSE
    /\ decoded' = <<>>
    /\ UNCHANGED <<inWdVars, reassemblerVars, deviceVars, pollPc, awayAge, restartRequested,
                   inRecoveries, listsBuilt, excused, others>>

Acts == claimed /\ ~restartPending /\ ~restartRequested

HandleErrorIgnored ==
    /\ NextEvent("TRANSFER_ERROR") /\ ~Acts
    /\ decoded' = <<>>
    /\ UNCHANGED <<inWdVars, reassemblerVars, deviceVars, pollPc, awayAge, claimed,
                   restartPending, restartRequested, inRecoveries, listsBuilt, excused, others>>

HandleErrorRecovers ==
    /\ NextEvent("TRANSFER_ERROR") /\ Acts /\ inRecoveries < MaxInRecoveries
    /\ inRecoveries' = inRecoveries + 1
    /\ RecoverInterface
    /\ decoded' = <<>> /\ others' = Older(others, MaxOthers)
    /\ UNCHANGED <<inWdVars, device, attached, stream, heard, claimed,
                   restartRequested>>

HandleErrorRestarts ==
    /\ NextEvent("TRANSFER_ERROR") /\ Acts /\ inRecoveries = MaxInRecoveries
    /\ inRecoveries' = inRecoveries + 1 /\ restartRequested' = TRUE
    /\ decoded' = <<>>
    /\ UNCHANGED <<inWdVars, reassemblerVars, deviceVars, pollPc, awayAge, claimed,
                   restartPending, listsBuilt, excused, others>>

EventsDone ==
    /\ pollPc = "events" /\ queue = <<>> /\ pollPc' = "main"
    /\ decoded' = <<>>
    /\ UNCHANGED <<inWdVars, reassemblerVars, deviceVars, queue, awayAge, claimed,
                   restartPending, restartRequested, inRecoveries, listsBuilt, excused, others>>

\* Nothing to do, or the interface cannot be started (its device is gone).
ServiceReturns ==
    /\ pollPc = "main" /\ (~claimed \/ restartRequested \/ (restartPending /\ ~attached))
    /\ Away
    /\ UNCHANGED <<inWdVars, reassemblerVars, deviceVars, queue, claimed, restartPending,
                   restartRequested, inRecoveries, listsBuilt, observers>>

\* retryInterfaceStart(): the device goes on with its report or starts another.
StartAgain ==
    /\ pollPc = "main" /\ claimed /\ ~restartRequested /\ restartPending /\ attached
    /\ restartPending' = FALSE /\ pipe' = TRUE
    /\ stream' \in {stream} \cup FirstParts
    /\ cut' = (cut \/ stream'.part > 1)
    /\ Away
    /\ UNCHANGED <<inWdVars, reassemblerVars, device, attached, heard, queue,
                   claimed, restartRequested, inRecoveries, listsBuilt, observers>>

\* Mutant: the watchdog is not told what the poll covers.
PolledNever == FALSE

\* inputValuesPolled(): known once the driver has built its poll lists.
Polled == device.covered /\ listsBuilt

\* The monitor of the control pipe asks for the recovery (LinkMonitor).
LinkRecovers ==
    /\ pollPc = "main" /\ Acts /\ others < MaxOthers
    /\ RecoverInterface
    /\ others' = others + 1
    /\ UNCHANGED <<inWdVars, device, attached, stream, heard, queue, claimed,
                   restartRequested, inRecoveries, decoded>>

SilenceRecovers ==
    /\ pollPc = "main" /\ Acts /\ SilenceAction(Polled) = "RECOVER"
    /\ InWdTick(Polled)
    /\ RecoverInterface
    /\ UNCHANGED <<device, attached, stream, heard, queue, claimed,
                   restartRequested, inRecoveries, decoded, others>>

SilenceRestarts ==
    /\ pollPc = "main" /\ Acts /\ SilenceAction(Polled) = "RESTART"
    /\ InWdTick(Polled)
    /\ restartRequested' = TRUE
    /\ Away
    /\ UNCHANGED <<reassemblerVars, deviceVars, queue, claimed, restartPending,
                   inRecoveries, listsBuilt, observers>>

\* The driver builds its lists and polls, which may block.
PollDriver ==
    /\ pollPc = "main" /\ Acts /\ SilenceAction(Polled) = "NONE"
    /\ InWdTick(Polled)
    /\ listsBuilt' = TRUE
    /\ Away
    /\ UNCHANGED <<reassemblerVars, deviceVars, queue, claimed, restartPending,
                   restartRequested, inRecoveries, observers>>

Tick ==
    /\ pollPc = "away" /\ awayAge < MaxAway /\ awayAge' = awayAge + 1
    /\ IF claimed
       THEN InWdElapse /\ ReassemblerElapse /\ heard' = Older(heard, AgeLimit)
       ELSE UNCHANGED <<inWdVars, reassemblerVars, heard>>
    /\ queue' = [i \in DOMAIN queue |->
                     IF IsInput(queue[i]) THEN [queue[i] EXCEPT !.age = @ + 1] ELSE queue[i]]
    /\ UNCHANGED <<device, attached, pipe, stream, cut, pollPc, claimed,
                   restartPending, restartRequested, inRecoveries, listsBuilt, observers>>

-------------------------------------------------------------------------------
PollStep ==
    \/ Wake \/ EventsDone
    \/ HandleConnected \/ HandleInput \/ HandleDisconnected
    \/ HandleErrorIgnored \/ HandleErrorRecovers \/ HandleErrorRestarts
    \/ ServiceReturns \/ StartAgain \/ LinkRecovers
    \/ SilenceRecovers \/ SilenceRestarts \/ PollDriver

InputNext ==
    \/ \E expected \in device.lengths \cup {0} : Receive(expected)
    \/ InError \/ Unplug \/ Plug
    \/ PollStep
    \/ Tick

InputSpec == InputInit /\ [][InputNext]_inputVars

\* The poll task runs, time passes; a device need do nothing.
InputFairSpec == InputSpec /\ WF_inputVars(PollStep) /\ SF_inputVars(Tick)

-------------------------------------------------------------------------------
\* Without a loss a decoded report is one report, all of it: whatever lengths the
\* reports have, wherever the interface is restarted (processInputReport()).
Whole(report) ==
    /\ Len(report) = Parts(report[1].len)
    /\ \A i \in DOMAIN report : report[i].part = i /\ report[i].len = report[1].len
WholeReports == decoded # <<>> => Whole(decoded) \/ excused

\* What the HID task and the poll task keep true of queue, assembly and reports.
InputInv == InputTypeOK /\ WholeReports

\* A loss is forgotten with the next report that begins after a pause, however late
\* the poll task handles it (InputReassembler::feed(), by the time of reception).
AlignsAgain ==
    [][HandleInput /\ Head(queue).part = 1 /\ Head(queue).paused => ~excused']_inputVars

\* Packets in excess never cost an event the claim or the recovery waits for
\* (EVENT_QUEUE_RESERVED).
LifecycleKept ==
    [][InError \/ Unplug \/ Plug => Len(queue') = Len(queue) + 1]_inputVars

\* The interface is not restarted for silence while packets come: none came for the
\* threshold, less the time the poll task may have been away from a full queue.
SilenceEarned ==
    [][SilenceRecovers \/ SilenceRestarts =>
           heard >= SilenceThreshold - MaxAway \/ queue # <<>>]_inputVars

\* The packet that ends a silence leaves the period known: the next silence is found
\* as soon as this one (onInput()).
PeriodKept == [][silent /\ IsPeriodic /\ HandleInput => IsPeriodic']_inputVars

\* When the poll reads every value, a silence alone restarts nothing: every step of
\* the watchdog needs another restart of the interface in the same silence, which made
\* the driver forget the coverage.
CoveredPays ==
    [][(SilenceRecovers \/ SilenceRestarts) /\ device.covered =>
           silenceRecoveries < others]_inputVars

\* A periodic device whose values only the interrupt pipe carries does not fall silent
\* unnoticed: it is heard again, goes away, or the board restarts.
SilenceEnds ==
    (claimed /\ queue = <<>> /\ IsPeriodic /\ ~device.covered)
        ~> (heard = 0 \/ restartRequested \/ ~claimed)

==============================================================================
