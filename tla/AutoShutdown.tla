----------------------------- MODULE AutoShutdown -----------------------------
(***************************************************************************)
(* The automatic shutdown of the UPS (include/core/auto_shutdown.h and     *)
(* checkAutoShutdown() in src/core/main.cpp), with what it depends on: the *)
(* polls that refresh ups.status, the link that decides if the data are    *)
(* stale, and shutdown.default, which tries the shutdown commands of the   *)
(* UPS one after the other (HidControl.h).  The export of the diagnostics  *)
(* puts requests of its own between the polls of the same link.            *)
(*                                                                         *)
(* The loopTask reads the status, decides and writes to the UPS in steps;  *)
(* the poll task and the UPS may act in between.  The recovery of the link *)
(* is the ladder of LinkMonitor alone; USBHostUPS has the rest of it.      *)
(***************************************************************************)
EXTENDS LinkMonitor, PollCycle, DiagSweep

CONSTANTS
    FirstDataMax,  \* FIRST_DATA_MAX_MS
    NumCommands    \* commands of the UPS that shutdown.default tries

ASSUME AutoShutdownAssumption ==
    /\ FirstDataMax \in Nat
    /\ NumCommands \in Nat

VARIABLES
    power,       \* what the UPS reports: "OL", "OB" or "LB" (OB and LB)
    powerDue,    \* bound: the status of the UPS changes once a tick at most
    answering,   \* the UPS answers requests
    unhandled,   \* observer: failures of the mains less shutdowns carried out, 2 at most
    missed,      \* observer: a poll or a command went unanswered since the last answer
    exporting    \* bound: the page asks for exports, or the mains fail and the board acts on it

upsVars == <<power, powerDue, answering, unhandled, missed, exporting>>

VARIABLES
    ready,             \* _is_ready_to_poll
    firstData,         \* _first_data_ready
    claimAge,          \* now - _claimed_at
    restartRequested,  \* _restart_requested
    shown              \* ups.status in _ups_data, "none" when there is none

dataVars == <<ready, firstData, claimAge, restartRequested, shown>>

VARIABLES
    enabled,    \* _enabled
    armed,      \* _armed
    checkPc,    \* where the loopTask is: "idle", "decide", "start" or "send"
    checkDue,   \* checkAutoShutdown() has not run since the last tick
    status,     \* status, the String read first
    available,  \* available, read with it
    left        \* commands of the UPS not tried yet

checkVars == <<enabled, armed, checkPc, checkDue, status, available, left>>
shutdownVars == <<linkVars, pollVars, diagVars, upsVars, dataVars, checkVars>>

Powers == {"OL", "OB", "LB"}

ShutdownTypeOK ==
    /\ LinkTypeOK /\ PollTypeOK /\ DiagTypeOK
    /\ power \in Powers /\ powerDue \in BOOLEAN /\ answering \in BOOLEAN
    /\ unhandled \in -1..2
    /\ missed \in BOOLEAN /\ exporting \in BOOLEAN
    /\ ready \in BOOLEAN /\ firstData \in BOOLEAN /\ restartRequested \in BOOLEAN
    /\ claimAge \in 0..FirstDataMax
    /\ shown \in Powers \union {"none"}
    /\ enabled \in BOOLEAN /\ armed \in BOOLEAN /\ available \in BOOLEAN
    /\ checkPc \in {"idle", "decide", "start", "send"} /\ checkDue \in BOOLEAN
    /\ status \in Powers \union {"none"}
    /\ left \in 0..NumCommands

ShutdownInit ==
    /\ LinkInit /\ PollInit /\ DiagInit
    /\ power = "OL" /\ powerDue = TRUE /\ answering = TRUE /\ unhandled = 0
    /\ missed = FALSE /\ exporting \in BOOLEAN
    /\ ready = FALSE /\ firstData = FALSE /\ claimAge = 0 /\ restartRequested = FALSE
    /\ shown = "none"
    /\ enabled \in BOOLEAN /\ (exporting => ~enabled) /\ armed = TRUE
    /\ checkPc = "idle" /\ checkDue = TRUE
    /\ status = "none" /\ available = FALSE /\ left = 0

------------------------------------------------------------------------------
(***************************************************************************)
(* The UPS.                                                                *)
(***************************************************************************)

OneMore(n) == IF n < 2 THEN n + 1 ELSE 2

ChangePower(p) ==
    /\ ~exporting /\ powerDue /\ powerDue' = FALSE
    /\ p # power /\ power' = p
    /\ unhandled' = IF power = "OL" THEN OneMore(unhandled) ELSE unhandled
    /\ UNCHANGED <<linkVars, pollVars, diagVars, answering, missed, exporting, dataVars, checkVars>>

ChangeAnswering ==
    /\ answering' = ~answering
    /\ UNCHANGED <<linkVars, pollVars, diagVars, power, powerDue, unhandled, missed, exporting,
                   dataVars, checkVars>>

\* handleDisconnected()
Disconnect ==
    /\ ready /\ ready' = FALSE
    /\ shown' = "none"
    /\ DiagClear
    /\ UNCHANGED <<linkVars, pollVars, upsVars, firstData, claimAge, restartRequested, checkVars>>

\* claimInterface(), on a device that answers.  The observer allows one more shutdown
\* when that happens between two tries of one command: see OncePerEvent.
Claim ==
    /\ ~ready /\ answering
    /\ ready' = TRUE /\ firstData' = FALSE /\ claimAge' = 0 /\ restartRequested' = FALSE
    /\ LinkReset /\ PollReset /\ DiagClear /\ missed' = FALSE
    /\ unhandled' = IF checkPc = "send" THEN OneMore(unhandled) ELSE unhandled
    /\ UNCHANGED <<power, powerDue, answering, exporting, shown, checkVars>>

------------------------------------------------------------------------------
(***************************************************************************)
(* The poll task: service(), for an interface that is claimed.             *)
(***************************************************************************)

\* The data are served from the end of the first full poll with a known status.
FirstDataServed == firstData' = (firstData \/ (firstFull' /\ shown' # "none")
                                           \/ claimAge >= FirstDataMax)

Polling == ready /\ ~restartRequested /\ LinkTick(FALSE) = "NONE"

\* An answer to any request; no answer to a poll or a command.
Answer == LinkAlive /\ missed' = FALSE
NoAnswer == LinkFailure /\ missed' = TRUE

\* The ladder of LinkMonitor.
LinkLadder ==
    /\ ready /\ ~restartRequested
    /\ \/ LinkTick(FALSE) = "RECOVER" /\ LinkRecovering /\ UNCHANGED restartRequested
       \/ LinkTick(FALSE) = "RESTART" /\ restartRequested' = TRUE /\ UNCHANGED linkVars
    /\ UNCHANGED <<pollVars, diagVars, upsVars, ready, firstData, claimAge, shown, checkVars>>

PollStartsCycle ==
    /\ Polling /\ CycleDue
    /\ StartCycle
    /\ UNCHANGED <<linkVars, diagVars, upsVars, ready, claimAge, restartRequested, shown,
                   checkVars>>
    /\ FirstDataServed

PollRequests ==
    /\ Polling /\ queue # {} /\ CanPoll
    /\ NextReport(answering)
    /\ IF answering THEN Answer ELSE NoAnswer
    /\ IF answering /\ Requested = "status"
       THEN shown' = power ELSE UNCHANGED shown
    /\ FirstDataServed
    /\ UNCHANGED <<diagVars, power, powerDue, answering, unhandled, exporting, ready, claimAge,
                   restartRequested, checkVars>>

\* Nothing to request, or a backoff: service() only looks if the data may be served.
FirstDataDue == firstData \/ (firstFull /\ shown # "none") \/ claimAge >= FirstDataMax
PollWaits ==
    /\ Polling /\ ~firstData /\ FirstDataDue
    /\ ~CycleDue /\ (queue = {} \/ ~CanPoll)
    /\ firstData' = TRUE
    /\ UNCHANGED <<linkVars, pollVars, diagVars, upsVars, ready, claimAge, restartRequested,
                   shown, checkVars>>

\* Mutant: the export does not wait for its turn.
BetweenPollsOrNot == TRUE

\* The poll has nothing to request: serviceDiagRead() comes after it.
BetweenPolls == queue = {} /\ ~CycleDue

\* serviceDiagRead() looks at the request.
DiagStarts ==
    /\ Polling /\ diagRequested
    /\ \E items \in 0..OnDemand : DiagStart(items)
    /\ UNCHANGED <<linkVars, pollVars, upsVars, dataVars, checkVars>>

\* One report, which the UPS may leave unanswered although it answers the polls.
DiagRequests ==
    /\ Polling /\ diagState = "reading" /\ ~diagRequested /\ CanPoll /\ BetweenPolls
    /\ DiagRecord
    /\ \/ answering /\ Answer
       \/ LinkFailure /\ UNCHANGED missed
    /\ UNCHANGED <<pollVars, power, powerDue, answering, unhandled, exporting, dataVars, checkVars>>

\* The link allows no requests any more, or a restart was asked for.
DiagStops ==
    /\ ready /\ (restartRequested \/ (LinkTick(FALSE) = "NONE" /\ ~CanPoll))
    /\ DiagInterrupt
    /\ UNCHANGED <<linkVars, pollVars, upsVars, dataVars, checkVars>>

ServiceDiagRead == DiagStarts \/ DiagRequests \/ DiagStops

PollTask == LinkLadder \/ PollStartsCycle \/ PollRequests \/ PollWaits \/ ServiceDiagRead

\* service() has something to do before time goes on.
PollBusy ==
    \/ Polling /\ \/ CycleDue
                  \/ queue # {} /\ CanPoll
                  \/ ~firstData /\ FirstDataDue
                  \/ ReadingShown
    \/ ready /\ ~restartRequested /\ LinkTick(FALSE) # "NONE"
    \/ ready /\ restartRequested /\ diagState = "reading"

------------------------------------------------------------------------------
(***************************************************************************)
(* The loopTask.                                                           *)
(***************************************************************************)

\* isDataStale()
Stale == ~ready \/ ~firstData \/ restartRequested \/ LinkIsStale

Offered == ready /\ NumCommands > 0

\* The option of the Board page: on only for a UPS that offers the command.
SetEnabled(on) ==
    /\ ~exporting /\ checkPc = "idle"
    /\ on # enabled /\ (on => Offered)
    /\ enabled' = on
    /\ UNCHANGED <<linkVars, pollVars, diagVars, upsVars, dataVars, armed, checkPc, checkDue,
                   status, available, left>>

\* checkAutoShutdown() reads the status, and the commands if it is low.
ReadStatus ==
    /\ checkPc = "idle" /\ checkPc' = "decide"
    /\ status' = shown
    /\ available' = (shown = "LB" /\ Offered)
    /\ UNCHANGED <<linkVars, pollVars, diagVars, upsVars, dataVars, enabled, armed, checkDue, left>>

\* The board decides to shut the UPS down.
Fires == ~Stale /\ status = "LB" /\ armed /\ enabled /\ available

\* update(), the last use of what was read.
Decide ==
    /\ checkPc = "decide"
    /\ armed' = IF ~Stale /\ status = "OL" THEN TRUE ELSE armed /\ ~Fires
    /\ checkPc' = IF Fires THEN "start" ELSE "idle"
    /\ checkDue' = FALSE
    /\ status' = "none" /\ available' = FALSE
    /\ UNCHANGED <<linkVars, pollVars, diagVars, upsVars, dataVars, enabled, left>>

\* executeCommand("shutdown.default"): NOT_CONNECTED, or the commands of the UPS in order.
StartCommand ==
    /\ checkPc = "start"
    /\ checkPc' = IF ready THEN "send" ELSE "idle"
    /\ armed' = (armed \/ ~ready)
    /\ left' = IF ready THEN NumCommands ELSE left
    /\ UNCHANGED <<linkVars, pollVars, diagVars, upsVars, dataVars, enabled, checkDue, status,
                   available>>

\* Mutant: a command is sent although the link is in its backoff.
MayWriteAnyway == ready

\* writeUsageLocked() goes on to its requests.
MayWrite == ready /\ CanPoll

\* Another command is tried, or the last has failed.
CommandFails ==
    /\ left' = left - 1
    /\ checkPc' = IF left = 1 THEN "idle" ELSE "send"
    /\ UNCHANGED <<pollVars, diagVars, power, powerDue, answering, exporting, dataVars, enabled,
                   armed, checkDue, status, available>>

CommandNotSent ==
    /\ checkPc = "send" /\ ~MayWrite
    /\ CommandFails
    /\ UNCHANGED <<linkVars, unhandled, missed>>

\* The report is read back first: without an answer nothing is written.
CommandUnanswered ==
    /\ checkPc = "send" /\ MayWrite /\ ~answering
    /\ CommandFails
    /\ NoAnswer /\ UNCHANGED unhandled

CarriedOut == unhandled' = IF unhandled > -1 THEN unhandled - 1 ELSE -1

\* The UPS has been read back, and rejects the write (a STALL is an answer).
CommandRejected ==
    /\ checkPc = "send" /\ MayWrite /\ answering
    /\ CommandFails
    /\ Answer /\ UNCHANGED unhandled

\* The UPS has been read back, and the answer to the write is lost: the UPS may have
\* carried it out.  onAlive(), then onLinkFailure().
CommandAnswerLost ==
    /\ checkPc = "send" /\ MayWrite /\ answering
    /\ CommandFails
    /\ backoff' = BackoffBase /\ backoffLeft' = BackoffBase /\ linkRecoveries' = 0
    /\ firstFailureAge' = 0 /\ aliveAge' = 0 /\ windowAge' = 0
    /\ missed' = TRUE
    /\ CarriedOut \/ UNCHANGED unhandled

CommandOK ==
    /\ checkPc = "send" /\ MayWrite /\ answering
    /\ Answer
    /\ CarriedOut
    /\ NoteDataChanged
    /\ checkPc' = "idle" /\ left' = 0
    /\ UNCHANGED <<diagVars, power, powerDue, answering, exporting, dataVars, enabled, armed,
                   checkDue, status, available>>

LoopCheck == ReadStatus \/ Decide \/ StartCommand
             \/ CommandNotSent \/ CommandUnanswered \/ CommandRejected
             \/ CommandAnswerLost \/ CommandOK

\* The page asks for an export: POST /api/usb/dump/read, in the loopTask.
AskExport ==
    /\ exporting /\ ready
    /\ RequestDiagRead
    /\ UNCHANGED <<linkVars, pollVars, upsVars, dataVars, checkVars>>

\* A reset of the board: RAM is empty, the option is read back from flash.
BoardReset ==
    /\ LinkReset /\ PollReset /\ DiagClear /\ missed' = FALSE
    /\ ready' = FALSE /\ firstData' = FALSE /\ claimAge' = 0 /\ restartRequested' = FALSE
    /\ shown' = "none"
    /\ armed' = TRUE
    /\ checkPc' = "idle" /\ checkDue' = TRUE
    /\ status' = "none" /\ available' = FALSE /\ left' = 0
    /\ unhandled' = IF power = "OL" THEN 0 ELSE 1
    /\ UNCHANGED <<power, powerDue, answering, exporting, enabled>>

\* Time passes, once the poll task and the loopTask have done what is due.
ShutdownElapse ==
    /\ checkPc = "idle" /\ ~checkDue /\ ~PollBusy
    /\ checkDue' = TRUE /\ powerDue' = TRUE
    /\ IF ready THEN LinkElapse /\ PollElapse /\ claimAge' = Older(claimAge, FirstDataMax)
                ELSE UNCHANGED <<linkVars, pollVars, claimAge>>
    /\ UNCHANGED <<diagVars, power, answering, unhandled, missed, exporting, ready, firstData, restartRequested, shown,
                   enabled, armed, checkPc, status, available, left>>

ShutdownNext ==
    \/ \E p \in Powers : ChangePower(p)
    \/ ChangeAnswering \/ Disconnect \/ Claim
    \/ PollTask
    \/ \E on \in BOOLEAN : SetEnabled(on)
    \/ LoopCheck \/ AskExport
    \/ BoardReset
    \/ ShutdownElapse

ShutdownSpec == ShutdownInit /\ [][ShutdownNext]_shutdownVars

\* Both tasks keep running, and time passes.
ShutdownFairSpec ==
    /\ ShutdownSpec
    /\ WF_shutdownVars(PollTask)
    /\ WF_shutdownVars(LoopCheck)
    /\ SF_shutdownVars(ShutdownElapse)

------------------------------------------------------------------------------
\* One failure of the mains, one shutdown (auto_shutdown.h: "sends shutdown.default
\* once"): the UPS never carries out more commands of the board than the mains have
\* failed since the board started, although one that went unanswered may have been
\* carried out, and shutdown.default tries several.  The backoff that follows a lost
\* answer keeps the other tries off the UPS; a claim in the middle of the command ends
\* that backoff, and the property makes no promise for the tries that follow it.
OncePerEvent == unhandled >= 0

\* Reports that only the export reads may go unanswered without a restart of the
\* board: the ladder is at its last rung only when a poll or a command, too, has gone
\* unanswered since the last answer (LinkMonitor::tick(), serviceDiagRead()).
LadderEarned ==
    ready /\ ~restartRequested /\ LinkTick(FALSE) = "RESTART" => missed

\* A report that a command may have changed is requested again: a change noted
\* while a cycle runs is not lost with that cycle's own flag.
RereadAfterChange ==
    unread # {} => dataChanged \/ (cycleFull /\ unread \subseteq KindsOf(queue))

\* What poll task and loopTask together keep true, whatever the order of their steps.
ShutdownInv == ShutdownTypeOK /\ LadderEarned /\ RereadAfterChange

\* A read for an export that the page follows ends, whatever the link does and however
\* often somebody asks again: by its last report, a pause of the link, a disconnection.
\* One that was asked for while a restart is due is answered by the restart.
ExportReadEnds == ReadingShown ~> (~ReadingShown \/ restartRequested)

\* A UPS that stays on low battery and answers is shut down, or the event has
\* been used up, however its status first got lost or old.
LowBatteryHandled ==
    <>[](power = "LB" /\ answering /\ ready /\ enabled) => []<>(~armed \/ restartRequested)

===============================================================================
