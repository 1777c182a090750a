---------------------------- MODULE LogDispatcher ----------------------------
(***************************************************************************)
(* Remote logging: every task writes into one queue without waiting, the   *)
(* task log_out takes the lines out and hands them to the output, which    *)
(* syslog is the only one of (src/core/log_dispatcher.cpp,                 *)
(* lib/LogCore/src/LogFanout.h).  A lookup of a name may take seconds, in  *)
(* which the others go on and the time the task works with grows old.      *)
(***************************************************************************)
EXTENDS SyslogOutput

CONSTANTS
    Hold,        \* HOLD_MS
    MaxLag,      \* bound: ticks an iteration of the task takes
    Saveable,    \* settings the web page saves
    AtBoot,      \* settings the board may start with
    MaxLines,    \* bound: lines the other tasks write
    MaxChanges   \* bound: settings saved

ASSUME DispatcherAssumption ==
    /\ Hold \in Nat /\ MaxLag \in Nat /\ AgeCap = Hold + MaxLag
    /\ Saveable \subseteq Settings /\ AtBoot \subseteq Settings
    /\ MaxLines \in Nat /\ MaxChanges \in Nat

VARIABLES
    savedSettings,  \* the settings in NVS
    reportedDrops,  \* _reported_drops
    logPc,          \* where run() is
    inHand,         \* the line taken from the queue
    nowLag,         \* ticks since run() read `now`
    written, changes,
    lookReady,      \* observer: shouldHold() has let this line go to a ready output
    announced,      \* observer: lines counted in the summaries handed to the transport
    lossTold        \* observer: the report of a loss was handed to the transport

taskVars == <<reportedDrops, logPc, inHand, nowLag, lookReady, announced, lossTold>>
logVars == <<syslogVars, savedSettings, taskVars, written, changes>>

LogTypeOK ==
    /\ SyslogTypeOK
    /\ savedSettings \in Settings
    /\ reportedDrops \in 0..queueDrops
    /\ logPc \in {"apply", "link", "report", "hold", "receive", "deliver"}
    /\ inHand \in {"none", "info", "own", "notice"}
    /\ nowLag \in 0..MaxLag
    /\ written \in 0..MaxLines /\ changes \in 0..MaxChanges
    /\ lookReady \in BOOLEAN
    /\ announced \in Nat /\ lossTold \in BOOLEAN

LogInit ==
    /\ savedSettings \in AtBoot
    /\ SyslogInit(savedSettings)
    /\ net = "down"
    /\ reportedDrops = 0
    /\ logPc = "apply" /\ inHand = "none" /\ nowLag = 0
    /\ written = 0 /\ changes = 0
    /\ lookReady = FALSE /\ announced = 0 /\ lossTold = FALSE

------------------------------------------------------------------------------
\* A line of the loopTask or of the USB task (AppLogger::write()).
WriteLine ==
    /\ written < MaxLines
    /\ Submit(<<"info">>)
    /\ written' = written + 1
    /\ UNCHANGED <<net, pending, active, enabledAge, resolveVars, sendFailing, shown,
                   filterVars, savedSettings, taskVars, changes>>

\* handleSetLogging(): saved, then handed to the output.
SaveSettings ==
    /\ changes < MaxChanges
    /\ \E settings \in Saveable :
        /\ savedSettings' = settings
        /\ Configure(settings)
    /\ changes' = changes + 1
    /\ UNCHANGED <<queueVars, net, active, enabledAge, resolveVars, sendFailing, shown,
                   filterVars, taskVars, written>>

NetworkChanges ==
    /\ net' \in {"down", "lan", "wan"} \ {net}
    /\ UNCHANGED <<queueVars, pending, active, enabledAge, resolveVars, sendFailing, shown,
                   filterVars, savedSettings, taskVars, written, changes>>

------------------------------------------------------------------------------
\* The next iteration of run(): `now` is read anew.
Again == logPc' = "apply" /\ nowLag' = 0

TaskApply ==
    /\ logPc = "apply"
    /\ \/ Apply
       \/ pending = {} /\ UNCHANGED <<queueVars, pending, active, enabledAge, resolveVars,
                                      sendFailing, shown, filterVars>>
    /\ logPc' = "link"
    /\ UNCHANGED <<net, savedSettings, reportedDrops, inHand, nowLag, written, changes,
                   lookReady, announced, lossTold>>

TaskLink ==
    /\ logPc = "link"
    /\ PollLink
    /\ logPc' = "report"
    /\ UNCHANGED <<net, pending, active, enabledAge, sendFailing, filterVars, savedSettings,
                   reportedDrops, inHand, nowLag, written, changes, lookReady, announced, lossTold>>

\* deliver() of the fanout: the line goes nowhere, is refused by the rate limit,
\* or is handed to the transport, after a summary of the lines refused before.
Ignored(line) ==
    /\ \/ ~Enabled(active) \/ line = "own" \/ ~Ready
       \/ line \in DOMAIN Level /\ Level[line] < active.level
    /\ UNCHANGED <<queueVars, sendFailing, shown, filterVars, announced>>

Limited(line) ==
    /\ Enabled(active) /\ Ready
    /\ line \in DOMAIN Level /\ Level[line] >= active.level
    /\ FilterRefuses
    /\ UNCHANGED <<queueVars, sendFailing, shown, announced>>

Handed(line) ==
    /\ Enabled(active) /\ Ready
    /\ \/ /\ line = "notice"
          /\ Transport(1)
          /\ UNCHANGED <<filterVars, announced>>
       \/ /\ line \in DOMAIN Level /\ Level[line] >= active.level
          /\ FilterAccepts
          /\ announced' = announced + suppressed
          /\ Transport(IF suppressed > 0 THEN 2 ELSE 1)

Untouched == <<net, pending, active, enabledAge, resolveVars, savedSettings, written, changes>>

\* Lines lost on a full queue: one line with their number.
TaskReport ==
    /\ logPc = "report"
    /\ logPc' = "hold"
    /\ reportedDrops' = queueDrops
    /\ \/ /\ queueDrops = reportedDrops
          /\ UNCHANGED <<queueVars, sendFailing, shown, filterVars, announced, lossTold>>
       \/ /\ queueDrops # reportedDrops
          /\ \/ (Ignored("lost") \/ Limited("lost")) /\ UNCHANGED lossTold
             \/ Handed("lost") /\ lossTold' = TRUE
    /\ UNCHANGED <<Untouched, inHand, nowLag, lookReady>>

\* Mutant: the difference of the times is taken as unsigned.
ShouldHoldUnsigned == Enabled(active) /\ ~Ready /\ enabledAge - nowLag \in 0..Hold-1

\* Mutant: an output that is not ready is waited for without end.
ShouldHoldForever == Enabled(active) /\ ~Ready

\* shouldHold(now): settings enabled after `now` was read are younger than 0.
ShouldHold == Enabled(active) /\ ~Ready /\ enabledAge - nowLag < Hold

TaskHold ==
    /\ logPc = "hold"
    /\ lossTold' = FALSE
    /\ \/ ShouldHold /\ Again /\ UNCHANGED lookReady
       \/ ~ShouldHold /\ logPc' = "receive" /\ lookReady' = Ready /\ UNCHANGED nowLag
    /\ UNCHANGED <<queueVars, sendFailing, shown, filterVars, Untouched, reportedDrops,
                   inHand, announced>>

\* xQueueReceive() waits a second for a line.
TaskReceive ==
    /\ logPc = "receive"
    /\ \/ /\ queue # <<>>
          /\ inHand' = Head(queue) /\ queue' = Tail(queue)
          /\ logPc' = "deliver" /\ UNCHANGED <<nowLag, lookReady>>
       \/ queue = <<>> /\ Again /\ lookReady' = FALSE /\ UNCHANGED <<queue, inHand>>
    /\ UNCHANGED <<queueDrops, sendFailing, shown, filterVars, Untouched, reportedDrops,
                   announced, lossTold>>

TaskDeliver ==
    /\ logPc = "deliver"
    /\ Ignored(inHand) \/ Limited(inHand) \/ Handed(inHand)
    /\ inHand' = "none" /\ lookReady' = FALSE
    /\ Again
    /\ UNCHANGED <<Untouched, reportedDrops, lossTold>>

LogTask ==
    TaskApply \/ TaskLink \/ TaskReport \/ TaskHold \/ TaskReceive \/ TaskDeliver

LogElapse ==
    /\ nowLag < MaxLag
    /\ nowLag' = nowLag + 1
    /\ SyslogElapse
    /\ UNCHANGED <<savedSettings, reportedDrops, logPc, inHand, written, changes,
                   lookReady, announced, lossTold>>

LogNext == WriteLine \/ SaveSettings \/ NetworkChanges \/ LogTask \/ LogElapse

LogSpec == LogInit /\ [][LogNext]_logVars

\* The task runs (priority 1, never starved for good) and time passes.
LogFairSpec == LogSpec /\ WF_logVars(LogTask) /\ WF_logVars(LogElapse)

------------------------------------------------------------------------------
\* A datagram only goes to the server of the settings in use: an address found
\* for the server before is never used after a change (apply() clears _resolved,
\* but not _ip).
RightServer == Enabled(active) /\ resolved => address = active.host

\* The page shows an error exactly while the last line handed over was refused.
ErrorShown == shown = "error" <=> sendFailing

\* Every line the rate limit refused is counted in one summary, or still waits
\* to be, over changes of the settings too (stats().rate_limited is the number
\* the page shows).
LimitAccounted == refused = announced + suppressed

\* What the task keeps true of server, page and counters, at every step of it.
LogInv == LogTypeOK /\ RightServer /\ ErrorShown /\ LimitAccounted

\* A line taken from the queue is only thrown away for want of a connection when
\* the settings are at least Hold old, or the connection went after the look.
HeldLinesKept ==
    [][ logPc = "deliver" /\ logPc' = "apply" /\ Enabled(active) /\ inHand # "own" /\ ~Ready =>
        lookReady \/ enabledAge >= Hold ]_logVars

\* The lines lost on a full queue are told to the enabled output (docs/adr/0012:
\* "the log task then sends [LOG] N lines lost: log queue full").
LossReported ==
    [][ reportedDrops' # reportedDrops /\ Enabled(active) => lossTold' ]_logVars

\* Once the others are quiet the queue empties for good: a hold ends, and the
\* lines the output writes about its own failures feed no further ones.
QueueDrains == <>[](queue = <<>>)

\* The settings in use are in the end the last ones saved.
SettingsTakeEffect == <>[](active = savedSettings)

==============================================================================
