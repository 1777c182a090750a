----------------------------- MODULE SyslogOutput -----------------------------
(***************************************************************************)
(* The syslog output (src/network/syslog_output.cpp) and the queue its own *)
(* lines go through like everybody's (src/core/log_dispatcher.cpp).  Lines *)
(* are told apart by what the delivery looks at: "info" is any line of the *)
(* firmware, "own" starts with the tag of the output, "notice" announces a *)
(* change of its settings, "lost" reports a full queue.                    *)
(***************************************************************************)
EXTENDS LogFilter, Sequences

CONSTANTS
    QueueLength,   \* QUEUE_LENGTH
    Host,          \* syslog servers
    Literals,      \* those given by an IP address
    NoHost,        \* remote logging off
    RetryAfter,    \* RESOLVE_RETRY_MS
    RefreshAfter,  \* RESOLVE_REFRESH_MS
    AgeCap         \* where the age of the settings stops growing

ASSUME SyslogAssumption ==
    /\ QueueLength \in Nat \ {0}
    /\ Literals \subseteq Host /\ NoHost \notin Host
    /\ RetryAfter \in Nat \ {0} /\ RefreshAfter \in Nat \ {0} /\ AgeCap \in Nat

VARIABLES
    queue,           \* _queue of the dispatcher
    queueDrops,      \* _queue_drops
    net,             \* "down" (or AP mode), "lan" (no name resolved), "wan"
    pending,         \* _pending and _pending_who while _has_pending
    active,          \* _active
    enabledAge,      \* ticks since _enabled_at
    resolved,        \* _resolved
    resolveFailing,  \* _resolve_failing
    resolveLeft,     \* ticks left to _next_resolve
    address,         \* the server whose address _ip holds, NoHost at first
    sendFailing,     \* _send_failing
    shown            \* _shown_state

queueVars == <<queue, queueDrops>>
resolveVars == <<resolved, resolveFailing, resolveLeft, address>>
syslogVars == <<queueVars, net, pending, active, enabledAge, resolveVars,
                sendFailing, shown, filterVars>>

Level == [info |-> 0, lost |-> 1]
Settings == [host : Host \cup {NoHost}, level : 0..2]
Off == [host |-> NoHost, level |-> 0]
Enabled(settings) == settings.host # NoHost

SyslogTypeOK ==
    /\ FilterTypeOK
    /\ queue \in Seq({"info", "own", "notice"}) /\ Len(queue) <= QueueLength
    /\ queueDrops \in Nat
    /\ net \in {"down", "lan", "wan"}
    /\ pending \subseteq [to : Settings, boot : BOOLEAN]
    /\ active \in Settings
    /\ enabledAge \in 0..AgeCap
    /\ resolved \in BOOLEAN /\ resolveFailing \in BOOLEAN
    /\ resolveLeft \in Nat
    /\ address \in Host \cup {NoHost}
    /\ sendFailing \in BOOLEAN
    /\ shown \in {"disabled", "waiting", "ready", "active", "error"}

\* main.cpp: the saved settings are configured before the log task starts.
SyslogInit(saved) ==
    /\ FilterInit
    /\ queue = <<>> /\ queueDrops = 0
    /\ pending = {[to |-> saved, boot |-> TRUE]}
    /\ active = Off /\ enabledAge = 0
    /\ resolved = FALSE /\ resolveFailing = FALSE /\ resolveLeft = 0
    /\ address = NoHost
    /\ sendFailing = FALSE /\ shown = "disabled"

NetworkUp == net # "down"
Ready == resolved /\ NetworkUp

------------------------------------------------------------------------------
\* submit() of each line: what finds no room is dropped and counted.
Submit(lines) ==
    LET room == QueueLength - Len(queue)
        kept == IF Len(lines) <= room THEN Len(lines) ELSE room
    IN  /\ queue' = queue \o SubSeq(lines, 1, kept)
        /\ queueDrops' = queueDrops + Len(lines) - kept

\* Mutant: a change that waits is kept, the newer one is ignored.
ConfigureFirstWins(settings) ==
    pending' = IF pending = {} THEN {[to |-> settings, boot |-> FALSE]} ELSE pending

\* configure(), from the web page.
Configure(settings) == pending' = {[to |-> settings, boot |-> FALSE]}

\* planSyslogChange(): what a change says in the log.  (What it says to the old
\* server directly changes no state but the counts of datagrams.)
ChangeLines(old, new, boot) ==
    CASE boot -> IF Enabled(new) THEN <<"own">> ELSE <<>>
      [] ~boot /\ ~Enabled(new) -> <<"own">>
      [] ~boot /\ Enabled(new) -> IF new = old THEN <<>> ELSE <<"notice">>

\* Mutant: the address of the server before is used on.
ApplyKeepsAddress ==
    \E change \in pending :
        /\ pending' = {}
        /\ active' = change.to
        /\ enabledAge' = 0
        /\ FilterConfigure
        /\ resolved' = (Enabled(active) /\ resolved)
        /\ resolveFailing' = FALSE /\ resolveLeft' = 0
        /\ sendFailing' = FALSE
        /\ address' = IF change.to.host \in Literals THEN change.to.host ELSE address
        /\ shown' = IF Enabled(change.to) THEN "waiting" ELSE "disabled"
        /\ Submit(ChangeLines(active, change.to, change.boot))

\* poll(), the settings that wait: apply().
Apply ==
    \E change \in pending :
        /\ pending' = {}
        /\ active' = change.to
        /\ enabledAge' = 0
        /\ FilterConfigure
        /\ resolved' = FALSE /\ resolveFailing' = FALSE /\ resolveLeft' = 0
        /\ sendFailing' = FALSE
        /\ address' = IF change.to.host \in Literals THEN change.to.host ELSE address
        /\ shown' = IF Enabled(change.to) THEN "waiting" ELSE "disabled"
        /\ Submit(ChangeLines(active, change.to, change.boot))

\* resolve() of a name that is due: found, or tried again later; a failed
\* refresh keeps the last address, and only the first failure is logged.
NameFound ==
    /\ net = "wan"
    /\ resolved' = TRUE /\ resolveFailing' = FALSE
    /\ resolveLeft' = RefreshAfter
    /\ address' = active.host
    /\ UNCHANGED queueVars

NameNotFound ==
    /\ net = "lan"
    /\ resolveLeft' = RetryAfter
    /\ resolveFailing' = (resolveFailing \/ ~resolved)
    /\ Submit(IF resolved \/ resolveFailing THEN <<>> ELSE <<"own">>)
    /\ UNCHANGED <<resolved, address>>

Resolve ==
    \/ /\ active.host \in Literals
       /\ resolved' = TRUE
       /\ UNCHANGED <<resolveFailing, resolveLeft, address, queueVars>>
    \/ active.host \notin Literals /\ resolveLeft > 0 /\ UNCHANGED <<resolveVars, queueVars>>
    \/ active.host \notin Literals /\ resolveLeft = 0 /\ (NameFound \/ NameNotFound)

\* poll(), the rest: nothing while disabled, the state of the page from the link.
PollLink ==
    \/ /\ ~Enabled(active)
       /\ UNCHANGED <<resolveVars, queueVars, shown>>
    \/ /\ Enabled(active) /\ ~NetworkUp
       /\ shown' = IF shown = "error" THEN shown ELSE "waiting"
       /\ UNCHANGED <<resolveVars, queueVars>>
    \/ /\ Enabled(active) /\ NetworkUp
       /\ Resolve
       /\ shown' = IF resolved' /\ shown = "waiting" THEN "ready" ELSE shown

\* deliver() of n lines, one after the other, each accepted by the transport or
\* not: a period of failures is logged once and ended by a line accepted.
Transport(n) ==
    \E ok \in [1..n -> BOOLEAN] :
        LET failedBefore(i) == IF i = 1 THEN sendFailing ELSE ~ok[i - 1]
            newFailure == \E i \in 1..n : ~ok[i] /\ ~failedBefore(i)
        IN  /\ sendFailing' = ~ok[n]
            /\ shown' = CASE ok[n] -> "active"
                          [] ~ok[n] -> IF newFailure THEN "error" ELSE shown
            /\ Submit(IF newFailure THEN <<"own">> ELSE <<>>)

SyslogElapse ==
    /\ FilterElapse
    /\ enabledAge' = Older(enabledAge, AgeCap)
    /\ resolveLeft' = Sooner(resolveLeft)
    /\ UNCHANGED <<queueVars, net, pending, active, resolved, resolveFailing, address, sendFailing, shown>>

==============================================================================
