------------------------- MODULE LogDispatcher_proofs -------------------------
(****************************************************************************)
(* The invariant of remote logging, LogInv, for every queue, burst and set  *)
(* of servers.  It is inductive with two additions: a server given by an    *)
(* address has that address in use from apply() on, also before the first   *)
(* poll with the network up says so, and a line past the hold is let go by  *)
(* a ready output, by a disabled one, or by the age of the settings.        *)
(****************************************************************************)
EXTENDS LogDispatcher, TLAPS

Lines == {"info", "own", "notice"}

LiteralInUse == active.host \in Literals => address = active.host

HoldOver ==
    logPc \in {"receive", "deliver"} =>
        lookReady \/ ~Enabled(active) \/ enabledAge >= Hold

LogIInv == LogInv /\ LiteralInUse /\ HoldOver

QueueOK ==
    /\ queue \in Seq(Lines) /\ Len(queue) <= QueueLength
    /\ queueDrops \in Nat

PageOK ==
    /\ sendFailing \in BOOLEAN
    /\ shown \in {"disabled", "waiting", "ready", "active", "error"}

ServerOK ==
    /\ net \in {"down", "lan", "wan"}
    /\ pending \subseteq [to : Settings, boot : BOOLEAN]
    /\ active \in Settings
    /\ enabledAge \in 0..AgeCap
    /\ resolved \in BOOLEAN /\ resolveFailing \in BOOLEAN
    /\ resolveLeft \in Nat
    /\ address \in Host \cup {NoHost}

TaskOK ==
    /\ savedSettings \in Settings
    /\ logPc \in {"apply", "link", "report", "hold", "receive", "deliver"}
    /\ inHand \in {"none", "info", "own", "notice"}
    /\ nowLag \in 0..MaxLag
    /\ written \in 0..MaxLines /\ changes \in 0..MaxChanges
    /\ lookReady \in BOOLEAN
    /\ announced \in Nat /\ lossTold \in BOOLEAN

\* The invariant in the parts its steps disturb.
LEMMA Parts ==
    LogIInv <=> /\ FilterTypeOK /\ LimitAccounted
                /\ QueueOK /\ reportedDrops \in 0..queueDrops
                /\ PageOK /\ ErrorShown
                /\ ServerOK /\ RightServer /\ LiteralInUse
                /\ TaskOK /\ HoldOver
BY Zenon DEF LogIInv, LogInv, LogTypeOK, SyslogTypeOK, QueueOK, Lines, PageOK, ServerOK, TaskOK

LEMMA PartsNext ==
    LogIInv' <=> /\ FilterTypeOK' /\ LimitAccounted'
                 /\ QueueOK' /\ reportedDrops' \in 0..queueDrops'
                 /\ PageOK' /\ ErrorShown'
                 /\ ServerOK' /\ RightServer' /\ LiteralInUse'
                 /\ TaskOK' /\ HoldOver'
BY Zenon DEF LogIInv, LogInv, LogTypeOK, SyslogTypeOK, QueueOK, Lines, PageOK, ServerOK, TaskOK

\* What submit() of some lines leaves: a queue within its bound, no loss uncounted.
LEMMA SubmitOK ==
    ASSUME QueueOK, NEW lines \in Seq(Lines), Submit(lines)
    PROVE  QueueOK' /\ queueDrops' >= queueDrops
<1> DEFINE room == QueueLength - Len(queue)
           kept == IF Len(lines) <= room THEN Len(lines) ELSE room
<1>1. QueueLength \in Nat /\ Len(queue) \in Nat /\ Len(lines) \in Nat
  BY SyslogAssumption DEF QueueOK
<1>2. kept \in 0..Len(lines) /\ kept <= room
  BY <1>1 DEF QueueOK
<1>3. queue' = queue \o SubSeq(lines, 1, kept) /\ queueDrops' = queueDrops + Len(lines) - kept
  BY DEF Submit
<1>4. SubSeq(lines, 1, kept) \in Seq(Lines) /\ Len(SubSeq(lines, 1, kept)) = kept
  BY <1>1, <1>2
<1>5. queue' \in Seq(Lines) /\ Len(queue') = Len(queue) + kept
  BY <1>3, <1>4 DEF QueueOK
<1>6. QED
  BY <1>1, <1>2, <1>3, <1>5 DEF QueueOK

\* What deliver() of lines to the transport leaves: the page shows an error exactly
\* when the last of them was refused.
LEMMA TransportOK ==
    ASSUME QueueOK, PageOK, ErrorShown, NEW n \in {1, 2}, Transport(n)
    PROVE  QueueOK' /\ queueDrops' >= queueDrops /\ PageOK' /\ ErrorShown'
<1>1. PICK ok \in [1..n -> BOOLEAN] :
        LET failedBefore(i) == IF i = 1 THEN sendFailing ELSE ~ok[i - 1]
            newFailure == \E i \in 1..n : ~ok[i] /\ ~failedBefore(i)
        IN  /\ sendFailing' = ~ok[n]
            /\ shown' = CASE ok[n] -> "active"
                          [] ~ok[n] -> IF newFailure THEN "error" ELSE shown
            /\ Submit(IF newFailure THEN <<"own">> ELSE <<>>)
  BY DEF Transport
<1> DEFINE failedBefore(i) == IF i = 1 THEN sendFailing ELSE ~ok[i - 1]
           newFailure == \E i \in 1..n : ~ok[i] /\ ~failedBefore(i)
           lines == IF newFailure THEN <<"own">> ELSE <<>>
<1>2. lines \in Seq(Lines)
  <2> HIDE DEF newFailure
  <2>1. <<"own">> \in Seq(Lines) /\ <<>> \in Seq(Lines)
    BY DEF Lines
  <2>2. QED
    BY <2>1
<1>3. Submit(lines)
  BY <1>1
<1>4. QueueOK' /\ queueDrops' >= queueDrops
  <2> HIDE DEF lines
  <2>1. QED
    BY <1>2, <1>3, SubmitOK
<1>5. ok[n] \in BOOLEAN
  OBVIOUS
<1>6. sendFailing' = ~ok[n]
  BY <1>1
<1>7. CASE ok[n]
  <2>1. shown' = "active"
    BY <1>1, <1>7
  <2>2. QED
    BY <1>4, <1>6, <1>7, <2>1 DEF PageOK, ErrorShown
<1>8. CASE ~ok[n]
  <2>1. shown' = IF newFailure THEN "error" ELSE shown
    BY <1>1, <1>8
  <2>2. CASE newFailure
    BY <1>4, <1>6, <1>8, <2>1, <2>2 DEF PageOK, ErrorShown
  <2>3. CASE ~newFailure
    <3>1. sendFailing
      <4>1. CASE n = 1
        BY <1>8, <2>3, <4>1
      <4>2. CASE n = 2
        BY <1>8, <2>3, <4>2
      <4>3. QED
        BY <4>1, <4>2
    <3>2. shown = "error"
      BY <3>1 DEF ErrorShown
    <3> HIDE DEF newFailure
    <3>3. QED
      BY <1>4, <1>6, <1>8, <2>1, <2>3, <3>2 DEF PageOK, ErrorShown
  <2>4. QED
    BY <2>2, <2>3
<1>9. QED
  BY <1>7, <1>8

\* deliver() of the fanout, in each of its outcomes.
Fanout(line) == Ignored(line) \/ Limited(line) \/ Handed(line)

LEMMA FanoutOK ==
    ASSUME LogIInv, NEW line, Fanout(line)
    PROVE  /\ QueueOK' /\ queueDrops' >= queueDrops /\ PageOK' /\ ErrorShown'
           /\ FilterTypeOK' /\ LimitAccounted' /\ announced' \in Nat
<1>0. /\ FilterTypeOK /\ LimitAccounted /\ QueueOK /\ PageOK /\ ErrorShown
      /\ announced \in Nat
  BY Parts DEF TaskOK
<1>a. queueDrops \in Nat
  BY <1>0 DEF QueueOK
<1>1. CASE Ignored(line)
  <2>1. UNCHANGED <<queueVars, sendFailing, shown, filterVars, announced>>
    BY <1>1 DEF Ignored
  <2>2. QED
    BY <1>0, <1>a, <2>1 DEF queueVars, filterVars, QueueOK, PageOK, ErrorShown, FilterTypeOK,
                            LimitAccounted
<1>2. CASE Limited(line)
  <2>1. UNCHANGED <<queueVars, sendFailing, shown, announced>> /\ FilterRefuses
    BY <1>2 DEF Limited
  <2>2. FilterTypeOK' /\ LimitAccounted'
    BY <1>0, <2>1, BurstAssumption DEF FilterRefuses, FilterTypeOK, LimitAccounted
  <2>3. QED
    BY <1>0, <1>a, <2>1, <2>2 DEF queueVars, QueueOK, PageOK, ErrorShown
<1>3. CASE Handed(line)
  <2>1. CASE Transport(1) /\ UNCHANGED <<filterVars, announced>>
    <3>1. QueueOK' /\ queueDrops' >= queueDrops /\ PageOK' /\ ErrorShown'
      BY <1>0, <2>1, TransportOK
    <3>2. FilterTypeOK' /\ LimitAccounted' /\ announced' \in Nat
      BY <1>0, <2>1 DEF filterVars, FilterTypeOK, LimitAccounted
    <3>3. QED
      BY <3>1, <3>2
  <2>2. CASE /\ FilterAccepts /\ announced' = announced + suppressed
             /\ Transport(IF suppressed > 0 THEN 2 ELSE 1)
    <3>1. QueueOK' /\ queueDrops' >= queueDrops /\ PageOK' /\ ErrorShown'
      <4>1. (IF suppressed > 0 THEN 2 ELSE 1) \in {1, 2}
        OBVIOUS
      <4>2. QED
        BY <1>0, <2>2, <4>1, TransportOK
    <3>2. FilterTypeOK' /\ LimitAccounted' /\ announced' \in Nat
      BY <1>0, <2>2, BurstAssumption DEF FilterAccepts, Refilled, FilterTypeOK, LimitAccounted
    <3>3. QED
      BY <3>1, <3>2
  <2>3. QED
    BY <1>3, <2>1, <2>2 DEF Handed
<1>4. QED
  BY <1>1, <1>2, <1>3 DEF Fanout

LEMMA InitIInv == LogInit => LogIInv
<1> SUFFICES ASSUME LogInit PROVE LogIInv
  OBVIOUS
<1>1. FilterTypeOK /\ LimitAccounted
  BY BurstAssumption DEF LogInit, SyslogInit, FilterInit, FilterTypeOK, LimitAccounted
<1>2. QueueOK /\ reportedDrops \in 0..queueDrops
  BY SyslogAssumption DEF LogInit, SyslogInit, QueueOK
<1>3. PageOK /\ ErrorShown
  BY DEF LogInit, SyslogInit, PageOK, ErrorShown
<1>4. savedSettings \in Settings
  BY DispatcherAssumption DEF LogInit
<1>5. ServerOK
  <2>1. Off \in Settings
    BY DEF Off, Settings
  <2>2. pending \subseteq [to : Settings, boot : BOOLEAN]
    BY <1>4 DEF LogInit, SyslogInit
  <2>3. enabledAge \in 0..AgeCap /\ resolveLeft \in Nat
    BY SyslogAssumption DEF LogInit, SyslogInit
  <2>4. active \in Settings
    BY <2>1 DEF LogInit, SyslogInit
  <2>5. QED
    BY <2>2, <2>3, <2>4 DEF LogInit, SyslogInit, ServerOK
<1>6. RightServer /\ LiteralInUse /\ HoldOver
  BY SyslogAssumption DEF LogInit, SyslogInit, RightServer, LiteralInUse, HoldOver, Off, Enabled
<1>7. TaskOK
  <2>1. nowLag \in 0..MaxLag /\ written \in 0..MaxLines /\ changes \in 0..MaxChanges
    BY DispatcherAssumption DEF LogInit
  <2>2. QED
    BY <1>4, <2>1 DEF LogInit, TaskOK
<1>8. QED
  BY <1>1, <1>2, <1>3, <1>5, <1>6, <1>7, Parts

\* A step of the others leaves the task where it is.
LEMMA WriteLineIInv == LogIInv /\ WriteLine => LogIInv'
<1> SUFFICES ASSUME LogIInv, WriteLine PROVE LogIInv'
  OBVIOUS
<1>0. /\ FilterTypeOK /\ LimitAccounted /\ QueueOK /\ reportedDrops \in 0..queueDrops
      /\ PageOK /\ ErrorShown /\ ServerOK /\ RightServer /\ LiteralInUse /\ TaskOK /\ HoldOver
  BY Parts
<1>1. Submit(<<"info">>) /\ written' = written + 1 /\ written < MaxLines
  BY DEF WriteLine
<1>2. UNCHANGED <<net, pending, active, enabledAge, resolveVars, sendFailing, shown,
                  filterVars, savedSettings, taskVars, changes>>
  BY DEF WriteLine
<1>3. QueueOK' /\ reportedDrops' \in 0..queueDrops'
  <2>1. <<"info">> \in Seq(Lines)
    BY DEF Lines
  <2>2. QueueOK' /\ queueDrops' >= queueDrops
    BY <1>0, <1>1, <2>1, SubmitOK
  <2>3. queueDrops \in Nat /\ queueDrops' \in Nat
    BY <1>0, <2>2 DEF QueueOK
  <2>4. QED
    BY <1>0, <1>2, <2>2, <2>3 DEF taskVars
<1>4. FilterTypeOK' /\ LimitAccounted'
  BY <1>0, <1>2 DEF filterVars, taskVars, FilterTypeOK, LimitAccounted
<1>5. PageOK' /\ ErrorShown' /\ ServerOK' /\ RightServer' /\ LiteralInUse' /\ HoldOver'
  BY <1>0, <1>2 DEF resolveVars, taskVars, PageOK, ErrorShown, ServerOK, RightServer, LiteralInUse,
                    HoldOver
<1>6. TaskOK'
  BY <1>0, <1>1, <1>2, DispatcherAssumption DEF taskVars, TaskOK
<1>7. QED
  BY <1>3, <1>4, <1>5, <1>6, PartsNext

LEMMA SaveSettingsIInv == LogIInv /\ SaveSettings => LogIInv'
<1> SUFFICES ASSUME LogIInv, SaveSettings PROVE LogIInv'
  OBVIOUS
<1>0. /\ FilterTypeOK /\ LimitAccounted /\ QueueOK /\ reportedDrops \in 0..queueDrops
      /\ PageOK /\ ErrorShown /\ ServerOK /\ RightServer /\ LiteralInUse /\ TaskOK /\ HoldOver
  BY Parts
<1>1. PICK settings \in Saveable : savedSettings' = settings /\ Configure(settings)
  BY DEF SaveSettings
<1>2. /\ changes < MaxChanges /\ changes' = changes + 1
      /\ UNCHANGED <<queueVars, net, active, enabledAge, resolveVars, sendFailing, shown,
                     filterVars, taskVars, written>>
  BY DEF SaveSettings
<1>3. settings \in Settings
  BY DispatcherAssumption
<1>4. pending' \subseteq [to : Settings, boot : BOOLEAN]
  BY <1>1, <1>3 DEF Configure
<1>5. ServerOK' /\ RightServer' /\ LiteralInUse' /\ HoldOver'
  BY <1>0, <1>2, <1>4 DEF resolveVars, taskVars, ServerOK, RightServer, LiteralInUse, HoldOver
<1>6. FilterTypeOK' /\ LimitAccounted'
  BY <1>0, <1>2 DEF filterVars, taskVars, FilterTypeOK, LimitAccounted
<1>7. QueueOK' /\ reportedDrops' \in 0..queueDrops' /\ PageOK' /\ ErrorShown'
  BY <1>0, <1>2 DEF queueVars, taskVars, QueueOK, PageOK, ErrorShown
<1>8. TaskOK'
  BY <1>0, <1>1, <1>2, <1>3, DispatcherAssumption DEF taskVars, TaskOK
<1>9. QED
  BY <1>5, <1>6, <1>7, <1>8, PartsNext

LEMMA NetworkChangesIInv == LogIInv /\ NetworkChanges => LogIInv'
<1> SUFFICES ASSUME LogIInv, NetworkChanges PROVE LogIInv'
  OBVIOUS
<1>0. /\ FilterTypeOK /\ LimitAccounted /\ QueueOK /\ reportedDrops \in 0..queueDrops
      /\ PageOK /\ ErrorShown /\ ServerOK /\ RightServer /\ LiteralInUse /\ TaskOK /\ HoldOver
  BY Parts
<1>1. /\ net' \in {"down", "lan", "wan"}
      /\ UNCHANGED <<queueVars, pending, active, enabledAge, resolveVars, sendFailing, shown,
                     filterVars, savedSettings, taskVars, written, changes>>
  BY DEF NetworkChanges
<1>2. ServerOK' /\ RightServer' /\ LiteralInUse' /\ HoldOver'
  BY <1>0, <1>1 DEF resolveVars, taskVars, ServerOK, RightServer, LiteralInUse, HoldOver
<1>3. FilterTypeOK' /\ LimitAccounted' /\ TaskOK'
  BY <1>0, <1>1 DEF filterVars, taskVars, FilterTypeOK, LimitAccounted, TaskOK
<1>4. QueueOK' /\ reportedDrops' \in 0..queueDrops' /\ PageOK' /\ ErrorShown'
  BY <1>0, <1>1 DEF queueVars, taskVars, QueueOK, PageOK, ErrorShown
<1>5. QED
  BY <1>2, <1>3, <1>4, PartsNext

\* The iterations of run().
LEMMA TaskApplyIInv == LogIInv /\ TaskApply => LogIInv'
<1> SUFFICES ASSUME LogIInv, TaskApply PROVE LogIInv'
  OBVIOUS
<1>0. /\ FilterTypeOK /\ LimitAccounted /\ QueueOK /\ reportedDrops \in 0..queueDrops
      /\ PageOK /\ ErrorShown /\ ServerOK /\ RightServer /\ LiteralInUse /\ TaskOK /\ HoldOver
  BY Parts
<1>1. /\ logPc' = "link"
      /\ UNCHANGED <<net, savedSettings, reportedDrops, inHand, nowLag, written, changes,
                     lookReady, announced, lossTold>>
  BY DEF TaskApply
<1>2. TaskOK' /\ HoldOver'
  BY <1>0, <1>1 DEF TaskOK, HoldOver
<1>3. CASE Apply
  <2>1. PICK change \in pending :
          /\ pending' = {}
          /\ active' = change.to
          /\ enabledAge' = 0
          /\ FilterConfigure
          /\ resolved' = FALSE /\ resolveFailing' = FALSE /\ resolveLeft' = 0
          /\ sendFailing' = FALSE
          /\ address' = IF change.to.host \in Literals THEN change.to.host ELSE address
          /\ shown' = IF Enabled(change.to) THEN "waiting" ELSE "disabled"
          /\ Submit(ChangeLines(active, change.to, change.boot))
    BY <1>3 DEF Apply
  <2>2. change.to \in Settings /\ change.boot \in BOOLEAN
    BY <1>0 DEF ServerOK
  <2>3. ChangeLines(active, change.to, change.boot) \in Seq(Lines)
    <3>1. <<"own">> \in Seq(Lines) /\ <<"notice">> \in Seq(Lines) /\ <<>> \in Seq(Lines)
      BY DEF Lines
    <3>2. QED
      BY <2>2, <3>1 DEF ChangeLines
  <2>4. QueueOK' /\ reportedDrops' \in 0..queueDrops'
    <3>1. QueueOK' /\ queueDrops' >= queueDrops
      BY <1>0, <2>1, <2>3, SubmitOK
    <3>2. queueDrops \in Nat /\ queueDrops' \in Nat
      BY <1>0, <3>1 DEF QueueOK
    <3>3. QED
      BY <1>0, <1>1, <3>1, <3>2
  <2>5. FilterTypeOK' /\ LimitAccounted'
    BY <1>0, <1>1, <2>1, BurstAssumption DEF FilterConfigure, FilterTypeOK, LimitAccounted
  <2>6. PageOK' /\ ErrorShown'
    BY <2>1 DEF PageOK, ErrorShown
  <2>7. ServerOK'
    <3>1. change.to.host \in Literals => change.to.host \in Host
      BY SyslogAssumption
    <3>2. address' \in Host \cup {NoHost}
      BY <1>0, <2>1, <3>1 DEF ServerOK
    <3>3. enabledAge' \in 0..AgeCap /\ resolveLeft' \in Nat
      BY <2>1, SyslogAssumption
    <3>4. resolved' \in BOOLEAN /\ resolveFailing' \in BOOLEAN /\ net' \in {"down", "lan", "wan"}
      BY <1>0, <1>1, <2>1 DEF ServerOK
    <3>5. active' \in Settings /\ pending' \subseteq [to : Settings, boot : BOOLEAN]
      BY <2>1, <2>2
    <3>6. QED
      BY <3>2, <3>3, <3>4, <3>5 DEF ServerOK
  <2>8. RightServer' /\ LiteralInUse'
    BY <2>1 DEF RightServer, LiteralInUse
  <2>9. QED
    BY <1>2, <2>4, <2>5, <2>6, <2>7, <2>8, PartsNext
<1>4. CASE UNCHANGED <<queueVars, pending, active, enabledAge, resolveVars,
                       sendFailing, shown, filterVars>>
  <2>1. QueueOK' /\ reportedDrops' \in 0..queueDrops' /\ PageOK' /\ ErrorShown'
    BY <1>0, <1>1, <1>4 DEF queueVars, QueueOK, PageOK, ErrorShown
  <2>2. FilterTypeOK' /\ LimitAccounted'
    BY <1>0, <1>1, <1>4 DEF filterVars, FilterTypeOK, LimitAccounted
  <2>3. ServerOK' /\ RightServer' /\ LiteralInUse'
    BY <1>0, <1>1, <1>4 DEF resolveVars, ServerOK, RightServer, LiteralInUse
  <2>4. QED
    BY <1>2, <2>1, <2>2, <2>3, PartsNext
<1>5. QED
  BY <1>3, <1>4 DEF TaskApply

\* resolve(): an address is taken as resolved only for the server in use.
LEMMA ResolveOK ==
    ASSUME QueueOK, ServerOK, Enabled(active), LiteralInUse, RightServer, Resolve
    PROVE  /\ QueueOK' /\ queueDrops' >= queueDrops
           /\ resolved' \in BOOLEAN /\ resolveFailing' \in BOOLEAN /\ resolveLeft' \in Nat
           /\ address' \in Host \cup {NoHost}
           /\ active.host \in Literals => address' = active.host
           /\ resolved' => address' = active.host
<1>a. queueDrops \in Nat
  BY DEF QueueOK
<1>b. active.host \in Host
  BY DEF ServerOK, Settings, Enabled
<1>1. CASE /\ active.host \in Literals /\ resolved' = TRUE
           /\ UNCHANGED <<resolveFailing, resolveLeft, address, queueVars>>
  BY <1>1, <1>a DEF queueVars, QueueOK, ServerOK, LiteralInUse
<1>2. CASE UNCHANGED <<resolveVars, queueVars>>
  BY <1>2, <1>a DEF resolveVars, queueVars, QueueOK, ServerOK, LiteralInUse, RightServer
<1>3. CASE active.host \notin Literals /\ NameFound
  <2>1. QueueOK' /\ queueDrops' >= queueDrops
    BY <1>3, <1>a DEF NameFound, queueVars, QueueOK
  <2>2. resolved' \in BOOLEAN /\ resolveFailing' \in BOOLEAN /\ address' = active.host
    BY <1>3 DEF NameFound
  <2>3. resolveLeft' \in Nat
    BY <1>3, SyslogAssumption DEF NameFound
  <2>4. QED
    BY <1>b, <2>1, <2>2, <2>3
<1>4. CASE active.host \notin Literals /\ NameNotFound
  <2> DEFINE lines == IF resolved \/ resolveFailing THEN <<>> ELSE <<"own">>
  <2>1. lines \in Seq(Lines)
    <3>1. <<"own">> \in Seq(Lines) /\ <<>> \in Seq(Lines)
      BY DEF Lines
    <3>2. QED
      BY <3>1
  <2>2. Submit(lines)
    BY <1>4 DEF NameNotFound
  <2> HIDE DEF lines
  <2>3. QueueOK' /\ queueDrops' >= queueDrops
    BY <2>1, <2>2, SubmitOK
  <2>4. resolveLeft' \in Nat /\ UNCHANGED <<resolved, address>>
    BY <1>4, SyslogAssumption DEF NameNotFound
  <2>5. resolveFailing' \in BOOLEAN
    BY <1>4 DEF NameNotFound
  <2>6. QED
    BY <1>4, <2>3, <2>4, <2>5 DEF ServerOK, RightServer
<1>5. QED
  BY <1>1, <1>2, <1>3, <1>4 DEF Resolve

LEMMA TaskLinkIInv == LogIInv /\ TaskLink => LogIInv'
<1> SUFFICES ASSUME LogIInv, TaskLink PROVE LogIInv'
  OBVIOUS
<1>0. /\ FilterTypeOK /\ LimitAccounted /\ QueueOK /\ reportedDrops \in 0..queueDrops
      /\ PageOK /\ ErrorShown /\ ServerOK /\ RightServer /\ LiteralInUse /\ TaskOK /\ HoldOver
  BY Parts
<1>1. /\ PollLink /\ logPc' = "report"
      /\ UNCHANGED <<net, pending, active, enabledAge, sendFailing, filterVars, savedSettings,
                     reportedDrops, inHand, nowLag, written, changes, lookReady, announced, lossTold>>
  BY DEF TaskLink
<1>2. TaskOK' /\ HoldOver' /\ FilterTypeOK' /\ LimitAccounted'
  BY <1>0, <1>1 DEF filterVars, TaskOK, HoldOver, FilterTypeOK, LimitAccounted
<1>a. queueDrops \in Nat
  BY <1>0 DEF QueueOK
<1>3. PageOK' /\ ErrorShown'
  BY <1>0, <1>1 DEF PollLink, PageOK, ErrorShown
<1>4. CASE UNCHANGED <<resolveVars, queueVars>>
  BY <1>0, <1>1, <1>2, <1>3, <1>4, PartsNext
     DEF resolveVars, queueVars, QueueOK, ServerOK, RightServer, LiteralInUse
<1>5. CASE Enabled(active) /\ Resolve
  <2>1. /\ QueueOK' /\ queueDrops' >= queueDrops
        /\ resolved' \in BOOLEAN /\ resolveFailing' \in BOOLEAN /\ resolveLeft' \in Nat
        /\ address' \in Host \cup {NoHost}
        /\ active.host \in Literals => address' = active.host
        /\ resolved' => address' = active.host
    BY <1>0, <1>5, ResolveOK
  <2>2. queueDrops' \in Nat
    BY <2>1 DEF QueueOK
  <2>3. reportedDrops' \in 0..queueDrops'
    BY <1>0, <1>1, <1>a, <2>1, <2>2
  <2>4. ServerOK' /\ RightServer' /\ LiteralInUse'
    BY <1>0, <1>1, <2>1 DEF ServerOK, RightServer, LiteralInUse
  <2>5. QED
    BY <1>2, <1>3, <2>1, <2>3, <2>4, PartsNext
<1>6. QED
  BY <1>1, <1>4, <1>5 DEF PollLink

LEMMA NoLag == 0 \in 0..MaxLag
BY DispatcherAssumption

LEMMA TaskReportIInv == LogIInv /\ TaskReport => LogIInv'
<1> SUFFICES ASSUME LogIInv, TaskReport PROVE LogIInv'
  OBVIOUS
<1>0. /\ FilterTypeOK /\ LimitAccounted /\ QueueOK /\ reportedDrops \in 0..queueDrops
      /\ PageOK /\ ErrorShown /\ ServerOK /\ RightServer /\ LiteralInUse /\ TaskOK /\ HoldOver
  BY Parts
<1>1. /\ logPc' = "hold" /\ reportedDrops' = queueDrops
      /\ UNCHANGED <<Untouched, inHand, nowLag, lookReady>>
  BY DEF TaskReport
<1>2. ServerOK' /\ RightServer' /\ LiteralInUse' /\ HoldOver'
  BY <1>0, <1>1 DEF Untouched, resolveVars, ServerOK, RightServer, LiteralInUse, HoldOver
<1>a. queueDrops \in Nat
  BY <1>0 DEF QueueOK
<1>3. CASE UNCHANGED <<queueVars, sendFailing, shown, filterVars, announced, lossTold>>
  <2>1. QueueOK' /\ reportedDrops' \in 0..queueDrops' /\ PageOK' /\ ErrorShown'
    BY <1>0, <1>1, <1>3, <1>a DEF queueVars, QueueOK, PageOK, ErrorShown
  <2>2. FilterTypeOK' /\ LimitAccounted' /\ TaskOK'
    BY <1>0, <1>1, <1>3 DEF filterVars, Untouched, FilterTypeOK, LimitAccounted, TaskOK
  <2>3. QED
    BY <1>2, <2>1, <2>2, PartsNext
<1>4. CASE Fanout("lost") /\ lossTold' \in BOOLEAN
  <2>1. /\ QueueOK' /\ queueDrops' >= queueDrops /\ PageOK' /\ ErrorShown'
        /\ FilterTypeOK' /\ LimitAccounted' /\ announced' \in Nat
    BY <1>4, FanoutOK
  <2>2. queueDrops' \in Nat
    BY <2>1 DEF QueueOK
  <2>3. reportedDrops' \in 0..queueDrops'
    BY <1>1, <1>a, <2>1, <2>2
  <2>4. TaskOK'
    BY <1>0, <1>1, <1>4, <2>1 DEF Untouched, TaskOK
  <2>5. QED
    BY <1>2, <2>1, <2>3, <2>4, PartsNext
<1>5. QED
  <2>1. lossTold \in BOOLEAN
    BY <1>0 DEF TaskOK
  <2>2. \/ UNCHANGED <<queueVars, sendFailing, shown, filterVars, announced, lossTold>>
        \/ Fanout("lost") /\ lossTold' \in BOOLEAN
    BY <2>1 DEF TaskReport, Fanout
  <2>3. QED
    BY <1>3, <1>4, <2>2

LEMMA TaskHoldIInv == LogIInv /\ TaskHold => LogIInv'
<1> SUFFICES ASSUME LogIInv, TaskHold PROVE LogIInv'
  OBVIOUS
<1>0. /\ FilterTypeOK /\ LimitAccounted /\ QueueOK /\ reportedDrops \in 0..queueDrops
      /\ PageOK /\ ErrorShown /\ ServerOK /\ RightServer /\ LiteralInUse /\ TaskOK /\ HoldOver
  BY Parts
<1>1. /\ lossTold' = FALSE
      /\ UNCHANGED <<queueVars, sendFailing, shown, filterVars, Untouched, reportedDrops,
                     inHand, announced>>
  BY DEF TaskHold
<1>2. QueueOK' /\ reportedDrops' \in 0..queueDrops' /\ PageOK' /\ ErrorShown'
  BY <1>0, <1>1 DEF queueVars, QueueOK, PageOK, ErrorShown
<1>3. FilterTypeOK' /\ LimitAccounted'
  BY <1>0, <1>1 DEF filterVars, FilterTypeOK, LimitAccounted
<1>4. ServerOK' /\ RightServer' /\ LiteralInUse'
  BY <1>0, <1>1 DEF Untouched, resolveVars, ServerOK, RightServer, LiteralInUse
<1>5. CASE ShouldHold /\ Again /\ UNCHANGED lookReady
  <2>1. TaskOK'
    BY <1>0, <1>1, <1>5, NoLag DEF Again, Untouched, TaskOK
  <2>2. HoldOver'
    BY <1>5 DEF Again, HoldOver
  <2>3. QED
    BY <1>2, <1>3, <1>4, <2>1, <2>2, PartsNext
<1>6. CASE ~ShouldHold /\ logPc' = "receive" /\ lookReady' = Ready /\ UNCHANGED nowLag
  <2>1. Ready \in BOOLEAN
    BY <1>0 DEF Ready, NetworkUp, ServerOK
  <2>2. TaskOK'
    BY <1>0, <1>1, <1>6, <2>1 DEF Untouched, TaskOK
  <2>3. enabledAge \in Nat /\ nowLag \in Nat /\ Hold \in Nat
    BY <1>0, DispatcherAssumption, SyslogAssumption DEF ServerOK, TaskOK
  <2>4. Ready \/ ~Enabled(active) \/ enabledAge >= Hold
    BY <1>6, <2>3 DEF ShouldHold
  <2>5. HoldOver'
    BY <1>1, <1>6, <2>1, <2>4 DEF Untouched, HoldOver
  <2>6. QED
    BY <1>2, <1>3, <1>4, <2>2, <2>5, PartsNext
<1>7. QED
  BY <1>5, <1>6 DEF TaskHold

LEMMA TaskReceiveIInv == LogIInv /\ TaskReceive => LogIInv'
<1> SUFFICES ASSUME LogIInv, TaskReceive PROVE LogIInv'
  OBVIOUS
<1>0. /\ FilterTypeOK /\ LimitAccounted /\ QueueOK /\ reportedDrops \in 0..queueDrops
      /\ PageOK /\ ErrorShown /\ ServerOK /\ RightServer /\ LiteralInUse /\ TaskOK /\ HoldOver
  BY Parts
<1>1. /\ logPc = "receive"
      /\ UNCHANGED <<queueDrops, sendFailing, shown, filterVars, Untouched, reportedDrops,
                     announced, lossTold>>
  BY DEF TaskReceive
<1>2. reportedDrops' \in 0..queueDrops' /\ PageOK' /\ ErrorShown'
  BY <1>0, <1>1 DEF PageOK, ErrorShown
<1>3. FilterTypeOK' /\ LimitAccounted'
  BY <1>0, <1>1 DEF filterVars, FilterTypeOK, LimitAccounted
<1>4. ServerOK' /\ RightServer' /\ LiteralInUse'
  BY <1>0, <1>1 DEF Untouched, resolveVars, ServerOK, RightServer, LiteralInUse
<1>5. CASE /\ queue # <<>>
           /\ inHand' = Head(queue) /\ queue' = Tail(queue)
           /\ logPc' = "deliver" /\ UNCHANGED <<nowLag, lookReady>>
  <2>1. Head(queue) \in Lines /\ Tail(queue) \in Seq(Lines) /\ Len(Tail(queue)) <= QueueLength
    BY <1>0, <1>5, SyslogAssumption DEF QueueOK
  <2>2. QueueOK'
    BY <1>0, <1>1, <1>5, <2>1 DEF QueueOK
  <2>3. TaskOK'
    BY <1>0, <1>1, <1>5, <2>1 DEF Untouched, Lines, TaskOK
  <2>4. HoldOver'
    BY <1>0, <1>1, <1>5 DEF Untouched, HoldOver
  <2>5. QED
    BY <1>2, <1>3, <1>4, <2>2, <2>3, <2>4, PartsNext
<1>6. CASE queue = <<>> /\ Again /\ lookReady' = FALSE /\ UNCHANGED <<queue, inHand>>
  <2>1. QueueOK'
    BY <1>0, <1>1, <1>6 DEF QueueOK
  <2>2. TaskOK'
    BY <1>0, <1>1, <1>6, NoLag DEF Again, Untouched, TaskOK
  <2>3. HoldOver'
    BY <1>6 DEF Again, HoldOver
  <2>4. QED
    BY <1>2, <1>3, <1>4, <2>1, <2>2, <2>3, PartsNext
<1>7. QED
  BY <1>5, <1>6 DEF TaskReceive

LEMMA TaskDeliverIInv == LogIInv /\ TaskDeliver => LogIInv'
<1> SUFFICES ASSUME LogIInv, TaskDeliver PROVE LogIInv'
  OBVIOUS
<1>0. /\ FilterTypeOK /\ LimitAccounted /\ QueueOK /\ reportedDrops \in 0..queueDrops
      /\ PageOK /\ ErrorShown /\ ServerOK /\ RightServer /\ LiteralInUse /\ TaskOK /\ HoldOver
  BY Parts
<1>1. /\ Fanout(inHand) /\ inHand' = "none" /\ lookReady' = FALSE /\ Again
      /\ UNCHANGED <<Untouched, reportedDrops, lossTold>>
  BY DEF TaskDeliver, Fanout
<1>2. /\ QueueOK' /\ queueDrops' >= queueDrops /\ PageOK' /\ ErrorShown'
      /\ FilterTypeOK' /\ LimitAccounted' /\ announced' \in Nat
  BY <1>1, FanoutOK
<1>3. queueDrops \in Nat /\ queueDrops' \in Nat
  BY <1>0, <1>2 DEF QueueOK
<1>4. reportedDrops' \in 0..queueDrops'
  BY <1>0, <1>1, <1>2, <1>3
<1>5. ServerOK' /\ RightServer' /\ LiteralInUse'
  BY <1>0, <1>1 DEF Untouched, resolveVars, ServerOK, RightServer, LiteralInUse
<1>6. TaskOK' /\ HoldOver'
  BY <1>0, <1>1, <1>2, NoLag DEF Again, Untouched, TaskOK, HoldOver
<1>7. QED
  BY <1>2, <1>4, <1>5, <1>6, PartsNext

LEMMA LogElapseIInv == LogIInv /\ LogElapse => LogIInv'
<1> SUFFICES ASSUME LogIInv, LogElapse PROVE LogIInv'
  OBVIOUS
<1>0. /\ FilterTypeOK /\ LimitAccounted /\ QueueOK /\ reportedDrops \in 0..queueDrops
      /\ PageOK /\ ErrorShown /\ ServerOK /\ RightServer /\ LiteralInUse /\ TaskOK /\ HoldOver
  BY Parts
<1>1. /\ nowLag < MaxLag /\ nowLag' = nowLag + 1 /\ SyslogElapse
      /\ UNCHANGED <<savedSettings, reportedDrops, logPc, inHand, written, changes,
                     lookReady, announced, lossTold>>
  BY DEF LogElapse
<1>2. QueueOK' /\ reportedDrops' \in 0..queueDrops' /\ PageOK' /\ ErrorShown'
  BY <1>0, <1>1 DEF SyslogElapse, queueVars, QueueOK, PageOK, ErrorShown
<1>3. FilterTypeOK' /\ LimitAccounted'
  BY <1>0, <1>1, BurstAssumption
     DEF SyslogElapse, FilterElapse, Older, FilterTypeOK, LimitAccounted
<1>4. enabledAge' \in 0..AgeCap /\ resolveLeft' \in Nat
  BY <1>0, <1>1, SyslogAssumption DEF SyslogElapse, Older, Sooner, ServerOK
<1>5. ServerOK' /\ RightServer' /\ LiteralInUse'
  BY <1>0, <1>1, <1>4 DEF SyslogElapse, ServerOK, RightServer, LiteralInUse
<1>6. TaskOK'
  <2>1. nowLag' \in 0..MaxLag
    BY <1>0, <1>1, DispatcherAssumption DEF TaskOK
  <2>2. QED
    BY <1>0, <1>1, <2>1 DEF TaskOK
<1>7. HoldOver'
  <2>1. /\ Hold \in Nat /\ MaxLag \in Nat /\ AgeCap = Hold + MaxLag
    BY DispatcherAssumption
  <2>2. enabledAge >= Hold => enabledAge' >= Hold
    BY <1>0, <1>1, <2>1 DEF SyslogElapse, Older, ServerOK
  <2>3. QED
    BY <1>0, <1>1, <2>2 DEF SyslogElapse, HoldOver
<1>8. QED
  BY <1>2, <1>3, <1>5, <1>6, <1>7, PartsNext

LEMMA LogStutterIInv == LogIInv /\ UNCHANGED logVars => LogIInv'
<1> SUFFICES ASSUME LogIInv, UNCHANGED logVars PROVE LogIInv'
  OBVIOUS
<1>0. /\ FilterTypeOK /\ LimitAccounted /\ QueueOK /\ reportedDrops \in 0..queueDrops
      /\ PageOK /\ ErrorShown /\ ServerOK /\ RightServer /\ LiteralInUse /\ TaskOK /\ HoldOver
  BY Parts
<1> USE DEF logVars, syslogVars, queueVars, resolveVars, filterVars, taskVars
<1>1. QueueOK' /\ reportedDrops' \in 0..queueDrops' /\ PageOK' /\ ErrorShown'
  BY <1>0 DEF QueueOK, PageOK, ErrorShown
<1>2. FilterTypeOK' /\ LimitAccounted' /\ TaskOK'
  BY <1>0 DEF FilterTypeOK, LimitAccounted, TaskOK
<1>3. ServerOK' /\ RightServer' /\ LiteralInUse' /\ HoldOver'
  BY <1>0 DEF ServerOK, RightServer, LiteralInUse, HoldOver
<1>4. QED
  BY <1>1, <1>2, <1>3, PartsNext

LEMMA LogStepIInv == LogIInv /\ [LogNext]_logVars => LogIInv'
BY WriteLineIInv, SaveSettingsIInv, NetworkChangesIInv, TaskApplyIInv, TaskLinkIInv,
   TaskReportIInv, TaskHoldIInv, TaskReceiveIInv, TaskDeliverIInv, LogElapseIInv, LogStutterIInv
   DEF LogNext, LogTask

\* Whatever lines, settings, links and servers do: datagrams go to the server of the
\* settings in use (apply(), resolve()), the page shows an error exactly while the last
\* line was refused (deliver()), and the lines the rate limit refused are counted once
\* (LogOutputFilter).
THEOREM LogInvariant == LogSpec => []LogInv
<1>1. LogIInv => LogInv
  BY DEF LogIInv
<1>2. QED
  BY InitIInv, LogStepIInv, <1>1, PTL DEF LogSpec

\* Lines are not thrown away while shouldHold() should have held them, however long an
\* iteration of the task takes and whenever settings are applied in it (LogFanout.h).
THEOREM HoldKeepsLines == LogSpec => HeldLinesKept
<1>1. LogIInv /\ [LogNext]_logVars =>
          [ logPc = "deliver" /\ logPc' = "apply" /\ Enabled(active) /\ inHand # "own" /\ ~Ready =>
            lookReady \/ enabledAge >= Hold ]_logVars
  BY DEF LogIInv, HoldOver
<1>2. QED
  BY InitIInv, LogStepIInv, <1>1, PTL DEF LogSpec, HeldLinesKept

===============================================================================
