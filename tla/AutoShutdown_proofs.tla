------------------------- MODULE AutoShutdown_proofs --------------------------
(***************************************************************************)
(* OncePerEvent and ShutdownInv for any number of shutdown commands, any   *)
(* poll cycle and any limits of the link.                                  *)
(***************************************************************************)
EXTENDS AutoShutdown, TLAPS, WellFoundedInduction

(***************************************************************************)
(* The loopTask has still to see status (once it was read), shown and then *)
(* power.  How many shutdowns it may decide on while it sees them, when it *)
(* is armed (n = 1) or not (0): each low battery it sees armed is one, and *)
(* each return of the mains arms it.                                       *)
(***************************************************************************)
FromPower(n) == IF power = "OL" THEN 0 ELSE n
FromShown(n) == IF shown = "OL" THEN FromPower(1)
                ELSE IF shown = "LB" THEN n ELSE FromPower(n)
FromStatus(n) == IF status = "OL" THEN FromShown(1)
                 ELSE IF status = "LB" THEN n + FromShown(0) ELSE FromShown(n)

Armed == IF armed THEN 1 ELSE 0
Ahead == FromStatus(Armed)

\* After a lost answer no other command is tried: the backoff lasts as long as the
\* tries, and the ladder of the link starts at its foot.
Paused == backoffLeft > 0 /\ windowAge = 0

\* The shutdowns the decision in progress may still carry out.
InHand == IF checkPc = "start" \/ (checkPc = "send" /\ ~Paused) THEN 1 ELSE 0

EventTypes ==
    /\ power \in Powers /\ shown \in Powers \cup {"none"}
    /\ unhandled \in Int /\ unhandled <= 2
    /\ status \in Powers \cup {"none"} /\ armed \in BOOLEAN
    /\ backoff \in Nat /\ backoffLeft \in Nat /\ windowAge \in Nat

\* The board is not in a decision with a status in its hand, and is disarmed while it
\* carries one out.
Stages ==
    /\ checkPc # "decide" => status = "none"
    /\ checkPc \in {"start", "send"} => ~armed

EventInv ==
    /\ EventTypes /\ Stages
    /\ unhandled >= InHand + Ahead

-------------------------------------------------------------------------------
(* What the steps do to the two counts.                                    *)

LEMMA Counts ==
    /\ FromShown(0) \in {0, 1} /\ FromShown(1) \in {0, 1} /\ FromShown(0) <= FromShown(1)
    /\ FromStatus(0) \in {0, 1} /\ FromStatus(1) \in 0..2
    /\ FromStatus(0) <= FromStatus(1) /\ FromStatus(1) <= FromStatus(0) + 1
    /\ Ahead \in 0..2 /\ (~armed => Ahead \in {0, 1} /\ Ahead = FromStatus(0))
    /\ status = "none" => Ahead \in {0, 1}
    /\ InHand \in {0, 1}
<1>1. FromShown(0) \in {0, 1} /\ FromShown(1) \in {0, 1} /\ FromShown(0) <= FromShown(1)
  BY DEF FromShown, FromPower
<1>2. /\ FromStatus(0) \in {0, 1} /\ FromStatus(1) \in 0..2
      /\ FromStatus(0) <= FromStatus(1) /\ FromStatus(1) <= FromStatus(0) + 1
      /\ status = "none" => FromStatus(1) \in {0, 1}
  BY DEF FromStatus, FromShown, FromPower
<1>3. /\ Ahead \in 0..2 /\ (~armed => Ahead \in {0, 1} /\ Ahead = FromStatus(0))
      /\ status = "none" => Ahead \in {0, 1}
  BY DEF Ahead, Armed, FromStatus, FromShown, FromPower
<1>4. InHand \in {0, 1}
  BY DEF InHand
<1>5. QED
  BY <1>1, <1>2, <1>3, <1>4

\* The same, a step later.
LEMMA CountsNext ==
    /\ Ahead' \in 0..2 /\ (~armed' => Ahead' \in {0, 1})
    /\ status' = "none" => Ahead' \in {0, 1}
    /\ InHand' \in {0, 1}
<1>1. FromShown(0)' \in {0, 1} /\ FromShown(1)' \in {0, 1}
  BY DEF FromShown, FromPower
<1>2. /\ FromStatus(0)' \in {0, 1} /\ FromStatus(1)' \in 0..2
      /\ status' = "none" => FromStatus(1)' \in {0, 1}
  BY DEF FromStatus, FromShown, FromPower
<1>3. Armed' = IF armed' THEN 1 ELSE 0
  BY DEF Armed
<1>4. Ahead' \in 0..2 /\ (~armed' => Ahead' \in {0, 1}) /\ (status' = "none" => Ahead' \in {0, 1})
  BY DEF Ahead, Armed, FromStatus, FromShown, FromPower
<1>5. InHand' \in {0, 1}
  BY DEF InHand
<1>6. QED
  BY <1>4, <1>5

\* The loopTask sees the same.
LEMMA SameAhead ==
    ASSUME UNCHANGED <<power, shown, status, armed>>
    PROVE  Ahead' = Ahead
BY DEF Ahead, Armed, FromStatus, FromShown, FromPower

\* What was shown is gone, or replaced by what the UPS reports.
LEMMA LessAhead ==
    ASSUME EventTypes, UNCHANGED <<power, status, armed>>, shown' \in {"none", power}
    PROVE  Ahead' <= Ahead
BY DEF EventTypes, Powers, Ahead, Armed, FromStatus, FromShown, FromPower

\* A failure of the mains is one more; their return and a low battery are none.
LEMMA PowerAhead ==
    ASSUME EventTypes, UNCHANGED <<shown, status, armed>>, power' \in Powers
    PROVE  Ahead' <= Ahead + (IF power = "OL" THEN 1 ELSE 0)
BY DEF EventTypes, Powers, Ahead, Armed, FromStatus, FromShown, FromPower

\* Names for the four counts, which the solver adds up as it does not the operators.
LEMMA FourCounts ==
    \E h, k, a, b \in Int : h = InHand' /\ k = InHand /\ a = Ahead' /\ b = Ahead
<1>1. Ahead \in Int /\ Ahead' \in Int /\ InHand \in Int /\ InHand' \in Int
  BY Counts, CountsNext
<1>2. QED
  BY <1>1

\* The counts do not grow, and no shutdown was carried out.
LEMMA StillEnough ==
    ASSUME unhandled \in Int, unhandled >= InHand + Ahead, unhandled' = unhandled,
           InHand' <= InHand, Ahead' <= Ahead
    PROVE  unhandled' >= InHand' + Ahead'
<1>1. PICK h, k, a, b \in Int : h = InHand' /\ k = InHand /\ a = Ahead' /\ b = Ahead
  BY FourCounts
<1>2. unhandled >= k + b /\ h <= k /\ a <= b
  BY <1>1
<1>3. unhandled' >= h + a
  BY <1>2
<1>4. QED
  BY <1>1, <1>3

\* A failure of the mains more, seen or still to be seen.
LEMMA OneMoreEnough ==
    ASSUME unhandled \in Int, unhandled <= 2, unhandled >= InHand + Ahead,
           unhandled' = OneMore(unhandled), InHand' + Ahead' <= 2,
           \/ InHand' <= InHand /\ Ahead' <= Ahead + 1
           \/ InHand' <= InHand + 1 /\ Ahead' <= Ahead
    PROVE  unhandled' >= InHand' + Ahead'
<1>1. PICK h, k, a, b \in Int : h = InHand' /\ k = InHand /\ a = Ahead' /\ b = Ahead
  BY FourCounts
<1>2. unhandled >= k + b
  BY <1>1
<1>3. h + a <= 2
  BY <1>1
<1>4. unhandled' = IF unhandled < 2 THEN unhandled + 1 ELSE 2
  BY DEF OneMore
<1>5. unhandled' >= h + a
  <2>1. CASE InHand' <= InHand /\ Ahead' <= Ahead + 1
    <3>1. h <= k
      BY <1>1, <2>1
    <3>2. a <= b + 1
      BY <1>1, <2>1
    <3>3. QED
      BY <1>2, <1>3, <1>4, <3>1, <3>2
  <2>2. CASE InHand' <= InHand + 1 /\ Ahead' <= Ahead
    <3>1. h <= k + 1
      BY <1>1, <2>2
    <3>2. a <= b
      BY <1>1, <2>2
    <3>3. QED
      BY <1>2, <1>3, <1>4, <3>1, <3>2
  <2>3. QED
    BY <2>1, <2>2
<1>6. QED
  BY <1>1, <1>5

\* Disarmed during a decision, the loopTask has at most one shutdown ahead.
LEMMA AtMostTwo ==
    ASSUME Stages', armed' \in BOOLEAN
    PROVE  InHand' + Ahead' <= 2
<1>1. Ahead' \in 0..2 /\ (~armed' => Ahead' \in {0, 1}) /\ InHand' \in {0, 1}
  BY CountsNext
<1>2. InHand' = 1 => checkPc' \in {"start", "send"}
  BY DEF InHand
<1>3. InHand' = 1 => ~armed'
  BY <1>2 DEF Stages
<1>4. InHand' = 1 => Ahead' \in {0, 1}
  BY <1>1, <1>3
<1>5. PICK h, k, a, b \in Int : h = InHand' /\ k = InHand /\ a = Ahead' /\ b = Ahead
  BY FourCounts
<1>6. h \in {0, 1} /\ a \in 0..2 /\ (h = 1 => a \in {0, 1})
  BY <1>1, <1>4, <1>5
<1>7. h + a <= 2
  BY <1>6
<1>8. QED
  BY <1>5, <1>7

LEMMA SameHand ==
    ASSUME UNCHANGED <<checkPc, backoffLeft, windowAge>>
    PROVE  InHand' = InHand
BY DEF InHand, Paused

\* Outside a pause nothing can be in hand that was not.
LEMMA NoMoreInHand ==
    ASSUME EventTypes, CanPoll \/ windowAge >= LinkTimeout, checkPc' = checkPc
    PROVE  InHand' <= InHand
<1>1. ~Paused
  BY LinkMonitorAssumption DEF EventTypes, CanPoll, Paused
<1>2. QED
  BY <1>1 DEF InHand

\* What the link does with an answer and without one.
LEMMA LinkTypes ==
    ASSUME EventTypes, LinkAlive \/ LinkFailure \/ LinkRecovering \/ LinkElapse
    PROVE  backoff' \in Nat /\ backoffLeft' \in Nat /\ windowAge' \in Nat
BY LinkMonitorAssumption
   DEF EventTypes, LinkAlive, LinkReset, LinkFailure, LinkRecovering, LinkElapse,
       LinkFailing, Sooner, Older

-------------------------------------------------------------------------------
LEMMA EventInit == ShutdownInit => EventInv
<1> SUFFICES ASSUME ShutdownInit PROVE EventInv
  OBVIOUS
<1>1. /\ power = "OL" /\ shown = "none" /\ status = "none" /\ unhandled = 0 /\ armed = TRUE
      /\ checkPc = "idle" /\ backoff = 0 /\ backoffLeft = 0 /\ windowAge = 0
  BY DEF ShutdownInit, LinkInit
<1>2. EventTypes /\ Stages
  BY <1>1 DEF EventTypes, Stages, Powers
<1>3. InHand = 0 /\ Ahead = 0
  BY <1>1 DEF InHand, Ahead, Armed, FromStatus, FromShown, FromPower
<1>4. QED
  BY <1>1, <1>2, <1>3 DEF EventInv

LEMMA UpsInv ==
    ASSUME EventInv,
           (\E p \in Powers : ChangePower(p)) \/ ChangeAnswering \/ Disconnect \/ Claim
    PROVE  EventInv'
<1>1. EventTypes /\ Stages /\ unhandled >= InHand + Ahead
  BY DEF EventInv
<1>2. UNCHANGED <<status, armed, checkPc>>
  BY DEF ChangePower, ChangeAnswering, Disconnect, Claim, checkVars
<1>3. Stages'
  BY <1>1, <1>2 DEF Stages
<1>4. CASE \E p \in Powers : ChangePower(p)
  <2>1. /\ power' \in Powers /\ UNCHANGED <<shown, linkVars>>
        /\ unhandled' = IF power = "OL" THEN OneMore(unhandled) ELSE unhandled
    BY <1>4 DEF ChangePower, dataVars
  <2>2. EventTypes'
    BY <1>1, <1>2, <2>1 DEF EventTypes, linkVars, OneMore
  <2>3. InHand' = InHand
    BY <1>2, <2>1, SameHand DEF linkVars
  <2>4. Ahead' <= Ahead + (IF power = "OL" THEN 1 ELSE 0)
    BY <1>1, <1>2, <2>1, PowerAhead
  <2>5. InHand' + Ahead' <= 2
    BY <1>3, <2>2, AtMostTwo DEF EventTypes
  <2>6. unhandled' >= InHand' + Ahead'
    <3>1. InHand' <= InHand
      BY <2>3, Counts
    <3>2. CASE power = "OL"
      BY <1>1, <2>1, <2>4, <2>5, <3>1, <3>2, OneMoreEnough DEF EventTypes
    <3>3. CASE power # "OL"
      <4>1. Ahead' <= Ahead
        BY <2>4, <3>3, Counts, CountsNext
      <4>2. QED
        BY <1>1, <2>1, <3>1, <3>3, <4>1, StillEnough DEF EventTypes
    <3>4. QED
      BY <3>2, <3>3
  <2>7. QED
    BY <1>3, <2>2, <2>6 DEF EventInv
<1>5. CASE ChangeAnswering \/ Disconnect
  <2>1. /\ UNCHANGED <<power, linkVars, unhandled>> /\ shown' \in {shown, "none"}
    BY <1>5 DEF ChangeAnswering, Disconnect, dataVars, upsVars
  <2>2. EventTypes'
    BY <1>1, <1>2, <2>1 DEF EventTypes, linkVars
  <2>3. Ahead' <= Ahead /\ InHand' = InHand
    BY <1>1, <1>2, <2>1, SameHand, SameAhead, LessAhead, Counts DEF linkVars
  <2>4. InHand' <= InHand
    BY <2>3, Counts
  <2>5. QED
    BY <1>1, <1>3, <2>1, <2>2, <2>3, <2>4, StillEnough DEF EventInv, EventTypes
<1>6. CASE Claim
  <2>1. /\ UNCHANGED <<power, shown>> /\ LinkReset
        /\ unhandled' = IF checkPc = "send" THEN OneMore(unhandled) ELSE unhandled
    BY <1>6 DEF Claim
  <2>2. EventTypes'
    BY <1>1, <1>2, <2>1 DEF EventTypes, LinkReset, OneMore
  <2>3. Ahead' = Ahead
    BY <1>2, <2>1, SameAhead
  <2>4. CASE checkPc = "send"
    <3>1. InHand' <= InHand + 1 /\ Ahead' <= Ahead
      BY <2>3, Counts, CountsNext
    <3>2. InHand' + Ahead' <= 2
      BY <1>3, <2>2, AtMostTwo DEF EventTypes
    <3>3. unhandled' >= InHand' + Ahead'
      BY <1>1, <2>1, <2>4, <3>1, <3>2, OneMoreEnough DEF EventTypes
    <3>4. QED
      BY <1>3, <2>2, <3>3 DEF EventInv
  <2>5. CASE checkPc # "send"
    <3>1. InHand' = InHand
      BY <1>2, <2>5 DEF InHand
    <3>2. QED
      <4>1. InHand' <= InHand /\ Ahead' <= Ahead /\ unhandled' = unhandled
        BY <2>1, <2>3, <2>5, <3>1, Counts
      <4>2. QED
        BY <1>1, <1>3, <2>2, <4>1, StillEnough DEF EventInv, EventTypes
  <2>6. QED
    BY <2>4, <2>5
<1>7. QED
  BY <1>4, <1>5, <1>6

\* The poll task: while the link is paused it asks for nothing.
LEMMA PollInv ==
    ASSUME EventInv, PollTask
    PROVE  EventInv'
<1>1. EventTypes /\ Stages /\ unhandled >= InHand + Ahead
  BY DEF EventInv
<1>2. UNCHANGED <<power, status, armed, checkPc, unhandled>> /\ shown' \in {shown, power}
  BY DEF PollTask, LinkLadder, PollStartsCycle, PollRequests, PollWaits, ServiceDiagRead,
         DiagStarts, DiagRequests, DiagStops, Answer, NoAnswer, checkVars, upsVars, dataVars
<1>3. \/ UNCHANGED linkVars
      \/ (CanPoll \/ windowAge >= LinkTimeout) /\ (LinkAlive \/ LinkFailure \/ LinkRecovering)
  <2>1. CASE LinkLadder
    <3>1. LinkTick(FALSE) = "RECOVER" => windowAge >= LinkTimeout
      BY <1>1, LinkMonitorAssumption DEF LinkTick, EventTypes
    <3>2. QED
      BY <2>1, <3>1 DEF LinkLadder
  <2>2. CASE PollRequests \/ DiagRequests
    BY <2>2 DEF PollRequests, DiagRequests, Answer, NoAnswer
  <2>3. CASE PollStartsCycle \/ PollWaits \/ DiagStarts \/ DiagStops
    BY <2>3 DEF PollStartsCycle, PollWaits, DiagStarts, DiagStops
  <2>4. QED
    BY <2>1, <2>2, <2>3 DEF PollTask, ServiceDiagRead
<1>4. EventTypes'
  BY <1>1, <1>2, <1>3, LinkTypes DEF EventTypes, linkVars
<1>5. Stages'
  BY <1>1, <1>2 DEF Stages
<1>6. InHand' <= InHand
  BY <1>1, <1>2, <1>3, SameHand, NoMoreInHand, Counts DEF linkVars
<1>7. Ahead' <= Ahead
  BY <1>1, <1>2, SameAhead, LessAhead, Counts
<1>8. QED
  BY <1>1, <1>2, <1>4, <1>5, <1>6, <1>7, StillEnough DEF EventInv, EventTypes

-------------------------------------------------------------------------------
(* The loopTask.                                                           *)

LEMMA DecideInv ==
    ASSUME EventInv, ReadStatus \/ Decide
    PROVE  EventInv'
<1>1. EventTypes /\ Stages /\ unhandled >= InHand + Ahead
  BY DEF EventInv
<1>2. UNCHANGED <<power, shown, unhandled, linkVars>>
  BY DEF ReadStatus, Decide, upsVars, dataVars
<1>3. CASE ReadStatus
  <2>1. /\ checkPc = "idle" /\ checkPc' = "decide" /\ armed' = armed
        /\ status' = shown /\ status = "none"
    BY <1>1, <1>3 DEF ReadStatus, Stages
  <2>2. EventTypes' /\ Stages'
    BY <1>1, <1>2, <2>1 DEF EventTypes, Stages, linkVars
  <2>3. InHand' = 0 /\ InHand = 0
    BY <2>1 DEF InHand
  <2>4. Ahead' = Ahead
    BY <1>1, <1>2, <2>1 DEF Ahead, Armed, FromStatus, FromShown, FromPower, EventTypes, Powers
  <2>5. QED
    BY <1>1, <1>2, <2>2, <2>3, <2>4 DEF EventInv
<1>4. CASE Decide
  <2>1. /\ checkPc = "decide" /\ status' = "none"
        /\ armed' = IF ~Stale /\ status = "OL" THEN TRUE ELSE armed /\ ~Fires
        /\ checkPc' = IF Fires THEN "start" ELSE "idle"
    BY <1>4 DEF Decide
  <2>2. /\ Fires => status = "LB" /\ armed /\ ~armed'
        /\ Fires \in BOOLEAN
    BY <1>1, <2>1 DEF Fires, EventTypes
  <2>3. EventTypes' /\ Stages'
    BY <1>1, <1>2, <2>1, <2>2 DEF EventTypes, Stages, linkVars
  <2>4. InHand = 0 /\ InHand' = IF Fires THEN 1 ELSE 0
    BY <2>1 DEF InHand
  <2>5. Ahead' = IF armed' THEN FromShown(1) ELSE FromShown(0)
    BY <1>2, <2>1, <2>3 DEF Ahead, Armed, FromStatus, FromShown, FromPower, EventTypes
  <2>6. InHand' + Ahead' <= Ahead
    <3>1. CASE Fires
      BY <2>2, <2>4, <2>5, <3>1, Counts DEF Ahead, Armed, FromStatus
    <3>2. CASE ~Fires /\ ~Stale /\ status = "OL"
      BY <1>1, <2>1, <2>4, <2>5, <3>2, Counts DEF Ahead, Armed, FromStatus
    <3>3. CASE ~Fires /\ ~(~Stale /\ status = "OL")
      <4>1. armed' = armed
        BY <1>1, <2>1, <3>3 DEF EventTypes
      <4>2. QED
        BY <1>1, <2>4, <2>5, <3>3, <4>1, Counts DEF Ahead, Armed, FromStatus, EventTypes
    <3>4. QED
      BY <2>2, <3>1, <3>2, <3>3
  <2>7. unhandled' >= InHand' + Ahead'
    <3>1. PICK h, k, a, b \in Int : h = InHand' /\ k = InHand /\ a = Ahead' /\ b = Ahead
      BY FourCounts
    <3>2. h + a <= b /\ unhandled >= k + b /\ k = 0 /\ unhandled \in Int
      BY <1>1, <2>4, <2>6, <3>1 DEF EventTypes
    <3>3. unhandled' >= h + a
      BY <1>2, <3>2
    <3>4. QED
      BY <3>1, <3>3
  <2>8. QED
    BY <2>3, <2>7 DEF EventInv
<1>5. QED
  BY <1>3, <1>4

LEMMA StartInv ==
    ASSUME EventInv, StartCommand
    PROVE  EventInv'
<1>1. EventTypes /\ Stages /\ unhandled >= InHand + Ahead
  BY DEF EventInv
<1>2. /\ UNCHANGED <<power, shown, status, unhandled, linkVars>>
      /\ checkPc = "start" /\ ~armed /\ status = "none"
      /\ ready => checkPc' = "send" /\ armed' = armed
      /\ ~ready => checkPc' = "idle" /\ armed' = TRUE
  BY <1>1 DEF StartCommand, upsVars, dataVars, Stages, EventTypes
<1>3. EventTypes' /\ Stages'
  <2>1. armed' \in BOOLEAN /\ (checkPc' = "send" => armed' = FALSE)
        /\ checkPc' \in {"send", "idle"} /\ status' = "none"
    BY <1>1, <1>2 DEF EventTypes
  <2>2. EventTypes'
    BY <1>1, <1>2, <2>1 DEF EventTypes, linkVars
  <2>3. QED
    BY <2>1, <2>2 DEF Stages
<1>4. InHand = 1
  BY <1>2 DEF InHand
<1>5. CASE ready
  <2>0. InHand' <= InHand /\ Ahead' <= Ahead
    BY <1>2, <1>4, <1>5, SameAhead, Counts, CountsNext
  <2>1. Ahead' = Ahead
    BY <1>2, <1>5, SameAhead
  <2>2. QED
    BY <1>1, <1>2, <1>3, <1>4, <2>1, <2>0, StillEnough DEF EventInv, EventTypes
<1>6. CASE ~ready
  <2>1. InHand' = 0
    BY <1>2, <1>6 DEF InHand
  <2>2. Ahead' = FromStatus(1)
    BY <1>2, <1>6 DEF Ahead, Armed, FromStatus, FromShown, FromPower
  <2>3. Ahead = FromStatus(0)
    BY <1>2 DEF Ahead, Armed
  <2>4. QED
    BY <1>1, <1>2, <1>3, <1>4, <2>1, <2>2, <2>3, Counts DEF EventInv, EventTypes
<1>7. QED
  BY <1>5, <1>6

\* A try: one shutdown fewer to expect if the UPS may have carried it out, and then no
\* other try before the link goes on.
LEMMA SendInv ==
    ASSUME EventInv, CommandNotSent \/ CommandUnanswered \/ CommandRejected
                       \/ CommandAnswerLost \/ CommandOK
    PROVE  EventInv'
<1>1. EventTypes /\ Stages /\ unhandled >= InHand + Ahead
  BY DEF EventInv
<1>2. /\ checkPc = "send" /\ checkPc' \in {"idle", "send"}
      /\ UNCHANGED <<power, shown, status, armed>>
  BY DEF CommandNotSent, CommandUnanswered, CommandRejected, CommandAnswerLost, CommandOK,
         CommandFails, dataVars
<1>3. Stages'
  BY <1>1, <1>2 DEF Stages
<1>4. Ahead' = Ahead
  BY <1>2, SameAhead
<1>6. CASE CommandNotSent
  <2>1. UNCHANGED <<linkVars, unhandled>>
    BY <1>6 DEF CommandNotSent
  <2>2. EventTypes'
    BY <1>1, <1>2, <2>1 DEF EventTypes, linkVars
  <2>3. InHand' <= InHand
    BY <1>2, <2>1 DEF InHand, Paused, linkVars
  <2>4. QED
    <3>1. Ahead' <= Ahead
      BY <1>4, Counts
    <3>2. QED
      BY <1>1, <1>3, <2>1, <2>2, <2>3, <3>1, StillEnough DEF EventInv, EventTypes
<1>7. CASE CommandUnanswered \/ CommandRejected
  <2>1. unhandled' = unhandled /\ CanPoll /\ (LinkAlive \/ LinkFailure)
    BY <1>7 DEF CommandUnanswered, CommandRejected, MayWrite, Answer, NoAnswer
  <2>2. EventTypes'
    BY <1>1, <1>2, <2>1, LinkTypes DEF EventTypes
  <2>3. InHand = 1
    BY <1>2, <2>1 DEF InHand, Paused, CanPoll
  <2>4. QED
    <3>1. Ahead' <= Ahead /\ InHand' <= InHand
      BY <1>4, <2>3, Counts, CountsNext
    <3>2. QED
      BY <1>1, <1>3, <2>1, <2>2, <3>1, StillEnough DEF EventInv, EventTypes
<1>8. CASE CommandAnswerLost \/ CommandOK
  <2>1. CanPoll /\ (CarriedOut \/ UNCHANGED unhandled)
    BY <1>8 DEF CommandAnswerLost, CommandOK, MayWrite
  <2>2. InHand = 1
    BY <1>2, <2>1 DEF InHand, Paused, CanPoll
  <2>3. unhandled' >= Ahead' /\ unhandled' \in Int /\ unhandled' <= 2
    BY <1>1, <1>4, <2>1, <2>2, Counts DEF CarriedOut, EventTypes
  <2>4. InHand' = 0 /\ backoff' \in Nat /\ backoffLeft' \in Nat /\ windowAge' \in Nat
    <3>1. CASE CommandOK
      BY <1>1, <3>1, LinkTypes DEF CommandOK, Answer, InHand
    <3>2. CASE CommandAnswerLost
      BY <1>2, <3>2, LinkMonitorAssumption DEF CommandAnswerLost, InHand, Paused
    <3>3. QED
      BY <1>8, <3>1, <3>2
  <2>5. EventTypes'
    BY <1>1, <1>2, <2>3, <2>4 DEF EventTypes
  <2>6. QED
    BY <1>3, <1>4, <2>3, <2>4, <2>5, Counts DEF EventInv
<1>9. QED
  BY <1>6, <1>7, <1>8

\* The option, the page, and time.
LEMMA AsideInv ==
    ASSUME EventInv, (\E on \in BOOLEAN : SetEnabled(on)) \/ AskExport \/ ShutdownElapse
                       \/ UNCHANGED shutdownVars
    PROVE  EventInv'
<1>1. EventTypes /\ Stages /\ unhandled >= InHand + Ahead
  BY DEF EventInv
<1>2. UNCHANGED <<power, shown, status, armed, checkPc, unhandled>>
  BY DEF SetEnabled, AskExport, ShutdownElapse, shutdownVars, upsVars, dataVars, checkVars
<1>3. UNCHANGED linkVars \/ (checkPc = "idle" /\ LinkElapse)
  BY DEF SetEnabled, AskExport, ShutdownElapse, shutdownVars
<1>4. EventTypes' /\ Stages'
  BY <1>1, <1>2, <1>3, LinkTypes DEF EventTypes, Stages, linkVars
<1>5. InHand' = InHand
  BY <1>2, <1>3, SameHand DEF InHand, linkVars
<1>6. QED
  BY <1>1, <1>2, <1>4, <1>5, SameAhead DEF EventInv

LEMMA ResetInv ==
    ASSUME EventInv, BoardReset
    PROVE  EventInv'
<1>1. /\ shown' = "none" /\ status' = "none" /\ armed' = TRUE /\ checkPc' = "idle"
      /\ power' = power /\ unhandled' = IF power = "OL" THEN 0 ELSE 1
      /\ backoff' = 0 /\ backoffLeft' = 0 /\ windowAge' = 0
  BY DEF BoardReset, LinkReset
<1>2. EventTypes' /\ Stages'
  BY <1>1 DEF EventInv, EventTypes, Stages
<1>3. InHand' = 0 /\ Ahead' = IF power = "OL" THEN 0 ELSE 1
  BY <1>1 DEF InHand, Ahead, Armed, FromStatus, FromShown, FromPower
<1>4. QED
  BY <1>1, <1>2, <1>3 DEF EventInv

-------------------------------------------------------------------------------
\* Whatever the number of commands shutdown.default tries and whatever the polls and the
\* recoveries of the link do in between, the UPS does not carry out more of them than the
\* mains have failed (auto_shutdown.h, HidControl.h).
THEOREM OneShutdownPerEvent == ShutdownSpec => []OncePerEvent
<1>1. EventInv => OncePerEvent
  BY Counts DEF EventInv, EventTypes, OncePerEvent
<1>2. EventInv /\ [ShutdownNext]_shutdownVars => EventInv'
  BY UpsInv, PollInv, DecideInv, StartInv, SendInv, AsideInv, ResetInv
     DEF ShutdownNext, LoopCheck
<1>3. QED
  BY <1>1, <1>2, EventInit, PTL DEF ShutdownSpec

-------------------------------------------------------------------------------
(***************************************************************************)
(* ShutdownInv.  The link, the poll cycle and the read of an export keep   *)
(* their types step by step; the reports a command may have changed stay   *)
(* in the queue of a full cycle, which is chosen after the flag is read    *)
(* (CycleInv).                                                             *)
(***************************************************************************)
LinkStep ==
    \/ LinkReset \/ LinkFailure \/ LinkElapse
    \/ LinkTick(FALSE) = "RECOVER" /\ LinkRecovering
    \/ /\ backoff' = BackoffBase /\ backoffLeft' = BackoffBase /\ linkRecoveries' = 0
       /\ firstFailureAge' = 0 /\ aliveAge' = 0 /\ windowAge' = 0
    \/ UNCHANGED linkVars

CycleInv ==
    /\ PollTypeOK /\ RereadAfterChange
    /\ unread \subseteq KindsOf(Reports)

CycleStep ==
    \/ PollReset \/ NoteDataChanged \/ PollElapse
    \/ queue = {} /\ StartCycle
    \/ \E answered \in BOOLEAN : queue # {} /\ NextReport(answered)
    \/ UNCHANGED pollVars

SweepInv == DiagTypeOK /\ (diagState = "reading" => diagLeft > 0)

SweepStep ==
    \/ DiagClear \/ RequestDiagRead \/ DiagInterrupt
    \/ \E items \in 0..OnDemand : DiagStart(items)
    \/ diagState = "reading" /\ DiagRecord
    \/ UNCHANGED diagVars

LEMMA LinkStepOK ==
    ASSUME LinkTypeOK, LinkStep
    PROVE  LinkTypeOK'
<1> USE LinkMonitorAssumption DEF LinkTypeOK
<1>1. CASE LinkReset
  BY <1>1 DEF LinkReset
<1>2. CASE LinkFailure
  BY <1>2 DEF LinkFailure, LinkFailing
<1>3. CASE LinkElapse
  BY <1>3 DEF LinkElapse, Older, Sooner
<1>4. CASE LinkTick(FALSE) = "RECOVER" /\ LinkRecovering
  <2>1. linkRecoveries < MaxLinkRecoveries
    BY <1>4 DEF LinkTick
  <2>2. QED
    BY <1>4, <2>1 DEF LinkRecovering
<1>5. CASE /\ backoff' = BackoffBase /\ backoffLeft' = BackoffBase /\ linkRecoveries' = 0
           /\ firstFailureAge' = 0 /\ aliveAge' = 0 /\ windowAge' = 0
  BY <1>5
<1>6. CASE UNCHANGED linkVars
  BY <1>6 DEF linkVars
<1>7. QED
  BY <1>1, <1>2, <1>3, <1>4, <1>5, <1>6 DEF LinkStep

LEMMA Smallest ==
    ASSUME NEW S, S \subseteq Nat, S # {}
    PROVE  \E i \in S : \A j \in S : i <= j
<1> DEFINE R == OpToRel(<, Nat)
<1>1. IsWellFoundedOn(R, Nat)
  BY NatLessThanWellFounded
<1> HIDE DEF R
<1>2. PICK i \in S : \A j \in S : ~(<<j, i>> \in R)
  BY <1>1, WFMin
<1>3. \A j \in S : ~(j < i)
  BY <1>2 DEF R, OpToRel
<1>4. QED
  BY <1>3

LEMMA ReportsOK ==
    /\ Reports \subseteq Nat
    /\ \A i \in Reports : FullReports[i] \in Kinds
<1>1. FullReports \in Seq(Kinds)
  BY PollCycleAssumption
<1>2. Reports = 1..Len(FullReports) /\ Len(FullReports) \in Nat
  BY <1>1 DEF Reports
<1>3. QED
  BY <1>1, <1>2

LEMMA NextPlaceOK ==
    ASSUME queue \subseteq Reports, queue # {}
    PROVE  NextPlace \in queue
<1>1. queue \subseteq Nat
  BY ReportsOK
<1>2. \E i \in queue : \A j \in queue : i <= j
  BY <1>1, Smallest
<1>3. QED
  BY <1>2 DEF NextPlace

CycleFlags ==
    /\ cycleFull \in BOOLEAN /\ firstFull \in BOOLEAN
    /\ dataChanged \in BOOLEAN /\ semiKnown \in BOOLEAN

LEMMA CycleStepInv ==
    ASSUME CycleInv, CycleStep
    PROVE  CycleInv'
<1>1. /\ PollTypeOK /\ RereadAfterChange /\ unread \subseteq KindsOf(Reports)
      /\ KindsOf(Reports) \subseteq Kinds
  BY ReportsOK DEF CycleInv, KindsOf
<1>2. CASE PollReset
  <2>1. CycleFlags'
    BY <1>2 DEF PollReset, CycleFlags
  <2>2. QED
    BY <1>1, <1>2, <2>1, PollCycleAssumption
       DEF PollReset, CycleInv, PollTypeOK, CycleFlags, RereadAfterChange
<1>3. CASE NoteDataChanged
  BY <1>1, <1>3 DEF NoteDataChanged, CycleInv, PollTypeOK, RereadAfterChange, KindsOf, Reports
<1>4. CASE PollElapse
  <2>1. PollTypeOK'
    BY <1>1, <1>4, PollCycleAssumption DEF PollElapse, PollTypeOK, Older, Reports
  <2>2. QED
    BY <1>1, <1>4, <2>1 DEF PollElapse, CycleInv, RereadAfterChange, KindsOf, Reports
<1>5. CASE queue = {} /\ StartCycle
  <2>0. CycleFlags'
    BY <1>1, <1>5 DEF StartCycle, PollTypeOK, CycleFlags
  <2>1. PollTypeOK'
    BY <1>1, <1>5, <2>0, PollCycleAssumption DEF StartCycle, PollTypeOK, CycleFlags, Reports
  <2>2. unread # {} => dataChanged
    BY <1>1, <1>5 DEF RereadAfterChange, KindsOf
  <2>3. RereadAfterChange'
    BY <1>1, <1>5, <2>2
       DEF StartCycle, RereadAfterChange, FullDue, Skips, KindsOf, Reports
  <2>4. QED
    BY <1>1, <1>5, <2>1, <2>3 DEF StartCycle, CycleInv, KindsOf, Reports
<1>6. ASSUME NEW answered \in BOOLEAN, queue # {}, NextReport(answered)
      PROVE  CycleInv'
  <2>1. NextPlace \in queue
    BY <1>1, <1>6, NextPlaceOK DEF PollTypeOK
  <2>2. PollTypeOK'
    BY <1>1, <1>6 DEF NextReport, PollTypeOK, Reports
  <2>3. RereadAfterChange'
    BY <1>1, <1>6, <2>1 DEF NextReport, RereadAfterChange, Requested, KindsOf
  <2>4. QED
    BY <1>1, <1>6, <2>2, <2>3 DEF NextReport, CycleInv, KindsOf, Reports
<1>7. CASE UNCHANGED pollVars
  BY <1>1, <1>7 DEF pollVars, CycleInv, PollTypeOK, RereadAfterChange, KindsOf, Reports
<1>8. QED
  BY <1>2, <1>3, <1>4, <1>5, <1>6, <1>7 DEF CycleStep

LEMMA SweepStepInv ==
    ASSUME SweepInv, SweepStep
    PROVE  SweepInv'
<1> USE DiagAssumption DEF SweepInv, DiagTypeOK
<1>1. CASE DiagClear \/ RequestDiagRead \/ DiagInterrupt
  <2>1. diagRequested' \in BOOLEAN
    BY <1>1 DEF DiagClear, RequestDiagRead, DiagInterrupt
  <2>2. QED
    BY <1>1, <2>1 DEF DiagClear, RequestDiagRead, DiagInterrupt
<1>2. ASSUME NEW items \in 0..OnDemand, DiagStart(items)
      PROVE  SweepInv'
  <2>1. diagRequested' \in BOOLEAN
    BY <1>2 DEF DiagStart
  <2>2. QED
    BY <1>2, <2>1 DEF DiagStart
<1>3. CASE diagState = "reading" /\ DiagRecord
  BY <1>3 DEF DiagRecord
<1>4. CASE UNCHANGED diagVars
  BY <1>4 DEF diagVars
<1>5. QED
  BY <1>1, <1>2, <1>3, <1>4 DEF SweepStep

-------------------------------------------------------------------------------
(* The rest of the types.                                                  *)

UpsFlags ==
    powerDue \in BOOLEAN /\ answering \in BOOLEAN /\ missed \in BOOLEAN /\ exporting \in BOOLEAN

UpsTypes == UpsFlags /\ power \in Powers /\ unhandled \in -1..2

DataFlags == ready \in BOOLEAN /\ firstData \in BOOLEAN /\ restartRequested \in BOOLEAN

DataTypes == DataFlags /\ claimAge \in 0..FirstDataMax /\ shown \in Powers \cup {"none"}

CheckFlags ==
    enabled \in BOOLEAN /\ armed \in BOOLEAN /\ available \in BOOLEAN /\ checkDue \in BOOLEAN

\* A command is sent only for a UPS that has one, and there is one left to try.
CheckInv ==
    /\ CheckFlags
    /\ checkPc \in {"idle", "decide", "start", "send"}
    /\ status \in Powers \cup {"none"}
    /\ left \in 0..NumCommands
    /\ checkPc \in {"start", "send"} \/ available => NumCommands > 0
    /\ checkPc = "send" => left > 0

PartsInv ==
    /\ LinkTypeOK /\ CycleInv /\ SweepInv
    /\ UpsTypes /\ DataTypes /\ CheckInv

LEMMA PartsInit == ShutdownInit => PartsInv
<1> SUFFICES ASSUME ShutdownInit PROVE PartsInv
  OBVIOUS
<1>1. LinkTypeOK
  BY LinkMonitorAssumption DEF ShutdownInit, LinkInit, LinkTypeOK
<1>2. CycleInv
  <2>1. CycleFlags
    BY DEF ShutdownInit, PollInit, CycleFlags
  <2>2. QED
    BY <2>1, PollCycleAssumption
       DEF ShutdownInit, PollInit, CycleInv, PollTypeOK, CycleFlags, RereadAfterChange
<1>3. SweepInv
  <2>1. diagRequested \in BOOLEAN
    BY DEF ShutdownInit, DiagInit
  <2>2. QED
    BY <2>1, DiagAssumption DEF ShutdownInit, DiagInit, SweepInv, DiagTypeOK
<1>4. UpsFlags /\ DataFlags /\ CheckFlags
  BY DEF ShutdownInit, UpsFlags, DataFlags, CheckFlags
<1>5. UpsTypes
  BY <1>4 DEF ShutdownInit, UpsTypes, Powers
<1>6. DataTypes
  BY <1>4, AutoShutdownAssumption DEF ShutdownInit, DataTypes, Powers
<1>7. CheckInv
  BY <1>4, AutoShutdownAssumption DEF ShutdownInit, CheckInv, CheckFlags, Powers
<1>8. QED
  BY <1>1, <1>2, <1>3, <1>5, <1>6, <1>7 DEF PartsInv

\* What the UPS, the device and the reset of the board do.
LEMMA UpsParts ==
    ASSUME PartsInv,
           \/ \E p \in Powers : ChangePower(p)
           \/ ChangeAnswering \/ Disconnect \/ Claim \/ BoardReset
    PROVE  PartsInv'
<1>1. LinkStep /\ CycleStep /\ SweepStep
  BY DEF ChangePower, ChangeAnswering, Disconnect, Claim, BoardReset, LinkStep, CycleStep,
     SweepStep
<1>2. UpsFlags'
  BY DEF ChangePower, ChangeAnswering, Disconnect, Claim, BoardReset, PartsInv, UpsTypes, UpsFlags,
     upsVars
<1>3. power' \in Powers /\ unhandled' \in -1..2
  BY DEF ChangePower, ChangeAnswering, Disconnect, Claim, BoardReset, PartsInv, UpsTypes, upsVars,
     OneMore
<1>4. DataFlags'
  BY DEF ChangePower, ChangeAnswering, Disconnect, Claim, BoardReset, PartsInv, DataTypes,
     DataFlags, dataVars
<1>5. claimAge' \in 0..FirstDataMax /\ shown' \in Powers \cup {"none"}
  BY AutoShutdownAssumption
     DEF ChangePower, ChangeAnswering, Disconnect, Claim, BoardReset, PartsInv, DataTypes, dataVars
<1>6. CheckInv'
  <2>1. CASE ~BoardReset
    BY <2>1 DEF ChangePower, ChangeAnswering, Disconnect, Claim, BoardReset, PartsInv, CheckInv,
       CheckFlags, checkVars
  <2>2. CASE BoardReset
    <3>1. CheckFlags'
      BY <2>2 DEF BoardReset, PartsInv, CheckInv, CheckFlags
    <3>2. QED
      BY <2>2, <3>1, AutoShutdownAssumption DEF BoardReset, CheckInv, CheckFlags
  <2>3. QED
    BY <2>1, <2>2
<1>7. QED
  BY <1>1, <1>2, <1>3, <1>4, <1>5, <1>6, LinkStepOK, CycleStepInv, SweepStepInv
     DEF PartsInv, UpsTypes, DataTypes

LEMMA PollParts ==
    ASSUME PartsInv, PollTask
    PROVE  PartsInv'
<1>1. LinkStep
  BY DEF PollTask, LinkLadder, PollStartsCycle, PollRequests, PollWaits, ServiceDiagRead,
     DiagStarts, DiagRequests, DiagStops, Answer, NoAnswer, LinkAlive, LinkStep
<1>2. CycleStep
  <2>1. CASE PollRequests
    BY <2>1 DEF PollRequests, CycleStep, PartsInv, UpsTypes, UpsFlags
  <2>2. CASE ~PollRequests
    BY <2>2 DEF PollTask, LinkLadder, PollStartsCycle, CycleDue, PollWaits, ServiceDiagRead,
       DiagStarts, DiagRequests, DiagStops, CycleStep
  <2>3. QED
    BY <2>1, <2>2
<1>3. SweepStep
  BY DEF PollTask, LinkLadder, PollStartsCycle, PollRequests, PollWaits, ServiceDiagRead,
     DiagStarts, DiagRequests, DiagStops, SweepStep
<1>4. UpsFlags'
  BY DEF PollTask, LinkLadder, PollStartsCycle, PollRequests, PollWaits, ServiceDiagRead,
     DiagStarts, DiagRequests, DiagStops, Answer, NoAnswer, PartsInv, UpsTypes, UpsFlags,
     upsVars
<1>5. UNCHANGED <<power, unhandled, ready, claimAge, checkVars>>
  BY DEF PollTask, LinkLadder, PollStartsCycle, PollRequests, PollWaits, ServiceDiagRead,
     DiagStarts, DiagRequests, DiagStops, dataVars, upsVars
<1>6. DataFlags' /\ shown' \in Powers \cup {"none"}
  BY DEF PollTask, LinkLadder, PollStartsCycle, PollRequests, PollWaits, ServiceDiagRead,
     DiagStarts, DiagRequests, DiagStops, FirstDataServed, PartsInv, UpsTypes, DataTypes,
     DataFlags, dataVars
<1>7. CheckInv'
  BY <1>5 DEF PartsInv, CheckInv, CheckFlags, checkVars
<1>8. QED
  BY <1>1, <1>2, <1>3, <1>4, <1>5, <1>6, <1>7, LinkStepOK, CycleStepInv, SweepStepInv
     DEF PartsInv, UpsTypes, DataTypes

LEMMA LoopParts ==
    ASSUME PartsInv, LoopCheck
    PROVE  PartsInv'
<1>1. LinkStep
  BY DEF LoopCheck, ReadStatus, Decide, StartCommand, CommandNotSent, CommandUnanswered,
     CommandRejected, CommandAnswerLost, CommandOK, CommandFails, Answer, NoAnswer, LinkAlive,
     LinkStep
<1>2. CycleStep
  <2>1. CASE CommandOK
    BY <2>1 DEF CommandOK, CycleStep
  <2>2. CASE ~CommandOK
    BY <2>2 DEF LoopCheck, ReadStatus, Decide, StartCommand, CommandNotSent, CommandUnanswered,
       CommandRejected, CommandAnswerLost, CommandFails, CycleStep
  <2>3. QED
    BY <2>1, <2>2
<1>3. UNCHANGED <<diagVars, dataVars>>
  <2>1. CASE CommandOK
    BY <2>1 DEF CommandOK
  <2>2. CASE CommandNotSent \/ CommandUnanswered \/ CommandRejected \/ CommandAnswerLost
    BY <2>2 DEF CommandNotSent, CommandUnanswered, CommandRejected, CommandAnswerLost, CommandFails
  <2>3. CASE ReadStatus \/ Decide \/ StartCommand
    BY <2>3 DEF ReadStatus, Decide, StartCommand
  <2>4. QED
    BY <2>1, <2>2, <2>3 DEF LoopCheck
<1>4. SweepStep /\ DataTypes'
  BY <1>3 DEF SweepStep, PartsInv, DataTypes, DataFlags, dataVars
<1>5. UpsFlags' /\ power' = power
  <2>1. CASE CommandOK
    BY <2>1 DEF CommandOK, Answer, PartsInv, UpsTypes, UpsFlags
  <2>2. CASE CommandNotSent \/ CommandUnanswered \/ CommandRejected \/ CommandAnswerLost
    BY <2>2 DEF CommandNotSent, CommandUnanswered, CommandRejected, CommandAnswerLost, CommandFails,
       Answer, NoAnswer, PartsInv, UpsTypes, UpsFlags
  <2>3. CASE ReadStatus \/ Decide \/ StartCommand
    BY <2>3 DEF ReadStatus, Decide, StartCommand, upsVars, PartsInv, UpsTypes, UpsFlags
  <2>4. QED
    BY <2>1, <2>2, <2>3 DEF LoopCheck
<1>6. unhandled' \in -1..2
  <2>1. CarriedOut \/ unhandled' = unhandled
    BY DEF LoopCheck, ReadStatus, Decide, StartCommand, CommandNotSent, CommandUnanswered,
       CommandRejected, CommandAnswerLost, CommandOK, upsVars
  <2>2. QED
    BY <2>1 DEF CarriedOut, PartsInv, UpsTypes
<1>7. CheckFlags'
  <2>1. CASE ReadStatus \/ StartCommand
    BY <2>1 DEF ReadStatus, StartCommand, PartsInv, CheckInv, CheckFlags
  <2>2. CASE Decide
    BY <2>2 DEF Decide, PartsInv, CheckInv, CheckFlags
  <2>3. CASE ~(ReadStatus \/ Decide \/ StartCommand)
    BY <2>3 DEF LoopCheck, CommandNotSent, CommandUnanswered, CommandRejected, CommandAnswerLost,
       CommandOK, CommandFails, PartsInv, CheckInv, CheckFlags
  <2>4. QED
    BY <2>1, <2>2, <2>3
<1>8. CheckInv'
  <2>1. CASE ReadStatus
    BY <2>1, <1>7 DEF ReadStatus, Offered, PartsInv, CheckInv, DataTypes
  <2>2. CASE Decide
    BY <2>2, <1>7 DEF Decide, Fires, PartsInv, CheckInv
  <2>3. CASE StartCommand
    BY <2>3, <1>7, AutoShutdownAssumption DEF StartCommand, PartsInv, CheckInv, CheckFlags
  <2>4. CASE CommandNotSent \/ CommandUnanswered \/ CommandRejected \/ CommandAnswerLost
    BY <2>4, <1>7, AutoShutdownAssumption
       DEF CommandNotSent, CommandUnanswered, CommandRejected, CommandAnswerLost, CommandFails,
           PartsInv, CheckInv
  <2>5. CASE CommandOK
    BY <2>5, <1>7, AutoShutdownAssumption DEF CommandOK, PartsInv, CheckInv
  <2>6. QED
    BY <2>1, <2>2, <2>3, <2>4, <2>5 DEF LoopCheck
<1>9. QED
  BY <1>1, <1>2, <1>4, <1>5, <1>6, <1>8, LinkStepOK, CycleStepInv, SweepStepInv
     DEF PartsInv, UpsTypes

LEMMA AsideParts ==
    ASSUME PartsInv, (\E on \in BOOLEAN : SetEnabled(on)) \/ AskExport \/ ShutdownElapse
                       \/ UNCHANGED shutdownVars
    PROVE  PartsInv'
<1>1. LinkStep /\ CycleStep /\ SweepStep
  BY DEF SetEnabled, AskExport, ShutdownElapse, shutdownVars, linkVars, pollVars, diagVars,
     LinkStep, CycleStep, SweepStep
<1>2. UpsTypes'
  BY DEF SetEnabled, AskExport, ShutdownElapse, shutdownVars, upsVars, PartsInv, UpsTypes, UpsFlags
<1>3. DataTypes'
  BY AutoShutdownAssumption
     DEF SetEnabled, AskExport, ShutdownElapse, shutdownVars, dataVars, PartsInv, DataTypes,
         DataFlags, Older
<1>4. CheckFlags'
  BY DEF SetEnabled, AskExport, ShutdownElapse, shutdownVars, checkVars, PartsInv, CheckInv,
     CheckFlags
<1>5. UNCHANGED <<checkPc, status, left, available>>
  BY DEF SetEnabled, AskExport, ShutdownElapse, shutdownVars, checkVars
<1>6. CheckInv'
  BY <1>4, <1>5 DEF PartsInv, CheckInv
<1>7. QED
  BY <1>1, <1>2, <1>3, <1>6, LinkStepOK, CycleStepInv, SweepStepInv DEF PartsInv

LEMMA PartsNext == PartsInv /\ [ShutdownNext]_shutdownVars => PartsInv'
BY UpsParts, PollParts, LoopParts, AsideParts DEF ShutdownNext

-------------------------------------------------------------------------------
(***************************************************************************)
(* LadderEarned.  Since the last answer of the UPS a full cycle becomes    *)
(* due before the window of the link is over, and at each recovery, which  *)
(* ends the pause, it is due: the poll comes before any read of an export  *)
(* and before time goes on.                                                *)
(***************************************************************************)
PollPending == queue # {} \/ FullDue

PollFirst ==
    ready /\ ~restartRequested /\ ~missed =>
      \/ linkRecoveries = 0 /\ (PollPending \/ fullAge >= windowAge)
      \/ windowAge = 0 /\ backoffLeft = 0 /\ PollPending

\* LinkMonitor gives at least one recovery, a window of the link is not shorter than
\* the time between two full polls, and a full poll reads more than what is known.
LadderAssumption ==
    /\ MaxLinkRecoveries > 0
    /\ FullPoll <= LinkTimeout
    /\ \E i \in Reports : FullReports[i] # "semi"

LEMMA FirstInit == ShutdownInit => PollFirst
BY DEF ShutdownInit, PollFirst

\* A full cycle has something to ask for.
LEMMA FullCycleAsks ==
    ASSUME LadderAssumption, FullDue, StartCycle
    PROVE  queue' # {}
<1>1. PICK i \in Reports : FullReports[i] # "semi"
  BY DEF LadderAssumption
<1>2. i \in queue'
  BY <1>1 DEF StartCycle, Skips
<1>3. QED
  BY <1>2

LEMMA FirstNext ==
    ASSUME PartsInv, PollFirst, LadderAssumption, [ShutdownNext]_shutdownVars
    PROVE  PollFirst'
<1> SUFFICES ASSUME ready', ~restartRequested', ~missed'
             PROVE  \/ linkRecoveries' = 0 /\ (PollPending \/ fullAge >= windowAge)'
                    \/ windowAge' = 0 /\ backoffLeft' = 0 /\ PollPending'
  BY DEF PollFirst
<1> DEFINE First == \/ linkRecoveries = 0 /\ (PollPending \/ fullAge >= windowAge)
                    \/ windowAge = 0 /\ backoffLeft = 0 /\ PollPending
<1>1. /\ windowAge \in Nat /\ fullAge \in Nat /\ fullAge' \in Nat
      /\ linkRecoveries \in Nat /\ LinkTimeout \in Nat \ {0} /\ FullPoll \in Nat
      /\ backoffLeft \in Nat
  BY LinkMonitorAssumption, PollCycleAssumption, PartsNext
     DEF PartsInv, LinkTypeOK, CycleInv, PollTypeOK
<1>2. CASE LinkReset
  BY <1>1, <1>2 DEF LinkReset, PollPending
<1>3. CASE UNCHANGED <<linkVars, pollVars, ready, restartRequested, missed>>
  BY <1>3 DEF linkVars, pollVars, PollFirst, PollPending, FullDue
<1>4. CASE LinkLadder
  <2>1. First /\ UNCHANGED pollVars /\ LinkTick(FALSE) = "RECOVER" /\ LinkRecovering
    BY <1>4 DEF LinkLadder, PollFirst, upsVars
  <2>2. windowAge >= LinkTimeout
    BY <2>1, <1>1 DEF LinkTick
  <2>3. PollPending
    BY <2>1, <2>2, <1>1 DEF LadderAssumption, PollPending, FullDue
  <2>4. QED
    BY <2>1, <2>3 DEF LinkRecovering, pollVars, PollPending, FullDue
<1>5. CASE PollStartsCycle
  <2>1. First /\ UNCHANGED linkVars /\ StartCycle /\ queue = {}
    BY <1>5 DEF PollStartsCycle, PollFirst, upsVars, CycleDue
  <2>2. CASE FullDue
    BY <2>1, <2>2, FullCycleAsks DEF PollPending, linkVars
  <2>3. CASE ~FullDue
    BY <2>1, <2>3 DEF StartCycle, PollPending, FullDue, linkVars
  <2>4. QED
    BY <2>2, <2>3
<1>6. CASE PollRequests
  BY <1>2, <1>6 DEF PollRequests, Answer, NoAnswer, LinkAlive
<1>7. CASE DiagRequests
  <2>1. CASE Answer
    BY <1>2, <2>1 DEF Answer, LinkAlive
  <2>2. CASE ~Answer
    <3>1. First /\ LinkFailure /\ UNCHANGED pollVars /\ queue = {} /\ ~FullDue
      BY <1>7, <2>2 DEF DiagRequests, PollFirst, BetweenPolls, CycleDue, dataVars
    <3>2. QED
      BY <3>1 DEF LinkFailure, PollPending, pollVars, FullDue
  <2>3. QED
    BY <2>1, <2>2
<1>8. CASE CommandNotSent
  BY <1>3, <1>8 DEF CommandNotSent, CommandFails, dataVars
<1>9. CASE CommandUnanswered \/ CommandRejected \/ CommandAnswerLost \/ CommandOK
  BY <1>2, <1>9 DEF CommandUnanswered, CommandRejected, CommandAnswerLost, CommandOK, Answer,
     NoAnswer, LinkAlive
<1>10. CASE ShutdownElapse
  <2>1. First /\ ready /\ ~restartRequested /\ ~missed /\ LinkElapse /\ PollElapse /\ ~PollBusy
    BY <1>10 DEF ShutdownElapse, PollFirst
  <2>2. ~(windowAge = 0 /\ backoffLeft = 0 /\ PollPending)
    <3>1. ASSUME windowAge = 0 PROVE LinkTick(FALSE) = "NONE"
      BY <3>1, <1>1 DEF LinkTick
    <3>2. QED
      BY <2>1, <3>1 DEF PollBusy, Polling, PollPending, CycleDue, CanPoll
  <2>3. linkRecoveries' = 0 /\ (PollPending \/ fullAge >= windowAge)
    BY <2>1, <2>2 DEF LinkElapse
  <2>4. PollPending => PollPending'
    BY <2>1, <1>1 DEF PollElapse, PollPending, FullDue, Older
  <2>5. fullAge >= windowAge => PollPending' \/ fullAge' >= windowAge'
    BY <2>1, <1>1, PollCycleAssumption, LinkMonitorAssumption
       DEF PollElapse, LinkElapse, PollPending, FullDue, Older, PartsInv, CycleInv, PollTypeOK,
           LinkTypeOK
  <2>6. QED
    BY <2>3, <2>4, <2>5
<1>11. CASE Disconnect \/ BoardReset \/ Claim
  BY <1>2, <1>11 DEF Disconnect, BoardReset, Claim
<1>12. CASE \/ \E p \in Powers : ChangePower(p)
            \/ ChangeAnswering \/ PollWaits \/ DiagStarts \/ DiagStops
            \/ \E on \in BOOLEAN : SetEnabled(on)
            \/ ReadStatus \/ Decide \/ StartCommand \/ AskExport
            \/ UNCHANGED shutdownVars
  BY <1>3, <1>12
     DEF ChangePower, ChangeAnswering, PollWaits, DiagStarts, DiagStops, SetEnabled, ReadStatus,
         Decide, StartCommand, AskExport, shutdownVars, upsVars, dataVars
<1>13. QED
  BY <1>4, <1>5, <1>6, <1>7, <1>8, <1>9, <1>10, <1>11, <1>12
     DEF ShutdownNext, PollTask, ServiceDiagRead, LoopCheck

LEMMA FirstMeansEarned ==
    ASSUME PartsInv, PollFirst, LadderAssumption
    PROVE  LadderEarned
<1> SUFFICES ASSUME ready, ~restartRequested, LinkTick(FALSE) = "RESTART", ~missed
             PROVE  FALSE
  BY DEF LadderEarned
<1>1. windowAge >= LinkTimeout /\ linkRecoveries >= MaxLinkRecoveries
  BY LinkMonitorAssumption DEF LinkTick, PartsInv, LinkTypeOK
<1>2. linkRecoveries > 0 /\ windowAge > 0
  BY <1>1, LinkMonitorAssumption DEF LadderAssumption, PartsInv, LinkTypeOK
<1>3. QED
  BY <1>2 DEF PollFirst

LEMMA PartsMeanTypes == PartsInv => ShutdownTypeOK /\ RereadAfterChange
BY DEF PartsInv, CycleInv, SweepInv, UpsTypes, UpsFlags, DataTypes, DataFlags, CheckInv, CheckFlags,
   ShutdownTypeOK

\* The export that goes unanswered does not restart the board by itself, and a change
\* noted in the middle of a cycle is read again (LinkMonitor::tick(), serviceDiagRead(),
\* GenericDriver::startCycle()), for any reports, limits and number of commands.
THEOREM ShutdownKept ==
    ASSUME LadderAssumption
    PROVE  ShutdownSpec => []ShutdownInv
<1>1. ShutdownInit => PartsInv /\ PollFirst
  BY PartsInit, FirstInit
<1>2. PartsInv /\ PollFirst /\ [ShutdownNext]_shutdownVars => PartsInv' /\ PollFirst'
  BY PartsNext, FirstNext
<1>3. PartsInv /\ PollFirst => ShutdownInv
  BY FirstMeansEarned, PartsMeanTypes DEF ShutdownInv
<1>4. QED
  BY <1>1, <1>2, <1>3, PTL DEF ShutdownSpec

===============================================================================
