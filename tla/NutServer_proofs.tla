--------------------------- MODULE NutServer_proofs ---------------------------
(****************************************************************************)
(* The NUT server for every number of clients, slots, ids and values: no    *)
(* client inherits what another one left in its slot, SET VAR keeps what it *)
(* answered, and GET TRACKING the outcomes it has room for.                 *)
(*                                                                          *)
(* The slots need one strengthening: no connection is in two slots, and     *)
(* none that waits to be accepted is in a slot (ConnsApart).  The values    *)
(* need what the cache and UPSData hold in the middle of a request          *)
(* (ValuesInv).  An outcome that is no more in the table was displaced by   *)
(* as many others, none older, as the table holds (OutcomesInv).            *)
(****************************************************************************)
EXTENDS NutServer, FiniteSetTheorems, TLAPS, WellFoundedInduction

------------------------------------------------------------------------------
(***************************************************************************)
(* The driver-side variables.                                              *)
(***************************************************************************)

ValuesInv ==
    /\ ValuesTypeOK
    /\ stage = "apply" => saved = planned
    /\ stage # "apply" => saved = promised
    /\ stage # "apply" /\ readable => cached = saved
    /\ Claimed => shown = cached

\* What a step of the server does to the values.
ValuesStep ==
    \/ Claim \/ Disconnect
    \/ \E value \in Value \cup {Unset} : Plan(value)
    \/ SaveValue \/ SaveFails \/ ApplyValue
    \/ \E read \in BOOLEAN : ValuesRestart(read)
    \/ UNCHANGED valueVars

LEMMA ValuesStart == NutInit => ValuesInv
BY ValuesAssumption DEF NutInit, ValuesInit, ValuesInv, ValuesTypeOK, Claimed

LEMMA ValuesStepInv == ValuesInv /\ ValuesStep => ValuesInv'
<1> SUFFICES ASSUME ValuesInv, ValuesStep PROVE ValuesInv'
  OBVIOUS
<1> USE ValuesAssumption DEF ValuesInv, ValuesTypeOK, Claimed
<1>1. CASE Claim
  BY <1>1 DEF Claim
<1>2. CASE Disconnect
  BY <1>2 DEF Disconnect
<1>3. ASSUME NEW value \in Value \cup {Unset}, Plan(value)
      PROVE  ValuesInv'
  BY <1>3 DEF Plan
<1>4. CASE SaveValue
  BY <1>4 DEF SaveValue
<1>5. CASE SaveFails
  BY <1>5 DEF SaveFails
<1>6. CASE ApplyValue
  BY <1>6 DEF ApplyValue
<1>7. ASSUME NEW read \in BOOLEAN, ValuesRestart(read)
      PROVE  ValuesInv'
  BY <1>7 DEF ValuesRestart
<1>8. CASE UNCHANGED valueVars
  BY <1>8 DEF valueVars
<1>9. QED
  BY <1>1, <1>2, <1>3, <1>4, <1>5, <1>6, <1>7, <1>8 DEF ValuesStep

LEMMA NutValuesStep == [NutNext]_nutVars => ValuesStep
<1> SUFFICES ASSUME [NutNext]_nutVars PROVE ValuesStep
  OBVIOUS
<1>1. CASE AcceptTurn
  BY <1>1 DEF AcceptTurn, ValuesStep
<1>2. ASSUME NEW i \in NutSlot, Serve(i)
      PROVE  ValuesStep
  <2>1. CASE \/ ClosePeer(i) \/ CloseIdle(i) \/ NothingToRead(i)
             \/ ReadPiece(i) \/ Query(i) \/ Logout(i)
    BY <2>1 DEF ClosePeer, CloseIdle, NothingToRead, ReadPiece, Query, Logout, ValuesStep
  <2>2. ASSUME NEW name \in {"right", "wrong"}, Username(i, name)
        PROVE  ValuesStep
    BY <2>2 DEF Username, ValuesStep
  <2>3. ASSUME NEW right \in BOOLEAN, Password(i, right) \/ SetTracking(i, right)
        PROVE  ValuesStep
    BY <2>3 DEF Password, SetTracking, ValuesStep
  <2>4. ASSUME NEW id \in Id, NEW status \in Outcome, InstCmd(i, id, status)
        PROVE  ValuesStep
    BY <2>4 DEF InstCmd, ValuesStep
  <2>5. ASSUME NEW value \in Value, SetVar(i, value)
        PROVE  ValuesStep
    BY <2>5 DEF SetVar, ValuesStep
  <2>6. ASSUME NEW id \in Id, SetVarFails(i, id) \/ SetVarApplied(i, id)
        PROVE  ValuesStep
    BY <2>6 DEF SetVarFails, SetVarApplied, ValuesStep
  <2>7. QED
    BY <1>2, <2>1, <2>2, <2>3, <2>4, <2>5, <2>6 DEF Serve
<1>3. CASE Saves \/ WebReset \/ WebFails \/ WebApplied
  BY <1>3 DEF Saves, WebReset, WebFails, WebApplied, ValuesStep
<1>4. ASSUME NEW c \in Conn, Connect(c) \/ PeerCloses(c) \/ FallSilent(c)
      PROVE  ValuesStep
  BY <1>4 DEF Connect, PeerCloses, FallSilent, ValuesStep
<1>5. CASE PollTask
  BY <1>5 DEF PollTask, ValuesStep
<1>6. CASE NutElapse
  BY <1>6 DEF NutElapse, ValuesStep
<1>7. ASSUME NEW read \in BOOLEAN, NutRestart(read)
      PROVE  ValuesStep
  BY <1>7 DEF NutRestart, ValuesStep
<1>8. CASE UNCHANGED nutVars
  BY <1>8 DEF nutVars, ValuesStep
<1>9. QED
  BY <1>1, <1>2, <1>3, <1>4, <1>5, <1>6, <1>7, <1>8 DEF NutNext, LoopTask

\* SET VAR and the reset of a value keep what they answered, through claims,
\* disconnections, writes to NVS that fail and resets of the board between the
\* write and the answer (USBHostUPS::setDriverSideValue, DriverVarStore).
THEOREM PromisesKept == NutSpec => []PromiseKept
<1>1. NutInit => ValuesInv
  BY ValuesStart
<1>2. ValuesInv /\ [NutNext]_nutVars => ValuesInv'
  BY NutValuesStep, ValuesStepInv
<1>3. ValuesInv => PromiseKept
  BY DEF ValuesInv, PromiseKept
<1>4. QED
  BY <1>1, <1>2, <1>3, PTL DEF NutSpec

------------------------------------------------------------------------------
(***************************************************************************)
(* The slots.                                                              *)
(***************************************************************************)

\* What session holds was said on its connection.
OwnWords(session, facts) ==
    /\ session.username # "" => "username" \in facts
    /\ session.passwordSet => "password" \in facts
    /\ session.authenticated => "proof" \in facts
    /\ session.tracking => "tracking" \in facts
    /\ session.line \subseteq {session.conn}

ConnsApart ==
    /\ \A i \in NutSlot : Active(i) => peers[slots[i].conn] \in {"open", "closed"}
    /\ \A i, j \in NutSlot : Active(i) /\ slots[i].conn = slots[j].conn => i = j

SlotTypes ==
    /\ peers \in [Conn -> {"away", "queued", "open", "closed"}]
    /\ slots \in [NutSlot -> Sessions \cup {FreeSlot}]
    /\ said \in [Conn -> SUBSET Facts]
    /\ silent \subseteq Conn

SlotsInv == SlotTypes /\ NothingInherited /\ ConnsApart

RestTypes == turn \in 0..MaxClients /\ workload \in Workloads

NutIInv == SlotsInv /\ RestTypes /\ TrackingTypeOK

LEMMA InheritedBySlot ==
    NothingInherited <=> \A i \in NutSlot : Active(i) => OwnWords(slots[i], said[slots[i].conn])
BY DEF NothingInherited, OwnWords

LEMMA InheritedBySlotNext ==
    NothingInherited' <=>
        \A i \in NutSlot : Active(i)' => OwnWords(slots'[i], said'[slots'[i].conn])
BY Zenon DEF NothingInherited, OwnWords, Active

\* An active slot holds a session of its own connection, a slot without one nothing.
LEMMA SlotKinds ==
    ASSUME SlotTypes, NEW i \in NutSlot
    PROVE  /\ Active(i) => slots[i] \in Sessions /\ slots[i].conn \in Conn
           /\ ~Active(i) => slots[i] = FreeSlot
<1>1. slots[i] \in Sessions \/ slots[i] = FreeSlot
  BY DEF SlotTypes
<1>2. slots[i] \in Sessions => slots[i].conn \in Conn
  BY DEF Sessions
<1>3. FreeSlot.conn = NoConn
  BY DEF FreeSlot
<1>4. QED
  BY <1>1, <1>2, <1>3, NutAssumption DEF Active

\* A session that was read is the same one, with a full line and no age.
LEMMA RefreshedOK ==
    ASSUME NEW i \in NutSlot, slots[i] \in Sessions
    PROVE  /\ Refreshed(i) \in Sessions
           /\ Refreshed(i).conn = slots[i].conn
           /\ Refreshed(i).username = slots[i].username
           /\ Refreshed(i).passwordSet = slots[i].passwordSet
           /\ Refreshed(i).authenticated = slots[i].authenticated
           /\ Refreshed(i).tracking = slots[i].tracking
           /\ Refreshed(i).line = {}
<1> DEFINE Ages == 0..IdleTimeout + 1
<1>1. 0 \in Ages
  BY NutAssumption
<1>2. Sessions = [conn : Conn, age : Ages, username : {"", "right", "wrong"},
                  passwordSet : BOOLEAN, authenticated : BOOLEAN, tracking : BOOLEAN,
                  line : SUBSET Conn]
  BY DEF Sessions
<1> HIDE DEF Ages
<1>3. QED
  BY Zenon, <1>1, <1>2 DEF Refreshed

\* A slot that goes on with its own connection.
LEMMA AnsweredInv ==
    ASSUME SlotsInv, NEW i \in NutSlot, Active(i),
           NEW session \in Sessions, session.conn = slots[i].conn,
           NEW facts \in SUBSET Facts, OwnWords(session, facts),
           Answered(i, session, facts)
    PROVE  SlotsInv'
<1>1. slots[i].conn \in Conn /\ slots[i].conn # NoConn
  BY SlotKinds DEF SlotsInv, Active
<1>2. /\ slots' = [slots EXCEPT ![i] = session]
      /\ said' = [said EXCEPT ![slots[i].conn] = facts]
      /\ peers' = peers /\ silent' = silent
  BY DEF Answered
<1>3. \A j \in NutSlot : /\ slots'[j] = IF j = i THEN session ELSE slots[j]
                         /\ slots'[j].conn = slots[j].conn
  BY <1>2 DEF SlotsInv, SlotTypes
<1>4. \A j \in NutSlot : Active(j)' <=> Active(j)
  BY <1>3 DEF Active
<1>5. SlotTypes'
  BY <1>1, <1>2 DEF SlotsInv, SlotTypes
<1>6. ConnsApart'
  BY <1>2, <1>3, <1>4 DEF SlotsInv, ConnsApart
<1>7. ASSUME NEW j \in NutSlot, Active(j)'
      PROVE  OwnWords(slots'[j], said'[slots'[j].conn])
  <2>1. CASE j = i
    <3>1. slots'[j] = session /\ said'[slots[i].conn] = facts
      BY <1>1, <1>2, <1>3, <2>1 DEF SlotsInv, SlotTypes
    <3>2. QED
      BY <3>1
  <2>2. CASE j # i
    <3>1. Active(j) /\ slots[j].conn # slots[i].conn
      BY <1>4, <1>7, <2>2 DEF SlotsInv, ConnsApart
    <3>2. slots'[j] = slots[j] /\ said'[slots[j].conn] = said[slots[j].conn]
      BY <1>2, <1>3, <2>2, <3>1, SlotKinds DEF SlotsInv, SlotTypes
    <3>3. OwnWords(slots[j], said[slots[j].conn])
      BY <3>1, InheritedBySlot DEF SlotsInv
    <3>4. QED
      BY <3>2, <3>3
  <2>3. QED
    BY <2>1, <2>2
<1>8. QED
  BY <1>5, <1>6, <1>7, InheritedBySlotNext DEF SlotsInv

\* What a slot starts from: nothing, or a connection that waits to be accepted.
Fresh(session) ==
    session = FreeSlot \/ \E c \in Conn : session = Opened(c) /\ peers[c] = "queued"

\* A slot gives up its connection, if it has one, and holds session instead.
Replaced(i, session) ==
    /\ slots' = [slots EXCEPT ![i] = session]
    /\ peers' = [d \in Conn |-> IF d = session.conn THEN "open"
                                ELSE IF d = slots[i].conn THEN "away" ELSE peers[d]]
    /\ Dropped({slots[i].conn})

LEMMA ReplacedInv ==
    ASSUME SlotsInv, NEW i \in NutSlot, NEW session, Fresh(session), Replaced(i, session)
    PROVE  SlotsInv'
<1> DEFINE old == slots[i].conn
<1>1. /\ session \in Sessions \cup {FreeSlot}
      /\ session.username = "" /\ ~session.passwordSet /\ ~session.authenticated
      /\ ~session.tracking /\ session.line = {}
      /\ session.conn \in Conn => peers[session.conn] = "queued"
      /\ session.conn \in Conn \cup {NoConn}
  <2>1. CASE session = FreeSlot
    BY <2>1, NutAssumption DEF FreeSlot
  <2>2. ASSUME NEW c \in Conn, session = Opened(c), peers[c] = "queued"
        PROVE  <1>1
    <3> DEFINE Ages == 0..IdleTimeout + 1
    <3>1. 0 \in Ages
      BY NutAssumption
    <3>2. Sessions = [conn : Conn, age : Ages, username : {"", "right", "wrong"},
                      passwordSet : BOOLEAN, authenticated : BOOLEAN, tracking : BOOLEAN,
                      line : SUBSET Conn]
      BY DEF Sessions
    <3> HIDE DEF Ages
    <3>3. session = [conn |-> c, age |-> 0, username |-> "", passwordSet |-> FALSE,
                     authenticated |-> FALSE, tracking |-> FALSE, line |-> {}]
      BY Zenon, <2>2 DEF Opened, FreeSlot
    <3>4. session \in Sessions
      BY <3>1, <3>2, <3>3
    <3>5. /\ session.username = "" /\ ~session.passwordSet /\ ~session.authenticated
          /\ ~session.tracking /\ session.line = {} /\ session.conn = c
      BY <3>3
    <3>6. QED
      BY <2>2, <3>4, <3>5
  <2>3. QED
    BY <2>1, <2>2 DEF Fresh
<1>2. /\ said' = [c \in Conn |-> IF c = old THEN {} ELSE said[c]]
      /\ silent' = silent \ {old}
  BY DEF Replaced, Dropped
<1>3. \A j \in NutSlot : slots'[j] = IF j = i THEN session ELSE slots[j]
  BY DEF Replaced, SlotsInv, SlotTypes
<1>4. SlotTypes'
  <2>1. slots' \in [NutSlot -> Sessions \cup {FreeSlot}]
    BY <1>1 DEF Replaced, SlotsInv, SlotTypes
  <2>2. peers' \in [Conn -> {"away", "queued", "open", "closed"}]
    BY DEF Replaced, SlotsInv, SlotTypes
  <2>3. said' \in [Conn -> SUBSET Facts] /\ silent' \subseteq Conn
    BY <1>2 DEF SlotsInv, SlotTypes
  <2>4. QED
    BY <2>1, <2>2, <2>3 DEF SlotTypes
\* An active slot but this one keeps its connection, which is neither the old nor the new one.
<1>5. ASSUME NEW j \in NutSlot, j # i, Active(j)'
      PROVE  /\ Active(j) /\ slots'[j] = slots[j]
             /\ slots[j].conn \in Conn /\ slots[j].conn # old
             /\ slots[j].conn # session.conn
             /\ peers'[slots[j].conn] = peers[slots[j].conn]
             /\ said'[slots[j].conn] = said[slots[j].conn]
  <2>1. Active(j) /\ slots'[j] = slots[j]
    BY <1>3, <1>5 DEF Active
  <2>2. slots[j].conn \in Conn
    BY <2>1, SlotKinds DEF SlotsInv
  <2>3. slots[j].conn # old
    BY <2>1, <1>5 DEF SlotsInv, ConnsApart
  <2>4. slots[j].conn # session.conn
    BY <1>1, <2>1, <2>2 DEF SlotsInv, ConnsApart
  <2>5. QED
    BY <1>2, <2>1, <2>2, <2>3, <2>4 DEF Replaced
<1>6. ConnsApart'
  <2>1. ASSUME NEW j \in NutSlot, Active(j)'
        PROVE  peers'[slots'[j].conn] \in {"open", "closed"}
    <3>1. CASE j = i
      BY <1>1, <1>3, <2>1, <3>1 DEF Replaced, Active
    <3>2. CASE j # i
      BY <1>5, <2>1, <3>2 DEF SlotsInv, ConnsApart
    <3>3. QED
      BY <3>1, <3>2
  <2>2. ASSUME NEW j \in NutSlot, NEW k \in NutSlot, Active(j)', slots'[j].conn = slots'[k].conn
        PROVE  j = k
    <3>1. Active(k)'
      BY <2>2 DEF Active
    <3>2. CASE j = i \/ k = i
      BY <1>3, <1>5, <2>2, <3>1, <3>2
    <3>3. CASE j # i /\ k # i
      BY <1>5, <2>2, <3>1, <3>3 DEF SlotsInv, ConnsApart
    <3>4. QED
      BY <3>2, <3>3
  <2>3. QED
    BY <2>1, <2>2 DEF ConnsApart
<1>7. ASSUME NEW j \in NutSlot, Active(j)'
      PROVE  OwnWords(slots'[j], said'[slots'[j].conn])
  <2>1. CASE j = i
    BY <1>1, <1>3, <2>1 DEF OwnWords
  <2>2. CASE j # i
    BY <1>5, <1>7, <2>2, InheritedBySlot DEF SlotsInv
  <2>3. QED
    BY <2>1, <2>2
<1>8. QED
  BY <1>4, <1>6, <1>7, InheritedBySlotNext DEF SlotsInv

------------------------------------------------------------------------------
\* A set of slots that is not empty has a first one.
LEMMA Smallest ==
    ASSUME NEW S, S \subseteq Nat, S # {}
    PROVE  \E i \in S : \A j \in S : i <= j
<1> DEFINE R == OpToRel(<, Nat)
<1>1. IsWellFoundedOn(R, Nat)
  BY NatLessThanWellFounded
<1> HIDE DEF R
<1>2. PICK i \in S : \A j \in S : ~(<<j, i>> \in R)
  BY <1>1, WFMin
<1>3. \A j \in S : ~(j < i)
  BY <1>2 DEF R, OpToRel
<1>4. QED
  BY <1>3

LEMMA Largest ==
    ASSUME NEW n \in Nat, NEW S, S \subseteq 0..n, S # {}
    PROVE  \E i \in S : \A j \in S : j <= i
<1> DEFINE T == {n - i : i \in S}
<1>1. PICK k \in T : \A l \in T : k <= l
  <2>1. T \subseteq Nat /\ T # {}
    <3>1. \A i \in S : i \in Int /\ 0 <= i /\ i <= n
      OBVIOUS
    <3>2. \A i \in S : n - i \in Nat
      BY <3>1
    <3>3. QED
      BY <3>2
  <2>2. QED
    BY <2>1, Smallest
<1>2. PICK i \in S : k = n - i
  OBVIOUS
<1>3. \A j \in S : n - i <= n - j
  BY <1>1, <1>2
<1>4. QED
  BY <1>3

LEMMA TurnAfterOK == \A i \in 0..MaxClients : TurnAfter(i) \in 0..MaxClients
<1> SUFFICES ASSUME NEW i \in 0..MaxClients PROVE TurnAfter(i) \in 0..MaxClients
  OBVIOUS
<1> DEFINE later == {j \in NutSlot : j > i /\ Active(j)}
<1>1. later \subseteq Nat /\ later \subseteq 0..MaxClients
  BY NutAssumption DEF NutSlot
<1>2. CASE later = {}
  BY <1>2, NutAssumption DEF TurnAfter
<1>3. CASE later # {}
  <2>1. \E j \in later : \A k \in later : j <= k
    BY <1>1, <1>3, Smallest
  <2> HIDE DEF later
  <2>2. (CHOOSE j \in later : \A k \in later : j <= k) \in later
    BY <2>1
  <2>3. TurnAfter(i) \in later
    BY <2>2, <1>3 DEF TurnAfter, later
  <2>4. QED
    BY <2>3, <1>1
<1>4. QED
  BY <1>2, <1>3

LEMMA AddOK ==
    ASSUME TrackingTypeOK, NEW id \in Id, NEW status \in Outcome, Add(id, status)
    PROVE  TrackingTypeOK'
<1> DEFINE new == [id |-> id, status |-> status, age |-> 0]
<1>1. new \in Tracked
  BY TrackingAssumption DEF Tracked
<1>2. entries' = [entries EXCEPT ![EntryFor] = new] /\ issued' = issued \cup {new}
  BY DEF Add
<1> HIDE DEF new
<1>3. QED
  BY <1>1, <1>2 DEF TrackingTypeOK

LEMMA CleanupOK ==
    ASSUME TrackingTypeOK, Cleanup
    PROVE  TrackingTypeOK'
BY DEF TrackingTypeOK, Cleanup

LEMMA TrackingElapseOK ==
    ASSUME TrackingTypeOK, TrackingElapse
    PROVE  TrackingTypeOK'
<1>1. ASSUME NEW r \in Tracked, NEW a \in 0..MaxAge + 1
      PROVE  [r EXCEPT !.age = a] \in Tracked
  <2> DEFINE Ages == 0..MaxAge + 1
  <2>1. Tracked = [id : Id, status : Outcome, age : Ages] /\ a \in Ages
    BY DEF Tracked
  <2> HIDE DEF Ages
  <2>2. QED
    BY Zenon, <2>1
<1>2. ASSUME NEW r \in Tracked
      PROVE  /\ r.age \in 0..MaxAge + 1
             /\ Older(r.age, MaxAge + 1) \in 0..MaxAge + 1
             /\ r.age < MaxAge => r.age + 1 \in 0..MaxAge + 1
  <2>1. r.age \in 0..MaxAge + 1
    BY DEF Tracked
  <2>2. QED
    BY <2>1, TrackingAssumption DEF Older
<1>3. ASSUME NEW e \in Entry
      PROVE  (IF e \in UnusedEntries THEN Unused
              ELSE [entries[e] EXCEPT !.age = Older(@, MaxAge + 1)]) \in Tracked \cup {Unused}
  <2>1. CASE entries[e] = Unused
    <3>1. Unused.id = NoId
      BY DEF Unused
    <3>2. e \in UnusedEntries
      BY Zenon, <2>1, <3>1 DEF UnusedEntries
    <3>3. QED
      BY Zenon, <3>2
  <2>2. CASE entries[e] \in Tracked
    <3>1. [entries[e] EXCEPT !.age = Older(@, MaxAge + 1)] \in Tracked
      BY Zenon, <1>1, <1>2, <2>2
    <3>2. QED
      BY Zenon, <3>1
  <2>3. QED
    BY <2>1, <2>2 DEF TrackingTypeOK
<1>4. entries' \in [Entry -> Tracked \cup {Unused}]
  BY Zenon, <1>3 DEF TrackingElapse
<1>5. issued' \subseteq Tracked
  <2>1. ASSUME NEW r \in issued, r.age < MaxAge
        PROVE  [r EXCEPT !.age = @ + 1] \in Tracked
    <3>1. r \in Tracked
      BY DEF TrackingTypeOK
    <3>2. r.age + 1 \in 0..MaxAge + 1
      BY <1>2, <2>1, <3>1
    <3>3. QED
      BY Zenon, <1>1, <3>1, <3>2
  <2>2. QED
    BY Zenon, <2>1 DEF TrackingElapse
<1>6. QED
  BY <1>4, <1>5 DEF TrackingTypeOK

------------------------------------------------------------------------------
(***************************************************************************)
(* The steps.                                                              *)
(***************************************************************************)

LEMMA CloseSessionInv ==
    ASSUME SlotsInv, NEW i \in NutSlot, Active(i), CloseSession(i)
    PROVE  SlotsInv'
<1>1. slots[i].conn \in Conn /\ FreeSlot.conn = NoConn
  BY SlotKinds DEF SlotsInv, FreeSlot
<1>2. /\ slots' = [slots EXCEPT ![i] = FreeSlot]
      /\ peers' = [peers EXCEPT ![slots[i].conn] = "away"]
      /\ Dropped({slots[i].conn})
  BY DEF CloseSession
<1>3. peers' = [d \in Conn |-> IF d = FreeSlot.conn THEN "open"
                               ELSE IF d = slots[i].conn THEN "away" ELSE peers[d]]
  BY <1>1, <1>2, NutAssumption DEF SlotsInv, SlotTypes
<1>4. Fresh(FreeSlot) /\ Replaced(i, FreeSlot)
  BY Zenon, <1>2, <1>3 DEF Fresh, Replaced
<1>5. QED
  BY <1>4, ReplacedInv

LEMMA OpenSessionInv ==
    ASSUME SlotsInv, NEW i \in NutSlot, NEW c \in Conn, peers[c] = "queued", OpenSession(c, i)
    PROVE  SlotsInv'
<1>1. Opened(c).conn = c
  BY Zenon DEF Opened, FreeSlot
<1>2. Replaced(i, Opened(c))
  BY Zenon, <1>1 DEF OpenSession, Replaced
<1>3. Fresh(Opened(c))
  BY Zenon DEF Fresh
<1>4. QED
  BY <1>2, <1>3, ReplacedInv

LEMMA AcceptInv == NutIInv /\ AcceptTurn => NutIInv'
<1> SUFFICES ASSUME NutIInv, AcceptTurn PROVE NutIInv'
  OBVIOUS
<1>1. TrackingTypeOK'
  BY CleanupOK DEF NutIInv, AcceptTurn
<1>2. workload' \in Workloads
  BY DEF NutIInv, RestTypes, AcceptTurn
<1>3. CASE turn' = TurnAfter(0) /\ UNCHANGED <<peers, slots, said, silent>>
  <2>1. turn' \in 0..MaxClients
    BY <1>3, TurnAfterOK, NutAssumption
  <2>2. SlotsInv'
    BY <1>3 DEF NutIInv, SlotsInv, SlotTypes, NothingInherited, ConnsApart, Active
  <2>3. QED
    BY <1>1, <1>2, <2>1, <2>2 DEF NutIInv, RestTypes
<1>4. ASSUME NEW c \in Conn, peers[c] = "queued", turn' = 1,
             LET free == {i \in NutSlot : SlotFree(i)}
             IN  IF free = {}
                 THEN peers' = [peers EXCEPT ![c] = "away"] /\ UNCHANGED <<slots, said, silent>>
                 ELSE OpenSession(c, CHOOSE i \in free : \A j \in free : i <= j)
      PROVE  NutIInv'
  <2> DEFINE free == {i \in NutSlot : SlotFree(i)}
  <2>1. turn' \in 0..MaxClients
    BY <1>4, NutAssumption
  <2>2. CASE free = {}
    <3>1. peers' = [peers EXCEPT ![c] = "away"] /\ UNCHANGED <<slots, said, silent>>
      BY <1>4, <2>2
    <3>2. SlotTypes' /\ NothingInherited'
      BY <3>1 DEF NutIInv, SlotsInv, SlotTypes, NothingInherited, Active
    <3>3. ConnsApart'
      BY <1>4, <3>1, SlotKinds DEF NutIInv, SlotsInv, SlotTypes, ConnsApart, Active
    <3>4. QED
      BY <1>1, <1>2, <2>1, <3>2, <3>3 DEF NutIInv, SlotsInv, RestTypes
  <2>3. CASE free # {}
    <3> DEFINE first == CHOOSE i \in free : \A j \in free : i <= j
    <3>1. free \subseteq Nat /\ free \subseteq NutSlot
      BY DEF NutSlot
    <3>2. OpenSession(c, first)
      BY <1>4, <2>3
    <3>3. \E i \in free : \A j \in free : i <= j
      BY <2>3, <3>1, Smallest
    <3> HIDE DEF free
    <3>4. first \in free
      BY <3>3
    <3> HIDE DEF first
    <3>5. SlotsInv'
      BY <1>4, <3>1, <3>2, <3>4, OpenSessionInv DEF NutIInv
    <3>6. QED
      BY <1>1, <1>2, <2>1, <3>5 DEF NutIInv, RestTypes
  <2>4. QED
    BY <2>2, <2>3
<1>5. QED
  BY <1>3, <1>4 DEF AcceptTurn

\* A line of the client: the slot goes on, an outcome may enter the table.
LEMMA LineInv ==
    ASSUME NutIInv, NEW i \in NutSlot, turn = i, Active(i),
           NEW session \in Sessions, session.conn = slots[i].conn,
           NEW facts \in SUBSET Facts, OwnWords(session, facts),
           Answered(i, session, facts), TrackingTypeOK'
    PROVE  NutIInv'
<1>1. SlotsInv'
  BY AnsweredInv DEF NutIInv
<1>2. turn' \in 0..MaxClients /\ workload' \in Workloads
  BY TurnAfterOK DEF NutIInv, RestTypes, Answered
<1>3. QED
  BY <1>1, <1>2 DEF NutIInv, RestTypes

\* Commands that only close the session of their client, or leave it alone.
LEMMA PassInv ==
    ASSUME NutIInv, NEW i \in NutSlot,
           ClosePeer(i) \/ CloseIdle(i) \/ NothingToRead(i) \/ Logout(i)
    PROVE  NutIInv'
<1>1. turn = i /\ Active(i)
  BY DEF ClosePeer, CloseIdle, NothingToRead, Logout, Reads
<1>2. turn' \in 0..MaxClients /\ workload' \in Workloads /\ TrackingTypeOK'
  <2>1. turn' = TurnAfter(i) /\ UNCHANGED <<workload, trackingVars>>
    BY DEF ClosePeer, CloseIdle, NothingToRead, Logout
  <2>2. i \in 0..MaxClients
    BY <1>1 DEF NutIInv, RestTypes
  <2>3. QED
    BY <2>1, <2>2, TurnAfterOK DEF NutIInv, RestTypes, trackingVars, TrackingTypeOK
<1>3. SlotsInv'
  <2>1. CASE CloseSession(i)
    BY <1>1, <2>1, CloseSessionInv DEF NutIInv
  <2>2. CASE NothingToRead(i)
    BY <2>2 DEF NothingToRead, NutIInv, SlotsInv, SlotTypes, NothingInherited, ConnsApart, Active
  <2>3. QED
    BY <2>1, <2>2 DEF ClosePeer, CloseIdle, Logout
<1>4. QED
  BY <1>2, <1>3 DEF NutIInv, RestTypes

\* What a line may make of the session of its client.
LEMMA SessionAfter ==
    ASSUME NutIInv, NEW i \in NutSlot, Active(i)
    PROVE  LET facts == said[slots[i].conn]
               piece == [slots[i] EXCEPT !.age = 0, !.line = @ \cup {slots[i].conn}]
           IN  /\ facts \in SUBSET Facts
               /\ piece \in Sessions /\ piece.conn = slots[i].conn /\ OwnWords(piece, facts)
               /\ Refreshed(i) \in Sessions /\ Refreshed(i).conn = slots[i].conn
               /\ OwnWords(Refreshed(i), facts)
<1> DEFINE Ages == 0..IdleTimeout + 1
           facts == said[slots[i].conn]
           piece == [slots[i] EXCEPT !.age = 0, !.line = @ \cup {slots[i].conn}]
<1>1. slots[i] \in Sessions /\ slots[i].conn \in Conn
  BY SlotKinds DEF NutIInv, SlotsInv
<1>2. 0 \in Ages
  BY NutAssumption
<1>3. Sessions = [conn : Conn, age : Ages, username : {"", "right", "wrong"},
                  passwordSet : BOOLEAN, authenticated : BOOLEAN, tracking : BOOLEAN,
                  line : SUBSET Conn]
  BY DEF Sessions
<1> HIDE DEF Ages
<1>4. facts \in SUBSET Facts
  BY <1>1 DEF NutIInv, SlotsInv, SlotTypes
<1>5. OwnWords(slots[i], facts)
  BY InheritedBySlot DEF NutIInv, SlotsInv
<1>6. slots[i].line \cup {slots[i].conn} \in SUBSET Conn
  BY <1>1, <1>3
<1>7. piece \in Sessions
  BY Zenon, <1>1, <1>2, <1>3, <1>6
<1>8. /\ piece.conn = slots[i].conn
      /\ piece.username = slots[i].username
      /\ piece.passwordSet = slots[i].passwordSet
      /\ piece.authenticated = slots[i].authenticated
      /\ piece.tracking = slots[i].tracking
      /\ piece.line = slots[i].line \cup {slots[i].conn}
  BY Zenon, <1>1, <1>3
<1>9. OwnWords(piece, facts)
  <2> HIDE DEF piece, facts
  <2>1. QED
    BY <1>5, <1>8 DEF OwnWords
<1>10. OwnWords(Refreshed(i), facts)
  <2> HIDE DEF facts
  <2>1. QED
    BY <1>1, <1>5, RefreshedOK DEF OwnWords
<1>11. QED
  BY <1>1, <1>4, <1>7, <1>8, <1>9, <1>10, RefreshedOK

LEMMA QueryInv ==
    ASSUME NutIInv, NEW i \in NutSlot, ReadPiece(i) \/ Query(i)
    PROVE  NutIInv'
<1>1. turn = i /\ Active(i)
  BY DEF ReadPiece, Query, Reads
<1>2. TrackingTypeOK'
  BY DEF ReadPiece, Query, NutIInv, TrackingTypeOK, trackingVars
<1>3. CASE ReadPiece(i)
  BY Zenon, <1>1, <1>2, <1>3, SessionAfter, LineInv DEF ReadPiece
<1>4. CASE Query(i)
  BY Zenon, <1>1, <1>2, <1>4, SessionAfter, LineInv DEF Query
<1>5. QED
  BY <1>3, <1>4

LEMMA UsernameInv ==
    ASSUME NutIInv, NEW i \in NutSlot, NEW name \in {"right", "wrong"}, Username(i, name)
    PROVE  NutIInv'
<1> DEFINE session == [Refreshed(i) EXCEPT !.username = name]
           facts == said[slots[i].conn]
           after == facts \cup {"username"}
<1>1. turn = i /\ Active(i) /\ TrackingTypeOK'
  BY DEF Username, Reads, NutIInv, TrackingTypeOK, trackingVars
<1>2. /\ Refreshed(i) \in Sessions /\ Refreshed(i).conn = slots[i].conn
      /\ OwnWords(Refreshed(i), facts) /\ facts \in SUBSET Facts
  BY <1>1, SessionAfter
<1>3. name \in {"", "right", "wrong"}
  OBVIOUS
<1>4. session \in Sessions
  BY Zenon, <1>2, <1>3 DEF Sessions
<1>5. /\ session.conn = slots[i].conn
      /\ session.username = name
      /\ session.passwordSet = Refreshed(i).passwordSet
      /\ session.authenticated = Refreshed(i).authenticated
      /\ session.tracking = Refreshed(i).tracking
      /\ session.line = Refreshed(i).line
  BY Zenon, <1>2 DEF Sessions
<1>6. Answered(i, session, after)
  BY Zenon DEF Username
<1> HIDE DEF session
<1>7. OwnWords(session, after) /\ after \in SUBSET Facts
  <2> HIDE DEF facts
  <2>1. QED
    BY <1>2, <1>5 DEF OwnWords, Facts
<1> HIDE DEF after
<1>8. QED
  BY <1>1, <1>4, <1>5, <1>6, <1>7, LineInv

LEMMA PasswordInv ==
    ASSUME NutIInv, NEW i \in NutSlot, NEW right \in BOOLEAN, Password(i, right)
    PROVE  NutIInv'
<1> DEFINE proof == right /\ slots[i].username = "right"
           session == [Refreshed(i) EXCEPT !.passwordSet = TRUE,
                                           !.authenticated = @ \/ proof]
           facts == said[slots[i].conn]
           after == facts \cup {"password"} \cup (IF proof THEN {"proof"} ELSE {})
<1>1. turn = i /\ Active(i) /\ TrackingTypeOK'
  BY DEF Password, Reads, NutIInv, TrackingTypeOK, trackingVars
<1>2. /\ Refreshed(i) \in Sessions /\ Refreshed(i).conn = slots[i].conn
      /\ OwnWords(Refreshed(i), facts) /\ facts \in SUBSET Facts
  BY <1>1, SessionAfter
<1>3. Answered(i, session, after)
  BY Zenon DEF Password
<1> HIDE DEF proof
<1>4. (Refreshed(i).authenticated \/ proof) \in BOOLEAN
  OBVIOUS
<1>5. session \in Sessions
  BY Zenon, <1>2, <1>4 DEF Sessions
<1>6. /\ session.conn = slots[i].conn
      /\ session.username = Refreshed(i).username
      /\ session.passwordSet = TRUE
      /\ session.authenticated = (Refreshed(i).authenticated \/ proof)
      /\ session.tracking = Refreshed(i).tracking
      /\ session.line = Refreshed(i).line
  BY Zenon, <1>2 DEF Sessions
<1> HIDE DEF session
<1>7. OwnWords(session, after) /\ after \in SUBSET Facts
  <2> HIDE DEF facts
  <2>1. after \in SUBSET Facts /\ "password" \in after /\ facts \subseteq after
    BY <1>2 DEF Facts
  <2>2. proof => "proof" \in after
    OBVIOUS
  <2> HIDE DEF after
  <2>3. OwnWords(session, after)
    BY Zenon, <1>2, <1>6, <2>1, <2>2 DEF OwnWords
  <2>4. QED
    BY <2>1, <2>3
<1> HIDE DEF after
<1>8. QED
  BY <1>1, <1>5, <1>6, <1>3, <1>7, LineInv

LEMMA SetTrackingInv ==
    ASSUME NutIInv, NEW i \in NutSlot, NEW on \in BOOLEAN, SetTracking(i, on)
    PROVE  NutIInv'
<1> DEFINE session == [Refreshed(i) EXCEPT !.tracking = on]
           facts == said[slots[i].conn]
           after == IF on THEN facts \cup {"tracking"} ELSE facts \ {"tracking"}
<1>1. turn = i /\ Active(i) /\ TrackingTypeOK'
  BY DEF SetTracking, Reads, NutIInv, TrackingTypeOK, trackingVars
<1>2. /\ Refreshed(i) \in Sessions /\ Refreshed(i).conn = slots[i].conn
      /\ OwnWords(Refreshed(i), facts) /\ facts \in SUBSET Facts
  BY <1>1, SessionAfter
<1>3. Answered(i, session, after)
  BY Zenon DEF SetTracking
<1>4. session \in Sessions
  BY Zenon, <1>2 DEF Sessions
<1>5. /\ session.conn = slots[i].conn
      /\ session.username = Refreshed(i).username
      /\ session.passwordSet = Refreshed(i).passwordSet
      /\ session.authenticated = Refreshed(i).authenticated
      /\ session.tracking = on
      /\ session.line = Refreshed(i).line
  BY Zenon, <1>2 DEF Sessions
<1> HIDE DEF session
<1>6. OwnWords(session, after) /\ after \in SUBSET Facts
  <2> HIDE DEF facts
  <2>1. QED
    BY <1>2, <1>5 DEF OwnWords, Facts
<1> HIDE DEF after
<1>7. QED
  BY <1>1, <1>3, <1>4, <1>5, <1>6, LineInv

\* An outcome goes to the table or to the client alone.
LEMMA ReplyOK ==
    ASSUME TrackingTypeOK, NEW i \in NutSlot, NEW id \in Id, NEW status \in Outcome,
           Reply(i, id, status)
    PROVE  TrackingTypeOK'
<1>1. CASE slots[i].tracking
  BY <1>1, AddOK DEF Reply
<1>2. CASE ~slots[i].tracking
  BY <1>2 DEF Reply, TrackingTypeOK, trackingVars
<1>3. QED
  BY <1>1, <1>2

LEMMA OutcomeInv ==
    ASSUME NutIInv, NEW i \in NutSlot, NEW id \in Id,
           (\E status \in Outcome : InstCmd(i, id, status))
             \/ SetVarFails(i, id) \/ SetVarApplied(i, id)
    PROVE  NutIInv'
<1>1. turn = i /\ Active(i) /\ Answered(i, Refreshed(i), said[slots[i].conn])
  BY Zenon DEF InstCmd, SetVarFails, SetVarApplied, Reads
<1>2. \E status \in Outcome : Reply(i, id, status)
  BY Zenon DEF InstCmd, SetVarFails, SetVarApplied, Outcome
<1>3. TrackingTypeOK'
  BY <1>2, ReplyOK DEF NutIInv
<1>4. QED
  BY Zenon, <1>1, <1>3, SessionAfter, LineInv

\* Steps that leave the slots and the table alone.
LEMMA AsideInv ==
    ASSUME NutIInv, UNCHANGED <<sessionVars, trackingVars>>
    PROVE  NutIInv'
<1>1. UNCHANGED <<peers, slots, turn, workload, said, silent, entries, issued>>
  BY DEF sessionVars, trackingVars
<1>2. SlotsInv'
  BY <1>1 DEF NutIInv, SlotsInv, SlotTypes, NothingInherited, ConnsApart, Active
<1>3. RestTypes' /\ TrackingTypeOK'
  BY <1>1 DEF NutIInv, RestTypes, TrackingTypeOK
<1>4. QED
  BY <1>2, <1>3 DEF NutIInv

LEMMA ServeInv ==
    ASSUME NutIInv, NEW i \in NutSlot, Serve(i)
    PROVE  NutIInv'
<1>1. CASE ClosePeer(i) \/ CloseIdle(i) \/ NothingToRead(i) \/ Logout(i)
  BY <1>1, PassInv
<1>2. CASE ReadPiece(i) \/ Query(i)
  BY <1>2, QueryInv
<1>3. CASE \E name \in {"right", "wrong"} : Username(i, name)
  BY <1>3, UsernameInv
<1>4. CASE \E right \in BOOLEAN : Password(i, right)
  BY <1>4, PasswordInv
<1>5. CASE \E on \in BOOLEAN : SetTracking(i, on)
  BY <1>5, SetTrackingInv
<1>6. CASE \E id \in Id : \/ \E status \in Outcome : InstCmd(i, id, status)
                          \/ SetVarFails(i, id) \/ SetVarApplied(i, id)
  BY <1>6, OutcomeInv
<1>7. CASE \E value \in Value : SetVar(i, value)
  BY <1>7, AsideInv DEF SetVar, sessionVars
<1>8. QED
  BY <1>1, <1>2, <1>3, <1>4, <1>5, <1>6, <1>7 DEF Serve

LEMMA ClientInv ==
    ASSUME NutIInv, NEW c \in Conn, Connect(c) \/ PeerCloses(c) \/ FallSilent(c)
    PROVE  NutIInv'
<1>1. UNCHANGED <<slots, turn, workload, said, trackingVars>>
  BY DEF Connect, PeerCloses, FallSilent
<1>2. RestTypes' /\ TrackingTypeOK' /\ NothingInherited'
  BY <1>1 DEF NutIInv, SlotsInv, RestTypes, TrackingTypeOK, trackingVars, NothingInherited, Active
<1>3. SlotTypes'
  BY <1>1 DEF Connect, PeerCloses, FallSilent, NutIInv, SlotsInv, SlotTypes
<1>4. ASSUME NEW d \in Conn, peers[d] \in {"open", "closed"}
      PROVE  peers'[d] \in {"open", "closed"}
  BY <1>4 DEF Connect, PeerCloses, FallSilent, NutIInv, SlotsInv, SlotTypes
<1>5. ConnsApart'
  BY <1>1, <1>4, SlotKinds DEF NutIInv, SlotsInv, ConnsApart, Active
<1>6. QED
  BY <1>2, <1>3, <1>5 DEF NutIInv, SlotsInv

LEMMA ElapseInv == NutIInv /\ NutElapse => NutIInv'
<1> SUFFICES ASSUME NutIInv, NutElapse PROVE NutIInv'
  OBVIOUS
<1> DEFINE Ages == 0..IdleTimeout + 1
           aged(i) == [slots[i] EXCEPT !.age = Older(@, IdleTimeout + 1)]
<1>1. UNCHANGED <<peers, turn, workload, said, silent>>
  BY DEF NutElapse
<1>2. slots' = [i \in NutSlot |-> IF Active(i) THEN aged(i) ELSE slots[i]]
  BY Zenon DEF NutElapse
<1>3. ASSUME NEW i \in NutSlot, Active(i)
      PROVE  /\ aged(i) \in Sessions /\ aged(i).conn = slots[i].conn
             /\ aged(i).username = slots[i].username
             /\ aged(i).passwordSet = slots[i].passwordSet
             /\ aged(i).authenticated = slots[i].authenticated
             /\ aged(i).tracking = slots[i].tracking
             /\ aged(i).line = slots[i].line
  <2>1. slots[i] \in Sessions
    BY <1>3, SlotKinds DEF NutIInv, SlotsInv
  <2>2. Sessions = [conn : Conn, age : Ages, username : {"", "right", "wrong"},
                    passwordSet : BOOLEAN, authenticated : BOOLEAN, tracking : BOOLEAN,
                    line : SUBSET Conn]
    BY DEF Sessions
  <2>3. slots[i].age \in Ages
    BY <2>1, <2>2
  <2>4. Older(slots[i].age, IdleTimeout + 1) \in Ages
    BY <2>3, NutAssumption DEF Older
  <2> HIDE DEF Ages
  <2>5. QED
    BY Zenon, <2>1, <2>2, <2>4
<1> HIDE DEF aged
<1>4. \A i \in NutSlot : slots'[i].conn = slots[i].conn /\ (Active(i)' <=> Active(i))
  BY <1>2, <1>3 DEF Active
<1>5. SlotTypes'
  <2>1. slots' \in [NutSlot -> Sessions \cup {FreeSlot}]
    BY <1>2, <1>3 DEF NutIInv, SlotsInv, SlotTypes
  <2>2. QED
    BY <1>1, <2>1 DEF NutIInv, SlotsInv, SlotTypes
<1>6. ConnsApart'
  BY <1>1, <1>4 DEF NutIInv, SlotsInv, ConnsApart
<1>7. ASSUME NEW i \in NutSlot, Active(i)'
      PROVE  OwnWords(slots'[i], said'[slots'[i].conn])
  <2>1. Active(i) /\ slots'[i] = aged(i)
    BY <1>2, <1>4, <1>7
  <2>2. OwnWords(slots[i], said[slots[i].conn])
    BY <2>1, InheritedBySlot DEF NutIInv, SlotsInv
  <2>3. QED
    BY <1>1, <1>3, <2>1, <2>2 DEF OwnWords
<1>8. TrackingTypeOK' /\ RestTypes'
  BY <1>1, TrackingElapseOK DEF NutElapse, NutIInv, RestTypes
<1>9. QED
  BY <1>5, <1>6, <1>7, <1>8, InheritedBySlotNext DEF NutIInv, SlotsInv

LEMMA SlotsInit == NutInit => NutIInv
<1> SUFFICES ASSUME NutInit PROVE NutIInv
  OBVIOUS
<1>1. \A i \in NutSlot : slots[i] = FreeSlot
  BY DEF NutInit
<1>2. \A i \in NutSlot : ~Active(i)
  <2>1. FreeSlot.conn = NoConn
    BY DEF FreeSlot
  <2>2. QED
    BY <1>1, <2>1 DEF Active
<1>3. SlotTypes
  BY DEF NutInit, SlotTypes
<1>4. NothingInherited /\ ConnsApart
  BY <1>2 DEF NothingInherited, ConnsApart
<1>5. RestTypes /\ TrackingTypeOK
  BY NutAssumption DEF NutInit, RestTypes, TrackingInit, TrackingTypeOK
<1>6. QED
  BY <1>3, <1>4, <1>5 DEF NutIInv, SlotsInv

LEMMA RestartSlotsInv ==
    ASSUME NutIInv, NEW read \in BOOLEAN, NutRestart(read)
    PROVE  NutIInv'
<1>1. \A i \in NutSlot : slots'[i] = FreeSlot
  BY DEF NutRestart
<1>2. \A i \in NutSlot : ~Active(i)'
  <2>1. FreeSlot.conn = NoConn
    BY DEF FreeSlot
  <2>2. QED
    BY <1>1, <2>1 DEF Active
<1>3. SlotTypes'
  BY DEF NutRestart, SlotTypes
<1>4. NothingInherited' /\ ConnsApart'
  BY <1>2 DEF NothingInherited, ConnsApart
<1>5. RestTypes' /\ TrackingTypeOK'
  BY NutAssumption DEF NutRestart, NutIInv, RestTypes, TrackingTypeOK
<1>6. QED
  BY <1>3, <1>4, <1>5 DEF NutIInv, SlotsInv

LEMMA StepInv == NutIInv /\ [NutNext]_nutVars => NutIInv'
<1> SUFFICES ASSUME NutIInv, [NutNext]_nutVars PROVE NutIInv'
  OBVIOUS
<1>1. CASE AcceptTurn
  BY <1>1, AcceptInv
<1>2. CASE \E i \in NutSlot : Serve(i)
  BY <1>2, ServeInv
<1>3. CASE Saves \/ WebReset \/ WebFails \/ WebApplied
  BY <1>3, AsideInv DEF Saves, WebReset, WebFails, WebApplied
<1>4. CASE \E c \in Conn : Connect(c) \/ PeerCloses(c) \/ FallSilent(c)
  BY <1>4, ClientInv
<1>5. CASE PollTask
  BY <1>5, AsideInv DEF PollTask
<1>6. CASE NutElapse
  BY <1>6, ElapseInv
<1>7. CASE \E read \in BOOLEAN : NutRestart(read)
  BY <1>7, RestartSlotsInv
<1>8. CASE UNCHANGED nutVars
  BY <1>8, AsideInv DEF nutVars
<1>9. QED
  BY <1>1, <1>2, <1>3, <1>4, <1>5, <1>6, <1>7, <1>8 DEF NutNext, LoopTask

\* The slots keep their types and what a slot holds was said on its own connection,
\* however many clients share the slots and however they come and go
\* (NUTServer::openSession(), closeSession(), handleCommand()).
THEOREM NutInvariant == NutSpec => []NutInv
<1>1. NutIInv /\ ValuesInv => NutInv
  BY DEF NutIInv, SlotsInv, SlotTypes, RestTypes, ValuesInv, NutInv, NutTypeOK
<1>2. NutInit => NutIInv /\ ValuesInv
  BY SlotsInit, ValuesStart
<1>3. NutIInv /\ ValuesInv /\ [NutNext]_nutVars => NutIInv' /\ ValuesInv'
  BY StepInv, NutValuesStep, ValuesStepInv
<1>4. QED
  BY <1>1, <1>2, <1>3, PTL DEF NutSpec

------------------------------------------------------------------------------
(***************************************************************************)
(* The outcomes.                                                           *)
(***************************************************************************)

\* As many other ids as the table has entries were issued, none of them older.
Displaced(r) ==
    \E f \in [Entry -> issued] :
        /\ \A d, e \in Entry : f[d] = f[e] => d = e
        /\ \A e \in Entry : f[e] # r /\ f[e].age <= r.age

Held(r) == \E e \in Entry : entries[e] = r

\* An id is issued once, what the table holds of the last MaxAge was issued, and
\* what is no more in the table was displaced.
OutcomesInv ==
    /\ TrackingTypeOK
    /\ IsFiniteSet(issued)
    /\ \A r \in issued : r.age <= MaxAge
    /\ \A r, s \in issued : r.id = s.id => r = s
    /\ \A d, e \in Entry \ UnusedEntries : entries[d].id = entries[e].id => d = e
    /\ \A e \in Entry \ UnusedEntries : entries[e].age <= MaxAge => entries[e] \in issued
    /\ \A r \in issued : Held(r) \/ Displaced(r)

LEMMA UsedTracked ==
    ASSUME TrackingTypeOK
    PROVE  \A e \in Entry : /\ e \notin UnusedEntries <=> entries[e] \in Tracked
                            /\ e \in UnusedEntries <=> entries[e] = Unused
<1>1. Unused.id = NoId
  BY DEF Unused
<1>2. \A r \in Tracked : r.id \in Id
  BY Zenon DEF Tracked
<1>3. QED
  BY <1>1, <1>2, TrackingAssumption DEF TrackingTypeOK, UnusedEntries

LEMMA TrackedFields ==
    \A r \in Tracked : r.id \in Id /\ r.age \in 0..MaxAge + 1
BY DEF Tracked

\* A full table gives away one of its oldest entries.
LEMMA EntryForOK ==
    ASSUME TrackingTypeOK
    PROVE  /\ EntryFor \in Entry
           /\ \/ EntryFor \in UnusedEntries
              \/ /\ UnusedEntries = {}
                 /\ \A e \in Entry : entries[e].age <= entries[EntryFor].age
<1>1. CASE UnusedEntries # {}
  <2>1. UnusedEntries \subseteq Nat /\ UnusedEntries \subseteq Entry
    BY DEF UnusedEntries, Entry
  <2>2. \E e \in UnusedEntries : \A f \in UnusedEntries : e <= f
    BY <1>1, <2>1, Smallest
  <2>3. EntryFor \in UnusedEntries
    BY <1>1, <2>2 DEF EntryFor
  <2>4. QED
    BY <2>1, <2>3
<1>2. CASE UnusedEntries = {}
  <2>1. \A e \in Entry : entries[e].age \in 0..MaxAge + 1
    BY <1>2, UsedTracked, TrackedFields
  <2> DEFINE ages == {entries[e].age : e \in Entry}
  <2>2. ages \subseteq 0..MaxAge + 1 /\ ages # {} /\ MaxAge + 1 \in Nat
    BY <2>1, TrackingAssumption DEF Entry
  <2>3. PICK most \in ages : \A a \in ages : a <= most
    BY <2>2, Largest
  <2> DEFINE eldest == {e \in Entry : entries[e].age = most}
  <2>4. eldest \subseteq 0..Capacity /\ eldest # {} /\ Capacity \in Nat
    BY TrackingAssumption DEF Entry
  <2>5. PICK last \in eldest : \A e \in eldest : e <= last
    BY <2>4, Largest
  <2>6. \A e \in Entry : entries[e].age <= most
    BY <2>3
  <2> HIDE DEF ages
  <2>7. last \in Entry /\ \A f \in Entry : \/ entries[last].age > entries[f].age
                                           \/ entries[last].age = entries[f].age /\ last >= f
    <3>1. SUFFICES ASSUME NEW f \in Entry
                   PROVE  \/ most > entries[f].age
                          \/ most = entries[f].age /\ last >= f
      BY <2>5
    <3>2. CASE entries[f].age = most
      BY <2>5, <3>2, <2>4 DEF Entry
    <3>3. CASE entries[f].age # most
      <4>1. most \in Int /\ entries[f].age \in Int
        BY <2>1, <2>2, <2>3
      <4>2. QED
        BY <3>3, <2>6, <4>1
    <3>4. QED
      BY <3>2, <3>3
  <2> HIDE DEF eldest
  <2>8. EntryFor = CHOOSE e \in Entry :
                     \A f \in Entry : \/ entries[e].age > entries[f].age
                                      \/ entries[e].age = entries[f].age /\ e >= f
    BY Zenon, <1>2 DEF EntryFor
  <2>9. /\ EntryFor \in Entry
        /\ \A f \in Entry : \/ entries[EntryFor].age > entries[f].age
                            \/ entries[EntryFor].age = entries[f].age /\ EntryFor >= f
    BY Zenon, <2>7, <2>8
  <2>10. QED
    BY <1>2, <2>1, <2>9
<1>3. QED
  BY <1>1, <1>2

\* A new outcome takes the place of none, or of one that the table is full of.
LEMMA AddKeeps ==
    ASSUME OutcomesInv, NEW id \in Id, NEW status \in Outcome, Add(id, status)
    PROVE  OutcomesInv'
<1> DEFINE new == [id |-> id, status |-> status, age |-> 0]
<1>1. new \in Tracked /\ new.id = id /\ new.age = 0
  BY TrackingAssumption DEF Tracked
<1>2. entries' = [entries EXCEPT ![EntryFor] = new] /\ issued' = issued \cup {new}
  BY DEF Add
<1>3. FreshId(id)
  BY DEF Add
<1> HIDE DEF new
<1>4. TrackingTypeOK
  BY DEF OutcomesInv
<1>5. EntryFor \in Entry
  BY <1>4, EntryForOK
<1>6. \A e \in Entry : entries'[e] = IF e = EntryFor THEN new ELSE entries[e]
  BY <1>2, <1>4 DEF TrackingTypeOK
<1>7. TrackingTypeOK'
  BY <1>1, <1>2, <1>4 DEF TrackingTypeOK
<1>8. /\ \A e \in Entry : e \in UnusedEntries' => e \in UnusedEntries /\ e # EntryFor
      /\ \A e \in Entry : e # EntryFor /\ e \in UnusedEntries => e \in UnusedEntries'
  BY <1>1, <1>6, TrackingAssumption DEF UnusedEntries
<1>9. IsFiniteSet(issued')
  BY <1>2, FS_AddElement DEF OutcomesInv
<1>10. \A r \in issued' : r.age <= MaxAge
  BY <1>1, <1>2, TrackingAssumption DEF OutcomesInv
<1>11. \A r, s \in issued' : r.id = s.id => r = s
  BY <1>1, <1>2, <1>3 DEF OutcomesInv, FreshId
<1>12. \A d, e \in (Entry \ UnusedEntries)' : entries'[d].id = entries'[e].id => d = e
  <2>1. \A e \in Entry \ UnusedEntries : entries[e].id # id
    BY <1>3 DEF FreshId
  <2>2. \A e \in (Entry \ UnusedEntries)' :
          \/ e = EntryFor /\ entries'[e].id = id
          \/ e \in Entry \ UnusedEntries /\ entries'[e] = entries[e] /\ e # EntryFor
    BY <1>1, <1>6, <1>8 DEF Entry
  <2>3. QED
    BY <2>1, <2>2 DEF OutcomesInv
<1>13. \A e \in (Entry \ UnusedEntries)' : entries'[e].age <= MaxAge => entries'[e] \in issued'
  BY <1>2, <1>6, <1>8 DEF OutcomesInv, Entry
<1>14. ASSUME NEW r \in issued'
       PROVE  (Held(r) \/ Displaced(r))'
  <2>1. CASE r = new
    BY <2>1, <1>5, <1>6 DEF Held, Entry
  <2>2. CASE r \in issued /\ Displaced(r)
    <3>1. PICK f \in [Entry -> issued] :
             /\ \A d, e \in Entry : f[d] = f[e] => d = e
             /\ \A e \in Entry : f[e] # r /\ f[e].age <= r.age
      BY <2>2 DEF Displaced
    <3>2. f \in [Entry' -> issued']
      BY <1>2, <3>1 DEF Entry
    <3>3. QED
      BY <3>1, <3>2 DEF Displaced, Entry
  <2>3. CASE r \in issued /\ Held(r)
    <3>1. PICK h \in Entry : entries[h] = r
      BY <2>3 DEF Held
    <3>2. CASE h # EntryFor
      BY <3>1, <3>2, <1>6 DEF Held, Entry
    <3>3. CASE h = EntryFor
      <4>1. r \in Tracked /\ r.age <= MaxAge /\ r.age \in Int /\ r.id # id
        BY <2>3, <1>3, TrackedFields DEF OutcomesInv, TrackingTypeOK, FreshId
      <4>2. h \notin UnusedEntries
        BY <3>1, <4>1, <1>4, UsedTracked
      <4>3. \A e \in Entry : entries[e].age <= r.age
        BY <3>1, <3>3, <4>2, <1>4, EntryForOK
      <4>4. UnusedEntries = {}
        BY <3>3, <4>2, <1>4, EntryForOK
      <4>5. \A e \in Entry : /\ e \notin UnusedEntries /\ e \notin UnusedEntries'
                             /\ entries[e] \in Tracked /\ entries[e].age \in Int
        BY <4>4, <1>4, <1>8, UsedTracked, TrackedFields
      <4>6. \A e \in Entry : entries[e].age <= MaxAge
        BY <4>1, <4>3, <4>5, TrackingAssumption
      <4>7. \A e \in Entry : entries'[e] \in issued'
        BY <1>2, <1>6, <4>5, <4>6 DEF OutcomesInv
      <4>8. entries' \in [Entry' -> issued']
        BY <4>7, <1>7 DEF TrackingTypeOK, Entry
      <4>9. \A d, e \in Entry : entries'[d] = entries'[e] => d = e
        BY <1>12, <4>5 DEF Entry
      <4>10. \A e \in Entry : entries'[e] # r
        BY <1>1, <1>6, <3>1, <3>3, <4>1, <4>5 DEF OutcomesInv
      <4>11. \A e \in Entry : entries'[e].age <= r.age
        BY <1>1, <1>6, <4>1, <4>3, TrackedFields
      <4>12. QED
        BY <4>8, <4>9, <4>10, <4>11 DEF Displaced, Entry
    <3>4. QED
      BY <3>2, <3>3
  <2>4. QED
    BY <2>1, <2>2, <2>3, <1>2 DEF OutcomesInv
<1>15. QED
  BY <1>7, <1>9, <1>10, <1>11, <1>12, <1>13, <1>14 DEF OutcomesInv

\* What goes at a pass of loop() is older than MaxAge.
LEMMA CleanupKeeps ==
    ASSUME OutcomesInv, Cleanup
    PROVE  OutcomesInv'
<1>1. TrackingTypeOK /\ TrackingTypeOK' /\ issued' = issued
  BY DEF OutcomesInv, TrackingTypeOK, Cleanup
<1>2. \A e \in Entry : entries'[e] = IF entries[e].age > MaxAge THEN Unused ELSE entries[e]
  BY DEF Cleanup
<1>3. \A e \in (Entry \ UnusedEntries)' : e \in Entry \ UnusedEntries /\ entries'[e] = entries[e]
  <2>1. Unused.id = NoId
    BY DEF Unused
  <2>2. QED
    BY <1>2, <2>1 DEF UnusedEntries, Entry
<1>4. ASSUME NEW r \in issued, Held(r)
      PROVE  Held(r)'
  <2>1. PICK h \in Entry : entries[h] = r
    BY <1>4 DEF Held
  <2>2. r.age <= MaxAge /\ r.age \in Int
    BY <1>1, TrackedFields DEF OutcomesInv, TrackingTypeOK
  <2>3. entries'[h] = r
    BY <1>2, <2>1, <2>2, TrackingAssumption
  <2>4. QED
    BY <2>1, <2>3 DEF Held, Entry
<1>5. ASSUME NEW r, Displaced(r)
      PROVE  Displaced(r)'
  BY <1>1, <1>5 DEF Displaced, Entry
<1>6. QED
  BY <1>1, <1>3, <1>4, <1>5 DEF OutcomesInv

\* Every age grows by one, in the table and among the ids alike.
LEMMA ElapseKeeps ==
    ASSUME OutcomesInv, TrackingElapse
    PROVE  OutcomesInv'
<1> DEFINE aged(r) == [r EXCEPT !.age = @ + 1]
           lasting == {s \in issued : s.age < MaxAge}
<1>1. TrackingTypeOK /\ TrackingTypeOK'
  BY TrackingElapseOK DEF OutcomesInv
<1>2. issued' = {aged(r) : r \in lasting}
  BY DEF TrackingElapse
<1>3. \A e \in Entry : entries'[e] = IF e \in UnusedEntries THEN Unused
                                     ELSE [entries[e] EXCEPT !.age = Older(@, MaxAge + 1)]
  BY Zenon DEF TrackingElapse
<1>4. ASSUME NEW r \in Tracked
      PROVE  aged(r).id = r.id /\ aged(r).status = r.status /\ aged(r).age = r.age + 1
  BY DEF Tracked
<1>5. ASSUME NEW r \in Tracked, NEW s \in Tracked
      PROVE  aged(r) = aged(s) => r = s
  <2>1. SUFFICES ASSUME aged(r) = aged(s) PROVE r = s
    OBVIOUS
  <2>2. aged(r).age = aged(s).age /\ aged(r).id = aged(s).id /\ aged(r).status = aged(s).status
    BY <2>1
  <2> HIDE DEF aged
  <2>3. r.id = s.id /\ r.status = s.status /\ r.age + 1 = s.age + 1
    BY <1>4, <2>2
  <2>4. r.age \in Int /\ s.age \in Int
    BY TrackedFields
  <2>5. r.age = s.age
    BY <2>3, <2>4
  <2>6. QED
    BY <2>3, <2>5 DEF Tracked
<1>6. \A e \in Entry : entries[e].age <= MaxAge /\ e \notin UnusedEntries => entries'[e] = aged(entries[e])
  <2>1. SUFFICES ASSUME NEW e \in Entry, entries[e].age <= MaxAge, e \notin UnusedEntries
                 PROVE  entries'[e] = aged(entries[e])
    OBVIOUS
  <2>2. entries[e].age \in Int
    BY <2>1, <1>1, UsedTracked, TrackedFields
  <2>3. Older(entries[e].age, MaxAge + 1) = entries[e].age + 1
    BY <2>1, <2>2, TrackingAssumption DEF Older
  <2>4. QED
    BY <1>3, <2>1, <2>3
<1>7. lasting \subseteq issued /\ issued \subseteq Tracked
  BY <1>1 DEF TrackingTypeOK
<1>8. \A r \in issued : r \in lasting <=> r.age < MaxAge
  OBVIOUS
<1>9. \A r \in issued : r.age \in Int
  BY <1>7, TrackedFields
<1> HIDE DEF aged, lasting
<1>10. IsFiniteSet(issued')
  <2>1. IsFiniteSet(lasting)
    BY <1>7, FS_Subset DEF OutcomesInv
  <2> DEFINE shift == [r \in lasting |-> aged(r)]
  <2>2. shift \in Surjection(lasting, issued')
    BY <1>2 DEF Surjection
  <2>3. QED
    BY <2>1, <2>2, FS_Surjection
<1>11. \A r \in issued' : r.age <= MaxAge
  BY <1>2, <1>4, <1>7, <1>8, <1>9, TrackingAssumption
<1>12. \A r, s \in issued' : r.id = s.id => r = s
  BY <1>2, <1>4, <1>7 DEF OutcomesInv
<1>13. \A e \in (Entry \ UnusedEntries)' :
          /\ e \in Entry \ UnusedEntries
          /\ entries'[e].id = entries[e].id
          /\ entries'[e].age <= MaxAge => entries[e].age < MaxAge
  <2>1. SUFFICES ASSUME NEW e \in (Entry \ UnusedEntries)'
                 PROVE  /\ e \in Entry \ UnusedEntries
                        /\ entries'[e].id = entries[e].id
                        /\ entries'[e].age <= MaxAge => entries[e].age < MaxAge
    OBVIOUS
  <2>2. Unused.id = NoId
    BY DEF Unused
  <2>3. e \in Entry \ UnusedEntries
    BY <1>3, <2>1, <2>2 DEF UnusedEntries, Entry
  <2>4. entries[e] \in Tracked
    BY <2>3, <1>1, UsedTracked
  <2>5. /\ entries'[e].id = entries[e].id
        /\ entries'[e].age = Older(entries[e].age, MaxAge + 1)
    BY <1>3, <2>3, <2>4 DEF Tracked
  <2>6. entries[e].age \in 0..MaxAge + 1
    BY <2>4, TrackedFields
  <2>7. QED
    BY <2>3, <2>5, <2>6, TrackingAssumption DEF Older
<1>14. \A d, e \in (Entry \ UnusedEntries)' : entries'[d].id = entries'[e].id => d = e
  BY <1>13 DEF OutcomesInv
<1>15. \A e \in (Entry \ UnusedEntries)' : entries'[e].age <= MaxAge => entries'[e] \in issued'
  <2>1. SUFFICES ASSUME NEW e \in (Entry \ UnusedEntries)', entries'[e].age <= MaxAge
                 PROVE  entries'[e] \in issued'
    OBVIOUS
  <2>2. e \in Entry \ UnusedEntries /\ entries[e].age < MaxAge
    BY <1>13, <2>1
  <2>3. entries[e].age \in Int
    BY <2>2, <1>1, UsedTracked, TrackedFields
  <2>4. entries[e].age <= MaxAge
    BY <2>2, <2>3, TrackingAssumption
  <2>5. entries[e] \in lasting
    BY <2>2, <2>4, <1>8 DEF OutcomesInv
  <2>6. QED
    BY <1>2, <1>6, <2>2, <2>4, <2>5
<1>16. ASSUME NEW r \in lasting, Held(r)
       PROVE  Held(aged(r))'
  <2>1. PICK h \in Entry : entries[h] = r
    BY <1>16 DEF Held
  <2>2. h \notin UnusedEntries /\ r.age <= MaxAge
    BY <1>1, <1>7, <2>1, UsedTracked DEF OutcomesInv
  <2>3. QED
    BY <1>6, <2>1, <2>2 DEF Held, Entry
<1>17. ASSUME NEW r \in lasting, Displaced(r)
       PROVE  Displaced(aged(r))'
  <2>1. PICK f \in [Entry -> issued] :
           /\ \A d, e \in Entry : f[d] = f[e] => d = e
           /\ \A e \in Entry : f[e] # r /\ f[e].age <= r.age
    BY <1>17 DEF Displaced
  <2>2. r.age < MaxAge /\ r.age \in Int /\ r \in Tracked
    BY <1>7, <1>8, <1>9
  <2>3. \A e \in Entry : f[e] \in lasting /\ f[e] \in Tracked /\ f[e].age \in Int
    BY <1>7, <1>8, <1>9, <2>1, <2>2, TrackingAssumption
  <2> DEFINE g == [e \in Entry |-> aged(f[e])]
  <2>4. g \in [Entry' -> issued']
    BY <1>2, <2>3 DEF Entry
  <2>5. \A d, e \in Entry : g[d] = g[e] => d = e
    BY <1>5, <2>1, <2>3
  <2>6. \A e \in Entry : g[e] # aged(r)
    BY <1>5, <2>1, <2>2, <2>3
  <2>7. \A e \in Entry : g[e].age <= aged(r).age
    BY <1>4, <2>1, <2>2, <2>3
  <2> HIDE DEF g
  <2>8. QED
    BY <2>4, <2>5, <2>6, <2>7 DEF Displaced, Entry
<1>18. \A r \in issued' : (Held(r) \/ Displaced(r))'
  <2>1. SUFFICES ASSUME NEW r \in lasting
                 PROVE  (Held(aged(r)) \/ Displaced(aged(r)))'
    BY <1>2
  <2>2. Held(r) \/ Displaced(r)
    BY <1>7 DEF OutcomesInv
  <2>3. QED
    BY <1>16, <1>17, <2>2
<1>19. QED
  BY <1>1, <1>10, <1>11, <1>12, <1>14, <1>15, <1>18 DEF OutcomesInv

LEMMA NoOutcomes ==
    ASSUME entries = [e \in Entry |-> Unused], issued = {}
    PROVE  OutcomesInv
<1>1. UnusedEntries = Entry
  BY DEF UnusedEntries, Unused
<1>2. QED
  BY <1>1, FS_EmptySet DEF OutcomesInv, TrackingTypeOK

\* GET TRACKING finds the one entry of an id, unless the table is too small for it.
LEMMA HeldAnswers == OutcomesInv => OutcomeKept
<1> SUFFICES ASSUME OutcomesInv, NEW r \in issued,
                    Cardinality({s \in issued : s # r /\ s.age <= r.age}) < Capacity
             PROVE  Get(r.id) = r.status
  BY DEF OutcomeKept
<1> DEFINE others == {s \in issued : s # r /\ s.age <= r.age}
<1>1. others \subseteq issued /\ Cardinality(others) < Capacity
  OBVIOUS
<1>2. IsFiniteSet(others) /\ Cardinality(others) \in Nat
  BY <1>1, FS_Subset, FS_CardinalityType DEF OutcomesInv
<1>3. ~Displaced(r)
  <2> SUFFICES ASSUME Displaced(r) PROVE FALSE
    OBVIOUS
  <2>1. PICK f \in [Entry -> issued] :
           /\ \A d, e \in Entry : f[d] = f[e] => d = e
           /\ \A e \in Entry : f[e] # r /\ f[e].age <= r.age
    BY DEF Displaced
  <2>2. f \in [Entry -> others]
    BY <2>1
  <2> HIDE DEF others
  <2>3. f \in Injection(Entry, others)
    BY <2>1, <2>2 DEF Injection, IsInjective
  <2>4. Cardinality(Entry) <= Cardinality(others)
    BY <1>2, <2>3, FS_Injection
  <2>5. Cardinality(Entry) = Capacity
    <3>1. Capacity \in Int /\ 1 \in Int /\ ~(1 > Capacity) /\ Capacity - 1 + 1 = Capacity
      BY TrackingAssumption
    <3>2. Cardinality(1..Capacity) = IF 1 > Capacity THEN 0 ELSE Capacity - 1 + 1
      BY <3>1, FS_Interval
    <3>3. QED
      BY <3>1, <3>2 DEF Entry
  <2>6. QED
    BY <1>1, <1>2, <2>4, <2>5, TrackingAssumption
<1> HIDE DEF others
<1>4. PICK h \in Entry : entries[h] = r
  BY <1>3 DEF OutcomesInv, Held
<1>5. h \in Entry \ UnusedEntries /\ r.age <= MaxAge
  BY <1>4, UsedTracked DEF OutcomesInv, TrackingTypeOK
<1> DEFINE found == {e \in Entry \ UnusedEntries : entries[e].id = r.id /\ entries[e].age <= MaxAge}
<1>6. found = {h}
  BY <1>4, <1>5 DEF OutcomesInv
<1>7. (CHOOSE e \in found : TRUE) = h
  BY <1>6
<1>8. Get(r.id) = entries[CHOOSE e \in found : TRUE].status
  BY <1>6 DEF Get
<1>9. QED
  BY <1>4, <1>7, <1>8

------------------------------------------------------------------------------
\* What a step of the server does to the table.
TrackingStep ==
    \/ \E id \in Id : \E status \in Outcome : Add(id, status)
    \/ Cleanup \/ TrackingElapse
    \/ entries' = [e \in Entry |-> Unused] /\ issued' = {}
    \/ UNCHANGED trackingVars

LEMMA TrackingStepKeeps == OutcomesInv /\ TrackingStep => OutcomesInv'
<1> SUFFICES ASSUME OutcomesInv, TrackingStep PROVE OutcomesInv'
  OBVIOUS
<1>1. CASE \E id \in Id : \E status \in Outcome : Add(id, status)
  BY <1>1, AddKeeps
<1>2. CASE Cleanup \/ TrackingElapse
  BY <1>2, CleanupKeeps, ElapseKeeps
<1>3. CASE entries' = [e \in Entry |-> Unused] /\ issued' = {}
  <2>1. UnusedEntries' = Entry /\ Entry' = Entry
    BY <1>3 DEF UnusedEntries, Unused, Entry
  <2>2. QED
    BY <1>3, <2>1, FS_EmptySet DEF OutcomesInv, TrackingTypeOK
<1>4. CASE UNCHANGED trackingVars
  BY <1>4 DEF trackingVars, OutcomesInv, TrackingTypeOK, UnusedEntries, Entry, Held, Displaced
<1>5. QED
  BY <1>1, <1>2, <1>3, <1>4 DEF TrackingStep

LEMMA NutTrackingStep == [NutNext]_nutVars => TrackingStep
<1> SUFFICES ASSUME [NutNext]_nutVars PROVE TrackingStep
  OBVIOUS
<1>1. CASE AcceptTurn
  BY Zenon, <1>1 DEF AcceptTurn, TrackingStep
<1>2. ASSUME NEW i \in NutSlot, Serve(i)
      PROVE  TrackingStep
  <2>1. CASE \E id \in Id : \/ \E status \in Outcome : InstCmd(i, id, status)
                           \/ SetVarFails(i, id) \/ SetVarApplied(i, id)
    <3>1. \E id \in Id : \E status \in Outcome : Reply(i, id, status)
      BY Zenon, <2>1 DEF InstCmd, SetVarFails, SetVarApplied, Outcome
    <3>2. QED
      BY Zenon, <3>1 DEF Reply, TrackingStep
  <2>2. CASE \/ ClosePeer(i) \/ CloseIdle(i) \/ NothingToRead(i) \/ ReadPiece(i) \/ Query(i)
             \/ Logout(i)
    BY Zenon, <2>2 DEF ClosePeer, CloseIdle, NothingToRead, ReadPiece, Query, Logout,
       TrackingStep
  <2>3. CASE \/ \E name \in {"right", "wrong"} : Username(i, name)
             \/ \E right \in BOOLEAN : Password(i, right)
             \/ \E on \in BOOLEAN : SetTracking(i, on)
             \/ \E value \in Value : SetVar(i, value)
    BY Zenon, <2>3 DEF Username, Password, SetTracking, SetVar, TrackingStep
  <2>4. QED
    BY <1>2, <2>1, <2>2, <2>3 DEF Serve
<1>3. CASE \/ Saves \/ WebReset \/ WebFails \/ WebApplied \/ PollTask
           \/ \E c \in Conn : Connect(c) \/ PeerCloses(c) \/ FallSilent(c)
  BY <1>3 DEF Saves, WebReset, WebFails, WebApplied, PollTask, Connect, PeerCloses, FallSilent,
     TrackingStep, trackingVars
<1>4. CASE NutElapse \/ \E read \in BOOLEAN : NutRestart(read)
  BY Zenon, <1>4 DEF NutElapse, NutRestart, TrackingStep
<1>5. CASE UNCHANGED nutVars
  BY <1>5 DEF nutVars, trackingVars, TrackingStep
<1>6. QED
  BY <1>1, <1>2, <1>3, <1>4, <1>5 DEF NutNext, LoopTask

\* GET TRACKING answers the outcome of its own command until it is MAX_AGE_MS old or
\* as many that are not older were issued as the table holds, for any size of the table and
\* any number of clients that share it (NutTracking::add(), cleanup(), get()).
THEOREM OutcomesKept == NutSpec => []OutcomeKept
<1>1. NutInit => OutcomesInv
  BY NoOutcomes DEF NutInit, TrackingInit
<1>2. OutcomesInv /\ [NutNext]_nutVars => OutcomesInv'
  BY NutTrackingStep, TrackingStepKeeps
<1>3. QED
  BY <1>1, <1>2, HeldAnswers, PTL DEF NutSpec

==============================================================================
