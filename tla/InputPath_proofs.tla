--------------------------- MODULE InputPath_proofs ---------------------------
(***************************************************************************)
(* The queue, the watchdog and the reports of an INPUT pipe, for any       *)
(* length of the queue, any reserve of two slots or more, any limits and   *)
(* any devices: LifecycleKept, SilenceEarned, CoveredPays, PeriodKept,     *)
(* InputInv and AlignsAgain.                                               *)
(***************************************************************************)
EXTENDS InputPath, TLAPS, WellFoundedInduction, FiniteSetTheorems

Packet == [type : {"INPUT_REPORT"}, age : Nat, len : Nat, part : Nat, size : Int,
           expected : Nat, lost : BOOLEAN, paused : BOOLEAN]
Event == Packet \cup [type : Lifecycle]

PathTypes ==
    /\ queue \in Seq(Event)
    /\ device \in Devices
    /\ stream \in [len : Nat, part : Nat]
    /\ cut \in BOOLEAN

\* A packet is only in the slots that are not reserved, an event of a kind only once,
\* and nothing but packets comes after a removal that is still to be handled.
Order ==
    /\ Len(queue) <= QueueLen
    /\ \A i \in 1..Len(queue) : i > QueueLen - Reserved => ~IsInput(queue[i])
    /\ \A i, j \in 1..Len(queue) :
         ~IsInput(queue[i]) /\ queue[i].type = queue[j].type => i = j
    /\ \A i, j \in 1..Len(queue) :
         queue[i].type = "DISCONNECTED" /\ ~IsInput(queue[j]) => j <= i

\* What is still to be handled tells what the cable, the pipe and the poll task are at.
Reflects ==
    /\ pipe => /\ attached /\ claimed /\ ~restartPending
               /\ ~Pending("TRANSFER_ERROR")
    /\ attached => ~Pending("DISCONNECTED")
    /\ Pending("CONNECTED") => ~claimed /\ ~Pending("TRANSFER_ERROR")
    /\ ~attached /\ (claimed \/ Pending("CONNECTED") \/ Pending("TRANSFER_ERROR")) =>
         Pending("DISCONNECTED")
    /\ pollPc = "main" /\ claimed /\ restartPending => ~Pending("TRANSFER_ERROR")

QueueInv == PathTypes /\ Order /\ Reflects

-------------------------------------------------------------------------------
LEMMA EventKinds ==
    ASSUME NEW e \in Event
    PROVE  /\ e.type \in Lifecycle \cup {"INPUT_REPORT"}
           /\ IsInput(e) <=> e.type = "INPUT_REPORT"
           /\ IsInput(e) => e \in Packet
BY DEF Event, Packet, Lifecycle, IsInput

LEMMA PendingAt ==
    ASSUME PathTypes, NEW kind
    PROVE  Pending(kind) <=> \E i \in 1..Len(queue) : queue[i].type = kind
BY DEF Pending, PathTypes

LEMMA PendingAtNext ==
    ASSUME PathTypes', NEW kind
    PROVE  Pending(kind)' <=> \E i \in 1..Len(queue') : queue'[i].type = kind
BY DEF Pending, PathTypes

LEMMA LengthsOfDevices == \A d \in Devices : d.lengths \subseteq Nat
BY InputPathAssumption, ReassemblerAssumption

LEMMA QueueInit == InputInit => QueueInv
<1> SUFFICES ASSUME InputInit PROVE QueueInv
  OBVIOUS
<1>1. stream \in [len : Nat, part : Nat]
  <2>1. device.lengths \subseteq Nat
    BY LengthsOfDevices DEF InputInit
  <2>2. PICK n \in device.lengths : stream = [len |-> n, part |-> 1]
    BY Zenon DEF InputInit, FirstParts
  <2>3. QED
    BY <2>1, <2>2
<1>2. PathTypes
  <2>1. queue = <<>> /\ device \in Devices /\ cut = FALSE
    BY DEF InputInit
  <2>2. <<>> \in Seq(Event)
    OBVIOUS
  <2>3. QED
    BY <1>1, <2>1, <2>2 DEF PathTypes
<1>3. queue = <<>> /\ ~pipe /\ ~claimed /\ ~attached /\ Len(queue) = 0
  BY DEF InputInit
<1>4. Order
  BY <1>3, InputPathAssumption DEF Order
<1>5. Reflects
  BY <1>2, <1>3, PendingAt DEF Reflects
<1>6. QED
  BY <1>2, <1>4, <1>5 DEF QueueInv

\* What the sequences do.
LEMMA Appended ==
    ASSUME PathTypes, NEW e \in Event, queue' = Append(queue, e)
    PROVE  /\ queue' \in Seq(Event) /\ Len(queue') = Len(queue) + 1
           /\ \A i \in 1..Len(queue) : queue'[i] = queue[i]
           /\ queue'[Len(queue) + 1] = e
BY DEF PathTypes

LEMMA Taken ==
    ASSUME PathTypes, queue # <<>>, queue' = Tail(queue)
    PROVE  /\ queue' \in Seq(Event) /\ Len(queue') = Len(queue) - 1 /\ Len(queue) >= 1
           /\ \A i \in 1..Len(queue') : queue'[i] = queue[i + 1]
           /\ Head(queue) = queue[1] /\ Head(queue) \in Event
BY DEF PathTypes

\* A queue with the events of the one before, or later ones of them, keeps its order.
LEMMA TailOrder ==
    ASSUME PathTypes, Order, queue # <<>>, queue' = Tail(queue)
    PROVE  Order'
BY Taken, InputPathAssumption DEF Order, IsInput

LEMMA TailPending ==
    ASSUME PathTypes, Order, queue # <<>>, queue' = Tail(queue), PathTypes', NEW kind
    PROVE  /\ Pending(kind)' => Pending(kind)
           /\ Pending(kind) => Pending(kind)' \/ Head(queue).type = kind
           /\ Head(queue).type = kind /\ kind # "INPUT_REPORT" => ~Pending(kind)'
           /\ Head(queue).type = "DISCONNECTED" /\ kind \in Lifecycle => ~Pending(kind)'
<1>1. Pending(kind)' => Pending(kind)
  BY Taken, PendingAt, PendingAtNext
<1>2. Pending(kind) => Pending(kind)' \/ Head(queue).type = kind
  <2> SUFFICES ASSUME Pending(kind), Head(queue).type # kind
               PROVE  Pending(kind)'
    OBVIOUS
  <2>1. PICK i \in 1..Len(queue) : queue[i].type = kind
    BY PendingAt
  <2>2. i # 1 /\ i - 1 \in 1..Len(queue')
    BY <2>1, Taken
  <2>3. queue'[i - 1] = queue[i]
    BY <2>2, Taken
  <2>4. QED
    BY <2>1, <2>2, <2>3, PendingAtNext
<1>3. ASSUME NEW i \in 1..Len(queue')
      PROVE  /\ Head(queue).type # "INPUT_REPORT" => queue'[i].type # Head(queue).type
             /\ Head(queue).type = "DISCONNECTED" => queue'[i].type \notin Lifecycle
  <2>1. /\ queue'[i] = queue[i + 1] /\ i + 1 \in 1..Len(queue) /\ 1 \in 1..Len(queue)
        /\ i + 1 # 1 /\ ~(i + 1 <= 1)
    BY Taken
  <2>2. IsInput(queue[i + 1]) => queue[i + 1].type = "INPUT_REPORT"
    BY DEF IsInput
  <2>3. QED
    BY <2>1, <2>2, Taken DEF Order, IsInput, Lifecycle
<1>4. QED
  BY <1>1, <1>2, <1>3, PendingAtNext DEF Lifecycle

\* An event at the end that none of its kind waits before, where no removal does.
LEMMA PostedOrder ==
    ASSUME PathTypes, Order, NEW kind \in Lifecycle, Len(queue) < QueueLen,
           queue' = Append(queue, [type |-> kind]), ~Pending(kind), ~Pending("DISCONNECTED")
    PROVE  Order'
<1> DEFINE e == [type |-> kind]
<1>1. e \in Event /\ e.type = kind /\ ~IsInput(e)
  BY DEF Event, Lifecycle, IsInput
<1>2. \A i \in 1..Len(queue) : queue[i].type # kind /\ queue[i].type # "DISCONNECTED"
  BY PendingAt
<1> HIDE DEF e
<1>3. /\ Len(queue') = Len(queue) + 1 /\ queue'[Len(queue) + 1] = e
      /\ \A i \in 1..Len(queue) : queue'[i] = queue[i]
  BY <1>1, Appended DEF e
<1>4. /\ Len(queue) \in Nat
      /\ \A i \in 1..Len(queue') : i \in 1..Len(queue) \/ i = Len(queue) + 1
  BY <1>3 DEF PathTypes
<1>5. /\ \A i \in 1..Len(queue') : i > QueueLen - Reserved => ~IsInput(queue'[i])
      /\ \A i, j \in 1..Len(queue') :
           ~IsInput(queue'[i]) /\ queue'[i].type = queue'[j].type => i = j
  BY <1>1, <1>2, <1>3, <1>4 DEF Order
<1>6. \A i, j \in 1..Len(queue') :
        queue'[i].type = "DISCONNECTED" /\ ~IsInput(queue'[j]) => j <= i
  BY <1>1, <1>2, <1>3, <1>4
<1>7. QED
  BY <1>3, <1>4, <1>5, <1>6, InputPathAssumption DEF Order, IsInput

LEMMA PostedPending ==
    ASSUME PathTypes, PathTypes', NEW kind, NEW e \in Event, queue' = Append(queue, e)
    PROVE  Pending(kind)' <=> Pending(kind) \/ e.type = kind
<1>1. \A i \in 1..Len(queue') : i \in 1..Len(queue) \/ i = Len(queue) + 1
  BY Appended DEF PathTypes
<1>2. 1..Len(queue) \subseteq 1..Len(queue') /\ Len(queue) + 1 \in 1..Len(queue')
  BY Appended DEF PathTypes
<1>3. QED
  BY <1>1, <1>2, Appended, PendingAt, PendingAtNext

\* Where there are fewer events than reserved slots, there is a slot.
LEMMA RoomForOne ==
    ASSUME PathTypes, Order, Reserved >= 2, ~Pending("DISCONNECTED"),
           ~Pending("CONNECTED") \/ ~Pending("TRANSFER_ERROR")
    PROVE  Len(queue) < QueueLen
<1> SUFFICES ASSUME Len(queue) = QueueLen PROVE FALSE
  BY InputPathAssumption DEF Order, PathTypes
<1> DEFINE a == QueueLen - 1
           b == QueueLen
<1>1. /\ a \in 1..Len(queue) /\ b \in 1..Len(queue) /\ a # b
      /\ a > QueueLen - Reserved /\ b > QueueLen - Reserved
  BY InputPathAssumption
<1>2. queue[a] \in Event /\ queue[b] \in Event
  BY <1>1 DEF PathTypes
<1> HIDE DEF a, b
<1>3. ~IsInput(queue[a]) /\ ~IsInput(queue[b]) /\ queue[a].type # queue[b].type
  BY <1>1 DEF Order
<1>4. /\ queue[a].type \in {"CONNECTED", "TRANSFER_ERROR"}
      /\ queue[b].type \in {"CONNECTED", "TRANSFER_ERROR"}
  BY <1>1, <1>2, <1>3, EventKinds, PendingAt DEF Lifecycle
<1>5. QED
  BY <1>1, <1>3, <1>4, PendingAt

-------------------------------------------------------------------------------
(* The device and the HID task.                                            *)

LEMMA LifecycleRoom ==
    ASSUME QueueInv, Reserved >= 2, InError \/ Unplug \/ Plug
    PROVE  /\ Len(queue) < QueueLen
           /\ \E kind \in Lifecycle : queue' = Append(queue, [type |-> kind])
<1>1. ~Pending("DISCONNECTED")
  BY DEF InError, Unplug, Plug, QueueInv, Reflects
<1>2. ~Pending("CONNECTED") \/ ~Pending("TRANSFER_ERROR")
  BY DEF QueueInv, Reflects
<1>3. Len(queue) < QueueLen
  BY <1>1, <1>2, RoomForOne DEF QueueInv
<1>4. QED
  BY <1>3 DEF InError, Unplug, Plug, PostReserved, Lifecycle

LEMMA LifecycleInv ==
    ASSUME QueueInv, Reserved >= 2, InError \/ Unplug \/ Plug
    PROVE  QueueInv'
<1>1. PathTypes /\ Order /\ Reflects /\ Len(queue) < QueueLen
  BY LifecycleRoom DEF QueueInv
<1>2. stream' \in [len : Nat, part : Nat] /\ device' = device /\ cut' \in BOOLEAN
  <2>1. CASE InError \/ Unplug
    BY <1>1, <2>1 DEF InError, Unplug, PathTypes
  <2>2. CASE Plug
    <3>1. device.lengths \subseteq Nat /\ stream' \in FirstParts
      BY <1>1, <2>2, LengthsOfDevices DEF Plug, PathTypes
    <3>2. stream' \in [len : Nat, part : Nat]
      BY <3>1 DEF FirstParts
    <3>3. QED
      BY <2>2, <3>2 DEF Plug
  <2>3. QED
    BY <2>1, <2>2
<1>3. ASSUME NEW kind \in Lifecycle
      PROVE  [type |-> kind] \in Event
  BY DEF Event
<1>4. PathTypes'
  BY <1>1, <1>2, <1>3, LifecycleRoom, Appended DEF PathTypes
<1>5. CASE InError
  <2>1. queue' = Append(queue, [type |-> "TRANSFER_ERROR"]) /\ pipe
    BY <1>1, <1>5 DEF InError, PostReserved
  <2>2. \A kind \in Lifecycle : ~Pending(kind)
    BY <1>1, <2>1 DEF Reflects, Lifecycle
  <2>3. Order'
    BY <1>1, <2>1, <2>2, PostedOrder DEF Lifecycle
  <2>4. ASSUME NEW kind PROVE Pending(kind)' <=> Pending(kind) \/ kind = "TRANSFER_ERROR"
    BY <1>1, <1>3, <1>4, <2>1, PostedPending DEF Lifecycle
  <2>5. Reflects'
    BY <1>1, <1>5, <2>2, <2>4 DEF Reflects, InError, Lifecycle
  <2>6. QED
    BY <1>4, <2>3, <2>5 DEF QueueInv
<1>6. CASE Unplug
  <2>1. queue' = Append(queue, [type |-> "DISCONNECTED"]) /\ attached
    BY <1>1, <1>6 DEF Unplug, PostReserved
  <2>2. ~Pending("DISCONNECTED")
    BY <1>1, <2>1 DEF Reflects
  <2>3. Order'
    BY <1>1, <2>1, <2>2, PostedOrder DEF Lifecycle
  <2>4. ASSUME NEW kind PROVE Pending(kind)' <=> Pending(kind) \/ kind = "DISCONNECTED"
    BY <1>1, <1>3, <1>4, <2>1, PostedPending DEF Lifecycle
  <2>5. Reflects'
    BY <1>1, <1>6, <2>4 DEF Reflects, Unplug
  <2>6. QED
    BY <1>4, <2>3, <2>5 DEF QueueInv
<1>7. CASE Plug
  <2>1. /\ queue' = Append(queue, [type |-> "CONNECTED"])
        /\ ~attached /\ ~claimed /\ ~Pending("DISCONNECTED")
    BY <1>1, <1>7 DEF Plug, PostReserved
  <2>2. ~Pending("CONNECTED") /\ ~Pending("TRANSFER_ERROR")
    BY <1>1, <2>1 DEF Reflects
  <2>3. Order'
    BY <1>1, <2>1, <2>2, PostedOrder DEF Lifecycle
  <2>4. ASSUME NEW kind PROVE Pending(kind)' <=> Pending(kind) \/ kind = "CONNECTED"
    BY <1>1, <1>3, <1>4, <2>1, PostedPending DEF Lifecycle
  <2>5. Reflects'
    BY <1>1, <1>7, <2>1, <2>2, <2>4 DEF Reflects, Plug
  <2>6. QED
    BY <1>4, <2>3, <2>5 DEF QueueInv
<1>8. QED
  BY <1>5, <1>6, <1>7

LEMMA ReceiveInv ==
    ASSUME QueueInv, NEW expected \in device.lengths \cup {0}, Receive(expected)
    PROVE  QueueInv'
<1> DEFINE late == stream.part > 1 /\ heard > MaxGap
           left == stream.len - Mps * (stream.part - 1)
           packet == [type |-> "INPUT_REPORT", age |-> 0, len |-> stream.len,
                      part |-> stream.part, size |-> IF left < Mps THEN left ELSE Mps,
                      expected |-> expected, lost |-> cut \/ late,
                      paused |-> heard > MaxGap]
<1>1. PathTypes /\ Order /\ Reflects
  BY DEF QueueInv
<1>2. device.lengths \subseteq Nat
  BY <1>1, LengthsOfDevices DEF PathTypes
<1>3. packet \in Packet
  <2>1. stream.len \in Nat /\ stream.part \in Nat /\ expected \in Nat
    BY <1>1, <1>2 DEF PathTypes
  <2>2. (IF left < Mps THEN left ELSE Mps) \in Int
    BY <2>1, ReassemblerAssumption
  <2>3. (cut \/ late) \in BOOLEAN /\ (heard > MaxGap) \in BOOLEAN
    OBVIOUS
  <2> HIDE DEF late, left
  <2>4. QED
    BY <2>1, <2>2, <2>3 DEF Packet
<1>4. packet \in Event /\ IsInput(packet) /\ packet.type = "INPUT_REPORT"
  BY <1>3 DEF Event, IsInput
<1>5. queue' = IF Room(queue) THEN Append(queue, packet) ELSE queue
  BY DEF Receive
<1> HIDE DEF packet
<1>6. stream' \in [len : Nat, part : Nat]
  <2>1. CASE stream' = [stream EXCEPT !.part = @ + 1]
    BY <1>1, <2>1 DEF PathTypes
  <2>2. CASE stream' \in FirstParts
    BY <1>2, <2>2 DEF FirstParts
  <2>3. QED
    BY <2>1, <2>2 DEF Receive, Following
<1>7. cut' \in BOOLEAN /\ UNCHANGED <<device, pipe, attached, claimed, restartPending, pollPc>>
  BY DEF Receive
<1>8. PathTypes'
  BY <1>1, <1>4, <1>5, <1>6, <1>7, Appended DEF PathTypes
<1>9. ASSUME NEW kind \in Lifecycle PROVE Pending(kind)' <=> Pending(kind)
  <2>1. CASE Room(queue)
    BY <1>1, <1>4, <1>5, <1>8, <2>1, PostedPending DEF Lifecycle
  <2>2. CASE ~Room(queue)
    BY <1>5, <2>2 DEF Pending
  <2>3. QED
    BY <2>1, <2>2
<1>10. Order'
  <2>1. CASE Room(queue)
    <3>1. /\ Len(queue') = Len(queue) + 1 /\ queue'[Len(queue) + 1] = packet
          /\ \A i \in 1..Len(queue) : queue'[i] = queue[i]
      BY <1>1, <1>4, <1>5, <2>1, Appended
    <3>2. Len(queue) \in Nat /\ Len(queue) + 1 <= QueueLen - Reserved
      BY <1>1, <2>1, InputPathAssumption DEF Room, PathTypes
    <3>3. \A i \in 1..Len(queue') : i \in 1..Len(queue) \/ i = Len(queue) + 1
      BY <3>1, <3>2
    <3>4. \A i \in 1..Len(queue') : i > QueueLen - Reserved => ~IsInput(queue'[i])
      BY <1>1, <1>4, <3>1, <3>2, <3>3, InputPathAssumption DEF Order
    <3>5. \A i, j \in 1..Len(queue') :
            ~IsInput(queue'[i]) /\ queue'[i].type = queue'[j].type => i = j
      BY <1>1, <1>4, <3>1, <3>3 DEF Order, IsInput
    <3>6. \A i, j \in 1..Len(queue') :
            queue'[i].type = "DISCONNECTED" /\ ~IsInput(queue'[j]) => j <= i
      BY <1>1, <1>4, <3>1, <3>3 DEF Order
    <3>7. QED
      BY <3>1, <3>2, <3>4, <3>5, <3>6, InputPathAssumption DEF Order, IsInput
  <2>2. CASE ~Room(queue)
    BY <1>1, <1>5, <2>2 DEF Order
  <2>3. QED
    BY <2>1, <2>2
<1>11. Reflects'
  BY <1>1, <1>7, <1>9 DEF Reflects, Lifecycle
<1>12. QED
  BY <1>8, <1>10, <1>11 DEF QueueInv

-------------------------------------------------------------------------------
(* The poll task.                                                          *)

Handled ==
    \/ HandleConnected \/ HandleInput \/ HandleDisconnected
    \/ HandleErrorIgnored \/ HandleErrorRecovers \/ HandleErrorRestarts

LEMMA HandledInv ==
    ASSUME QueueInv, Handled
    PROVE  QueueInv'
<1>1. PathTypes /\ Order /\ Reflects
  BY DEF QueueInv
<1>2. queue # <<>> /\ queue' = Tail(queue) /\ pollPc = "events"
  BY DEF Handled, HandleConnected, HandleInput, HandleDisconnected, HandleErrorIgnored,
         HandleErrorRecovers, HandleErrorRestarts, NextEvent
<1>3. UNCHANGED <<device, stream, attached>> /\ cut' \in BOOLEAN /\ pollPc' # "main"
  BY <1>1, <1>2
     DEF PathTypes, Handled, HandleConnected, HandleInput, HandleDisconnected,
         HandleErrorIgnored, HandleErrorRecovers, HandleErrorRestarts, RecoverInterface,
         Straddled, deviceVars
<1>4. PathTypes'
  BY <1>1, <1>2, <1>3, Taken DEF PathTypes
<1>5. Order'
  BY <1>1, <1>2, TailOrder
<1> DEFINE was == Head(queue).type
<1>6. ASSUME NEW kind
      PROVE  /\ Pending(kind)' => Pending(kind)
             /\ Pending(kind) => Pending(kind)' \/ was = kind
             /\ was = kind /\ kind # "INPUT_REPORT" => ~Pending(kind)'
             /\ was = "DISCONNECTED" /\ kind \in Lifecycle => ~Pending(kind)'
  BY <1>1, <1>2, <1>4, TailPending
<1>7. Pending(was)
  BY <1>1, <1>2, Taken, PendingAt
<1>8. Reflects'
  <2>1. CASE HandleConnected
    <3>1. was = "CONNECTED" /\ claimed' /\ pipe' = attached /\ restartPending' = ~attached
      BY <2>1 DEF HandleConnected, NextEvent
    <3>2. ~Pending("TRANSFER_ERROR") /\ ~Pending("TRANSFER_ERROR")'
      BY <1>1, <1>6, <1>7, <3>1 DEF Reflects
    <3>3. ~Pending("CONNECTED")'
      BY <1>6, <3>1
    <3>4. Pending("DISCONNECTED")' <=> Pending("DISCONNECTED")
      BY <1>6, <3>1
    <3>5. ~attached => Pending("DISCONNECTED")
      BY <1>1, <1>7, <3>1 DEF Reflects
    <3>6. QED
      BY <1>1, <1>3, <3>1, <3>2, <3>3, <3>4, <3>5 DEF Reflects
  <2>2. CASE HandleInput
    <3>1. was = "INPUT_REPORT" /\ UNCHANGED <<pipe, claimed, restartPending>>
      BY <2>2 DEF HandleInput, NextEvent, deviceVars
    <3> HIDE DEF was
    <3>2. QED
      BY <1>1, <1>3, <1>6, <3>1 DEF Reflects
  <2>3. CASE HandleDisconnected
    <3>1. was = "DISCONNECTED" /\ ~claimed' /\ pipe' = pipe /\ ~attached
      BY <1>1, <1>7, <2>3 DEF HandleDisconnected, NextEvent, deviceVars, Reflects
    <3> HIDE DEF was
    <3>2. QED
      BY <1>1, <1>3, <1>6, <1>7, <3>1 DEF Reflects, Lifecycle
  <2>4. CASE HandleErrorIgnored \/ HandleErrorRestarts
    <3>1. was = "TRANSFER_ERROR" /\ UNCHANGED <<pipe, claimed, restartPending>>
      BY <2>4 DEF HandleErrorIgnored, HandleErrorRestarts, NextEvent, deviceVars
    <3> HIDE DEF was
    <3>2. QED
      BY <1>1, <1>3, <1>6, <1>7, <3>1 DEF Reflects
  <2>5. CASE HandleErrorRecovers
    <3>1. was = "TRANSFER_ERROR" /\ ~pipe' /\ claimed' = claimed
      BY <2>5 DEF HandleErrorRecovers, RecoverInterface, NextEvent
    <3> HIDE DEF was
    <3>2. QED
      BY <1>1, <1>3, <1>6, <1>7, <3>1 DEF Reflects
  <2>6. QED
    BY <2>1, <2>2, <2>3, <2>4, <2>5 DEF Handled
<1>9. QED
  BY <1>4, <1>5, <1>8 DEF QueueInv

\* Steps that leave the queue alone.
Serves ==
    \/ Wake \/ EventsDone \/ ServiceReturns \/ StartAgain
    \/ LinkRecovers \/ SilenceRecovers \/ SilenceRestarts \/ PollDriver

LEMMA ServesInv ==
    ASSUME QueueInv, Serves
    PROVE  QueueInv'
<1>1. PathTypes /\ Order /\ Reflects
  BY DEF QueueInv
<1>2. UNCHANGED <<queue, device, attached, claimed>>
  BY DEF Serves, Wake, EventsDone, ServiceReturns, StartAgain, LinkRecovers,
         SilenceRecovers, SilenceRestarts, PollDriver, deviceVars
<1>3. \A kind : Pending(kind)' <=> Pending(kind)
  BY <1>2 DEF Pending
<1>4. Order'
  BY <1>1, <1>2 DEF Order
<1>5. CASE StartAgain
  <2>1. /\ pollPc = "main" /\ claimed /\ restartPending /\ attached
        /\ ~restartPending' /\ pipe' /\ pollPc' = "away"
    BY <1>5 DEF StartAgain, Away
  <2>2. Reflects'
    BY <1>1, <1>2, <1>3, <2>1 DEF Reflects
  <2>3. stream' \in [len : Nat, part : Nat] /\ cut' \in BOOLEAN
    <3>1. stream' \in {stream} \cup FirstParts /\ cut' = (cut \/ stream'.part > 1)
      BY <1>5 DEF StartAgain
    <3>2. device.lengths \subseteq Nat
      BY <1>1, LengthsOfDevices DEF PathTypes
    <3>3. QED
      BY <1>1, <3>1, <3>2 DEF PathTypes, FirstParts
  <2>4. PathTypes'
    BY <1>1, <1>2, <2>3 DEF PathTypes
  <2>5. QED
    BY <1>4, <2>2, <2>4 DEF QueueInv
<1>6. CASE LinkRecovers \/ SilenceRecovers
  <2>1. ~pipe' /\ pollPc' = "away" /\ stream' = stream /\ cut' \in BOOLEAN
    BY <1>6 DEF LinkRecovers, SilenceRecovers, RecoverInterface, Straddled
  <2>2. PathTypes' /\ Reflects'
    BY <1>1, <1>2, <1>3, <2>1 DEF PathTypes, Reflects
  <2>3. QED
    BY <1>4, <2>2 DEF QueueInv
<1>7. CASE EventsDone
  <2>1. queue = <<>> /\ UNCHANGED <<stream, cut, pipe, restartPending>>
    BY <1>7 DEF EventsDone, deviceVars
  <2>2. \A kind : ~Pending(kind)
    BY <2>1 DEF Pending
  <2>3. PathTypes' /\ Reflects'
    BY <1>1, <1>2, <1>3, <2>1, <2>2 DEF PathTypes, Reflects
  <2>4. QED
    BY <1>4, <2>3 DEF QueueInv
<1>8. CASE Wake \/ ServiceReturns \/ SilenceRestarts \/ PollDriver
  <2>1. UNCHANGED <<stream, cut, pipe, restartPending>> /\ pollPc' # "main"
    BY <1>8 DEF Wake, ServiceReturns, SilenceRestarts, PollDriver, deviceVars, Away
  <2>2. PathTypes' /\ Reflects'
    BY <1>1, <1>2, <1>3, <2>1 DEF PathTypes, Reflects
  <2>3. QED
    BY <1>4, <2>2 DEF QueueInv
<1>9. QED
  BY <1>5, <1>6, <1>7, <1>8 DEF Serves

LEMMA TickInv ==
    ASSUME QueueInv, Tick
    PROVE  QueueInv'
<1> DEFINE older(i) == [queue[i] EXCEPT !.age = @ + 1]
<1>1. PathTypes /\ Order /\ Reflects
  BY DEF QueueInv
<1>2. queue' = [i \in 1..Len(queue) |-> IF IsInput(queue[i]) THEN older(i) ELSE queue[i]]
  BY <1>1 DEF Tick, PathTypes
<1>3. ASSUME NEW i \in 1..Len(queue), IsInput(queue[i])
      PROVE  older(i) \in Packet /\ older(i).type = "INPUT_REPORT"
  <2>1. queue[i] \in Packet
    BY <1>1, <1>3, EventKinds DEF PathTypes
  <2>2. QED
    BY <2>1 DEF Packet
<1> HIDE DEF older
<1>4. queue' \in Seq(Event) /\ Len(queue') = Len(queue)
  <2>1. \A i \in 1..Len(queue) :
          (IF IsInput(queue[i]) THEN older(i) ELSE queue[i]) \in Event
    BY <1>1, <1>3 DEF PathTypes, Event
  <2>2. Len(queue) \in Nat
    BY <1>1 DEF PathTypes
  <2>3. QED
    BY <1>2, <2>1, <2>2
<1>5. \A i \in 1..Len(queue) :
        queue'[i].type = queue[i].type /\ (IsInput(queue[i])' <=> IsInput(queue[i]))
  BY <1>2, <1>3 DEF IsInput
<1>6. UNCHANGED <<device, attached, pipe, stream, cut, pollPc, claimed, restartPending>>
  BY DEF Tick
<1>7. PathTypes'
  BY <1>1, <1>4, <1>6 DEF PathTypes
<1>8. \A kind : Pending(kind)' <=> Pending(kind)
  BY <1>1, <1>4, <1>5, <1>7, PendingAt, PendingAtNext
<1>9. Order'
  BY <1>1, <1>2, <1>3, <1>4, <1>5 DEF Order, IsInput
<1>10. Reflects'
  BY <1>1, <1>6, <1>8 DEF Reflects
<1>11. QED
  BY <1>7, <1>9, <1>10 DEF QueueInv

-------------------------------------------------------------------------------
LEMMA QueueStep ==
    ASSUME QueueInv, Reserved >= 2, [InputNext]_inputVars
    PROVE  QueueInv'
<1>1. CASE \E expected \in device.lengths \cup {0} : Receive(expected)
  BY <1>1, ReceiveInv
<1>2. CASE InError \/ Unplug \/ Plug
  BY <1>2, LifecycleInv
<1>3. CASE PollStep
  BY <1>3, HandledInv, ServesInv DEF PollStep, Handled, Serves
<1>4. CASE Tick
  BY <1>4, TickInv
<1>5. CASE UNCHANGED inputVars
  <2>1. UNCHANGED <<deviceVars, pollVars>>
    BY <1>5 DEF inputVars
  <2>2. QED
    BY <2>1 DEF deviceVars, pollVars, QueueInv, PathTypes, Order, Reflects, Pending
<1>6. QED
  BY <1>1, <1>2, <1>3, <1>4, <1>5 DEF InputNext

\* With the two slots EVENT_QUEUE_RESERVED keeps free of packets no removal, no
\* connection and no error of the pipe is lost, however many packets come and however
\* long the poll task is away (postEvent()).
THEOREM LifecycleNeverLost ==
    ASSUME Reserved >= 2
    PROVE  InputSpec => LifecycleKept
<1>1. QueueInv /\ [InputNext]_inputVars =>
        [InError \/ Unplug \/ Plug => Len(queue') = Len(queue) + 1]_inputVars
  <2> SUFFICES ASSUME QueueInv, InError \/ Unplug \/ Plug
               PROVE  Len(queue') = Len(queue) + 1
    OBVIOUS
  <2>1. PICK kind \in Lifecycle : queue' = Append(queue, [type |-> kind])
    BY LifecycleRoom
  <2>2. [type |-> kind] \in Event
    BY DEF Event
  <2>3. QED
    BY <2>1, <2>2, Appended DEF QueueInv
<1>2. QueueInv /\ [InputNext]_inputVars => QueueInv'
  BY QueueStep
<1>3. QED
  BY <1>1, <1>2, QueueInit, PTL DEF InputSpec, LifecycleKept

-------------------------------------------------------------------------------
(* The packets that wait in the queue.                                     *)

NoPackets == \A i \in 1..Len(queue) : ~IsInput(queue[i])
AllPackets == \A i \in 1..Len(queue) : IsInput(queue[i])

\* No packet waits behind an event, and none for an interface that is not claimed.
PacketsFirst ==
    /\ \A i, j \in 1..Len(queue) : i <= j /\ IsInput(queue[j]) => IsInput(queue[i])
    /\ claimed \/ NoPackets

PacketInv == QueueInv /\ PacketsFirst

\* A step after which only packets wait that waited before, at the same places.
KeepsPackets ==
    \A i \in 1..Len(queue') : IsInput(queue'[i]) => i \in 1..Len(queue) /\ queue'[i] = queue[i]

Posts == InError \/ Unplug \/ Plug
Drops ==
    \/ HandleConnected \/ HandleDisconnected
    \/ HandleErrorIgnored \/ HandleErrorRecovers \/ HandleErrorRestarts

LEMMA PipeRuns ==
    ASSUME QueueInv, pipe
    PROVE  AllPackets /\ claimed /\ ~restartPending /\ attached
<1>1. \A kind \in Lifecycle : ~Pending(kind)
  BY DEF QueueInv, Reflects, Lifecycle
<1>2. \A i \in 1..Len(queue) : queue[i] \in Event /\ queue[i].type \notin Lifecycle
  BY <1>1, PendingAt DEF QueueInv, PathTypes
<1>3. AllPackets
  BY <1>2, EventKinds DEF AllPackets
<1>4. QED
  BY <1>3 DEF QueueInv, Reflects

LEMMA PostsKeep ==
    ASSUME QueueInv, Reserved >= 2, Posts
    PROVE  KeepsPackets /\ Len(queue') = Len(queue) + 1
           /\ \A i \in 1..Len(queue) : queue'[i] = queue[i]
<1>1. PICK kind \in Lifecycle : queue' = Append(queue, [type |-> kind])
  BY LifecycleRoom DEF Posts
<1>2. [type |-> kind] \in Event /\ ~IsInput([type |-> kind])
  BY DEF Event, IsInput, Lifecycle
<1>3. /\ Len(queue') = Len(queue) + 1 /\ queue'[Len(queue) + 1] = [type |-> kind]
      /\ \A i \in 1..Len(queue) : queue'[i] = queue[i]
  BY <1>1, <1>2, Appended DEF QueueInv
<1>4. \A i \in 1..Len(queue') : i \in 1..Len(queue) \/ i = Len(queue) + 1
  BY <1>3 DEF QueueInv, PathTypes
<1>5. QED
  BY <1>2, <1>3, <1>4 DEF KeepsPackets

LEMMA DropsKeep ==
    ASSUME PacketInv, Drops
    PROVE  /\ NoPackets /\ NoPackets' /\ KeepsPackets /\ queue # <<>> /\ queue' = Tail(queue)
           /\ \A i \in 1..Len(queue') : queue'[i] = queue[i + 1]
           /\ Len(queue') = Len(queue) - 1 /\ Len(queue) \in Nat
           /\ Head(queue) = queue[1] /\ queue[1] \in Event
<1>1. queue # <<>> /\ queue' = Tail(queue) /\ Head(queue).type # "INPUT_REPORT"
  BY DEF Drops, HandleConnected, HandleDisconnected, HandleErrorIgnored,
         HandleErrorRecovers, HandleErrorRestarts, NextEvent
<1>2. /\ Len(queue') = Len(queue) - 1 /\ Len(queue) \in Nat /\ Len(queue) >= 1
      /\ \A i \in 1..Len(queue') : queue'[i] = queue[i + 1]
      /\ Head(queue) = queue[1] /\ queue[1] \in Event
  BY <1>1, Taken DEF PacketInv, QueueInv, PathTypes
<1>3. ~IsInput(queue[1])
  BY <1>1, <1>2 DEF IsInput
<1>4. \A i \in 1..Len(queue) : 1 \in 1..Len(queue) /\ 1 <= i
  BY <1>2
<1>5. NoPackets
  BY <1>3, <1>4 DEF PacketInv, PacketsFirst, NoPackets
<1>6. \A i \in 1..Len(queue') : i + 1 \in 1..Len(queue)
  BY <1>2
<1>7. NoPackets'
  BY <1>2, <1>5, <1>6 DEF NoPackets, IsInput
<1>8. QED
  BY <1>1, <1>2, <1>5, <1>7 DEF NoPackets, KeepsPackets, IsInput

LEMMA ServesKeep ==
    ASSUME Serves
    PROVE  /\ queue' = queue /\ KeepsPackets
           /\ UNCHANGED <<device, attached, claimed, heard, intervals, haveBurst, burstAge,
                          inputAge, inRecoveries>>
<1>1. CASE Wake \/ EventsDone \/ ServiceReturns \/ StartAgain
  BY <1>1 DEF Wake, EventsDone, ServiceReturns, StartAgain, deviceVars, inWdVars, KeepsPackets
<1>2. CASE LinkRecovers \/ SilenceRecovers \/ SilenceRestarts \/ PollDriver
  BY <1>2 DEF LinkRecovers, SilenceRecovers, SilenceRestarts, PollDriver, deviceVars,
              inWdVars, InWdTick, KeepsPackets
<1>3. QED
  BY <1>1, <1>2 DEF Serves

\* A packet in the place of the head.
LEMMA InputTakes ==
    ASSUME QueueInv, HandleInput
    PROVE  /\ Len(queue) \in Nat /\ Len(queue) >= 1 /\ Len(queue') = Len(queue) - 1
           /\ \A i \in 1..Len(queue') : i + 1 \in 1..Len(queue) /\ queue'[i] = queue[i + 1]
           /\ Head(queue) = queue[1] /\ 1 \in 1..Len(queue)
           /\ IsInput(queue[1]) /\ queue[1] \in Packet
<1>1. queue # <<>> /\ queue' = Tail(queue) /\ Head(queue).type = "INPUT_REPORT"
  BY DEF HandleInput, NextEvent
<1>2. /\ Len(queue) \in Nat /\ Len(queue) >= 1 /\ Len(queue') = Len(queue) - 1
      /\ \A i \in 1..Len(queue') : queue'[i] = queue[i + 1]
      /\ Head(queue) = queue[1] /\ queue[1] \in Event
  BY <1>1, Taken DEF QueueInv, PathTypes
<1>3. \A i \in 1..Len(queue') : i + 1 \in 1..Len(queue)
  BY <1>2
<1>4. IsInput(queue[1]) /\ queue[1] \in Packet
  BY <1>1, <1>2, EventKinds DEF IsInput
<1>5. QED
  BY <1>2, <1>3, <1>4

\* A packet behind those that wait, or lost for want of room.
ReceivedPacket(expected) ==
    LET late == stream.part > 1 /\ heard > MaxGap
        left == stream.len - Mps * (stream.part - 1)
    IN  [type |-> "INPUT_REPORT", age |-> 0, len |-> stream.len,
         part |-> stream.part, size |-> IF left < Mps THEN left ELSE Mps,
         expected |-> expected, lost |-> cut \/ late, paused |-> heard > MaxGap]

LEMMA ReceiveAdds ==
    ASSUME QueueInv, NEW expected \in device.lengths \cup {0}, Receive(expected)
    PROVE  /\ ReceivedPacket(expected) \in Packet /\ IsInput(ReceivedPacket(expected))
           /\ Len(queue) \in Nat
           /\ \/ /\ queue' = queue /\ cut' /\ Len(queue) >= 1
              \/ /\ Len(queue') = Len(queue) + 1 /\ ~cut'
                 /\ queue'[Len(queue) + 1] = ReceivedPacket(expected)
                 /\ \A i \in 1..Len(queue) : queue'[i] = queue[i]
                 /\ \A i \in 1..Len(queue') : i \in 1..Len(queue) \/ i = Len(queue) + 1
<1> DEFINE packet == ReceivedPacket(expected)
<1>1. device.lengths \subseteq Nat /\ stream.len \in Nat /\ stream.part \in Nat
  BY LengthsOfDevices DEF QueueInv, PathTypes
<1>2. packet \in Packet
  <2> DEFINE late == stream.part > 1 /\ heard > MaxGap
             left == stream.len - Mps * (stream.part - 1)
             size == IF left < Mps THEN left ELSE Mps
  <2>1. expected \in Nat
    BY <1>1
  <2>2. size \in Int
    BY <1>1, ReassemblerAssumption
  <2>3. (cut \/ late) \in BOOLEAN /\ (heard > MaxGap) \in BOOLEAN
    OBVIOUS
  <2>4. packet = [type |-> "INPUT_REPORT", age |-> 0, len |-> stream.len,
                  part |-> stream.part, size |-> size, expected |-> expected,
                  lost |-> cut \/ late, paused |-> heard > MaxGap]
    BY DEF ReceivedPacket
  <2> HIDE DEF late, size, packet
  <2>5. QED
    BY <1>1, <2>1, <2>2, <2>3, <2>4 DEF Packet
<1>3. /\ queue' = IF Room(queue) THEN Append(queue, packet) ELSE queue
      /\ cut' = ~Room(queue)
  BY DEF Receive, ReceivedPacket
<1> HIDE DEF packet
<1>4. packet \in Event /\ IsInput(packet) /\ Len(queue) \in Nat
  BY <1>2 DEF Event, IsInput, Packet, QueueInv, PathTypes
<1>5. CASE Room(queue)
  <2>1. queue' = Append(queue, packet) /\ ~cut'
    BY <1>3, <1>5
  <2>2. /\ Len(queue') = Len(queue) + 1 /\ queue'[Len(queue) + 1] = packet
        /\ \A i \in 1..Len(queue) : queue'[i] = queue[i]
    BY <1>4, <2>1, Appended DEF QueueInv
  <2>3. \A i \in 1..Len(queue') : i \in 1..Len(queue) \/ i = Len(queue) + 1
    BY <1>4, <2>2
  <2>4. QED
    BY <1>2, <1>4, <2>1, <2>2, <2>3 DEF packet
<1>6. CASE ~Room(queue)
  <2>1. QueueLen \in Nat /\ Reserved \in Nat /\ Reserved < QueueLen
    BY InputPathAssumption
  <2>2. Len(queue) >= 1
    BY <1>4, <1>6, <2>1 DEF Room
  <2>3. queue' = queue /\ cut'
    BY <1>3, <1>6
  <2>4. QED
    BY <1>2, <1>4, <2>2, <2>3 DEF packet
<1>7. QED
  BY <1>5, <1>6

\* A tick later every packet is a tick older.
LEMMA Aged ==
    ASSUME PathTypes, Tick
    PROVE  /\ queue' \in Seq(Event) /\ Len(queue') = Len(queue)
           /\ \A i \in 1..Len(queue) :
                /\ queue'[i].type = queue[i].type /\ (IsInput(queue'[i]) <=> IsInput(queue[i]))
                /\ IsInput(queue[i]) =>
                     /\ queue[i] \in Packet
                     /\ queue'[i] = [queue[i] EXCEPT !.age = @ + 1]
                     /\ queue'[i].age = queue[i].age + 1
                     /\ queue'[i].len = queue[i].len /\ queue'[i].part = queue[i].part
                     /\ queue'[i].size = queue[i].size
                     /\ queue'[i].expected = queue[i].expected
                     /\ queue'[i].lost = queue[i].lost /\ queue'[i].paused = queue[i].paused
<1> DEFINE older(i) == [queue[i] EXCEPT !.age = @ + 1]
<1>1. queue' = [i \in 1..Len(queue) |-> IF IsInput(queue[i]) THEN older(i) ELSE queue[i]]
  BY DEF Tick, PathTypes
<1>2. ASSUME NEW i \in 1..Len(queue), IsInput(queue[i])
      PROVE  /\ older(i) \in Packet /\ older(i).type = "INPUT_REPORT"
             /\ queue[i] \in Packet /\ older(i).age = queue[i].age + 1
             /\ older(i).len = queue[i].len /\ older(i).part = queue[i].part
             /\ older(i).size = queue[i].size /\ older(i).expected = queue[i].expected
             /\ older(i).lost = queue[i].lost /\ older(i).paused = queue[i].paused
  <2>1. queue[i] \in Packet
    BY <1>2, EventKinds DEF PathTypes
  <2>2. QED
    BY <2>1 DEF Packet
<1> HIDE DEF older
<1>3. queue' \in Seq(Event) /\ Len(queue') = Len(queue)
  <2>1. \A i \in 1..Len(queue) :
          (IF IsInput(queue[i]) THEN older(i) ELSE queue[i]) \in Event
    BY <1>2 DEF PathTypes, Event
  <2>2. Len(queue) \in Nat
    BY DEF PathTypes
  <2>3. QED
    BY <1>1, <2>1, <2>2
<1>4. ASSUME NEW i \in 1..Len(queue)
      PROVE  /\ queue'[i].type = queue[i].type /\ (IsInput(queue'[i]) <=> IsInput(queue[i]))
             /\ IsInput(queue[i]) =>
                     /\ queue[i] \in Packet
                     /\ queue'[i] = older(i)
                     /\ queue'[i].age = queue[i].age + 1
                     /\ queue'[i].len = queue[i].len /\ queue'[i].part = queue[i].part
                     /\ queue'[i].size = queue[i].size
                     /\ queue'[i].expected = queue[i].expected
                     /\ queue'[i].lost = queue[i].lost /\ queue'[i].paused = queue[i].paused
  BY <1>1, <1>2 DEF IsInput
<1>5. QED
  BY <1>3, <1>4 DEF older

LEMMA PacketStep ==
    ASSUME PacketInv, Reserved >= 2, [InputNext]_inputVars
    PROVE  PacketInv'
<1>1. QueueInv /\ QueueInv' /\ PacketsFirst
  BY QueueStep DEF PacketInv
<1>2. CASE \E expected \in device.lengths \cup {0} : Receive(expected)
  <2>1. PICK expected \in device.lengths \cup {0} : Receive(expected)
    BY <1>2
  <2>2. AllPackets /\ claimed /\ claimed' = claimed
    BY <1>1, <2>1, PipeRuns DEF Receive
  <2>3. \A i \in 1..Len(queue') : IsInput(queue'[i])
    BY <1>1, <2>1, <2>2, ReceiveAdds DEF AllPackets
  <2>4. QED
    BY <1>1, <2>2, <2>3 DEF PacketInv, PacketsFirst, IsInput
<1>3. CASE Posts
  <2>1. KeepsPackets /\ Len(queue') = Len(queue) + 1 /\ Len(queue) \in Nat
        /\ \A i \in 1..Len(queue) : queue'[i] = queue[i]
    BY <1>1, <1>3, PostsKeep DEF QueueInv, PathTypes
  <2>2. claimed' = claimed
    BY <1>3 DEF Posts, InError, Unplug, Plug
  <2>3. \A i, j \in 1..Len(queue') : i <= j /\ j \in 1..Len(queue) => i \in 1..Len(queue)
    BY <2>1
  <2>4. QED
    BY <1>1, <2>1, <2>2, <2>3 DEF PacketInv, PacketsFirst, KeepsPackets, IsInput, NoPackets
<1>4. CASE Drops
  BY <1>1, <1>4, DropsKeep DEF PacketInv, PacketsFirst, NoPackets, IsInput
<1>5. CASE HandleInput
  <2>1. claimed /\ claimed' = claimed
    BY <1>5 DEF HandleInput
  <2>2. \A i \in 1..Len(queue') : i + 1 \in 1..Len(queue) /\ queue'[i] = queue[i + 1]
    BY <1>1, <1>5, InputTakes
  <2>3. ASSUME NEW i \in 1..Len(queue'), NEW j \in 1..Len(queue'), i <= j,
               IsInput(queue'[j])
        PROVE  IsInput(queue'[i])
    <3>1. i + 1 <= j + 1
      BY <2>3
    <3>2. QED
      BY <1>1, <2>2, <2>3, <3>1 DEF PacketsFirst
  <2>4. QED
    BY <1>1, <2>1, <2>3 DEF PacketInv, PacketsFirst, IsInput
<1>6. CASE Serves
  BY <1>1, <1>6, ServesKeep DEF PacketInv, PacketsFirst, NoPackets
<1>7. CASE Tick
  <2>1. claimed' = claimed
    BY <1>7 DEF Tick
  <2>2. QED
    BY <1>1, <1>7, <2>1, Aged DEF QueueInv, PacketInv, PacketsFirst, NoPackets, IsInput
<1>8. CASE UNCHANGED inputVars
  BY <1>1, <1>8 DEF inputVars, pollVars, PacketInv, PacketsFirst, NoPackets
<1>9. QED
  BY <1>2, <1>3, <1>4, <1>5, <1>6, <1>7, <1>8
  DEF InputNext, PollStep, Posts, Drops, Serves

-------------------------------------------------------------------------------
(* The types, and the ages of packets, bursts and of the watchdog.         *)

PollFlags ==
    /\ pollPc \in {"away", "events", "main"}
    /\ attached \in BOOLEAN /\ pipe \in BOOLEAN /\ claimed \in BOOLEAN
    /\ restartPending \in BOOLEAN /\ restartRequested \in BOOLEAN
    /\ listsBuilt \in BOOLEAN /\ excused \in BOOLEAN

PollCounts ==
    /\ awayAge \in 0..MaxAway /\ heard \in 0..AgeLimit
    /\ inRecoveries \in 0..(MaxInRecoveries + 1)
    /\ others \in 0..MaxOthers

PollTypes == PollFlags /\ PollCounts

\* How old a packet in the queue may be.
Latest == IF pollPc = "away" THEN awayAge ELSE IF pollPc = "events" THEN MaxAway ELSE 0

AgesInv ==
    /\ \A i \in 1..Len(queue) : IsInput(queue[i]) =>
         queue[i].age <= Latest /\ queue[i].age <= inputAge
    /\ \A i, j \in 1..Len(queue) : i <= j /\ IsInput(queue[j]) => queue[j].age <= queue[i].age
    /\ haveBurst => inputAge <= burstAge
    /\ intervals # <<>> => haveBurst

WatchInv == PacketInv /\ PollTypes /\ InWdTypeOK /\ AgesInv

LEMMA Limits ==
    /\ QueueLen \in Nat /\ Reserved \in Nat /\ MaxInRecoveries \in Nat
    /\ MaxAway \in Nat /\ MaxOthers \in Nat
    /\ Samples \in Nat \ {0} /\ BurstGap \in Nat \ {0} /\ SilenceFactor \in Nat \ {0}
    /\ MinSilence \in Nat \ {0} /\ SilenceRetry \in Nat \ {0}
    /\ MaxSilenceRecoveries \in Nat /\ AgeLimit \in Nat
    /\ MaxAway < AgeLimit /\ 2 * MaxAway < SilenceRetry /\ 2 * MaxAway < MinSilence
    /\ MaxSilenceRecoveries < MaxOthers
BY InputPathAssumption, WatchdogAssumption

LEMMA OlderOK ==
    \A cap \in Nat : \A a \in 0..cap :
        /\ Older(a, cap) \in 0..cap /\ Older(a, cap) >= a
        /\ a < cap => Older(a, cap) = a + 1
        /\ a = cap => Older(a, cap) = cap
BY DEF Older

LEMMA WaitingPackets ==
    ASSUME PathTypes
    PROVE  \A i \in 1..Len(queue) : IsInput(queue[i]) =>
             /\ queue[i] \in Packet /\ queue[i].age \in Nat /\ queue[i].len \in Nat
             /\ queue[i].part \in Nat /\ queue[i].size \in Int /\ queue[i].expected \in Nat
             /\ queue[i].lost \in BOOLEAN /\ queue[i].paused \in BOOLEAN
<1>1. \A i \in 1..Len(queue) : IsInput(queue[i]) => queue[i] \in Packet
  BY EventKinds DEF PathTypes
<1>2. \A p \in Packet : /\ p.age \in Nat /\ p.len \in Nat /\ p.part \in Nat
                        /\ p.size \in Int /\ p.expected \in Nat
                        /\ p.lost \in BOOLEAN /\ p.paused \in BOOLEAN
  BY Zenon DEF Packet
<1>3. QED
  BY <1>1, <1>2

LEMMA PollFlagsStep ==
    ASSUME PollFlags, [InputNext]_inputVars
    PROVE  PollFlags'
<1>1. CASE \E expected \in device.lengths \cup {0} : Receive(expected)
  BY <1>1, Zenon DEF Receive, PollFlags, observers
<1>2. CASE Posts
  BY <1>2, Zenon DEF Posts, InError, Unplug, Plug, PollFlags, observers
<1>3. CASE HandleInput
  BY <1>3, Zenon DEF HandleInput, PollFlags, deviceVars
<1>4. CASE HandleConnected
  BY <1>4, Zenon DEF HandleConnected, PollFlags
<1>5. CASE HandleDisconnected \/ HandleErrorIgnored \/ HandleErrorRestarts
  BY <1>5, Zenon DEF HandleDisconnected, HandleErrorIgnored, HandleErrorRestarts, PollFlags,
                     deviceVars
<1>6. CASE HandleErrorRecovers \/ LinkRecovers \/ SilenceRecovers
  <2>1. RecoverInterface /\ UNCHANGED <<attached, claimed, restartRequested>>
    BY <1>6 DEF HandleErrorRecovers, LinkRecovers, SilenceRecovers
  <2>2. QED
    BY <2>1, Zenon DEF RecoverInterface, Straddled, PollFlags
<1>7. CASE StartAgain \/ Wake \/ EventsDone \/ ServiceReturns
  BY <1>7, Zenon DEF StartAgain, Wake, EventsDone, ServiceReturns, PollFlags, observers,
                     Away, deviceVars
<1>8. CASE SilenceRestarts \/ PollDriver
  BY <1>8, Zenon DEF SilenceRestarts, PollDriver, PollFlags, observers, Away, deviceVars
<1>9. CASE Tick
  BY <1>9, Zenon DEF Tick, PollFlags, observers
<1>10. CASE UNCHANGED inputVars
  BY <1>10, Zenon DEF inputVars, deviceVars, pollVars, observers, PollFlags
<1>11. QED
  BY <1>1, <1>2, <1>3, <1>4, <1>5, <1>6, <1>7, <1>8, <1>9, <1>10
  DEF InputNext, PollStep, Posts

LEMMA PollCountsStep ==
    ASSUME PollCounts, [InputNext]_inputVars
    PROVE  PollCounts'
<1>1. CASE \E expected \in device.lengths \cup {0} : Receive(expected)
  BY <1>1, Limits DEF Receive, PollCounts, observers
<1>2. CASE Posts
  BY <1>2 DEF Posts, InError, Unplug, Plug, PollCounts, observers
<1>3. CASE HandleInput \/ HandleConnected
  BY <1>3, Limits DEF HandleInput, HandleConnected, PollCounts, deviceVars
<1>4. CASE HandleDisconnected \/ HandleErrorIgnored \/ HandleErrorRestarts
  <2>1. UNCHANGED <<awayAge, heard, others>>
    BY <1>4 DEF HandleDisconnected, HandleErrorIgnored, HandleErrorRestarts, deviceVars
  <2>2. inRecoveries' = inRecoveries \/ inRecoveries' = MaxInRecoveries + 1
    BY <1>4 DEF HandleDisconnected, HandleErrorIgnored, HandleErrorRestarts
  <2>3. QED
    BY <2>1, <2>2, Limits DEF PollCounts
<1>5. CASE HandleErrorRecovers
  <2>1. /\ inRecoveries < MaxInRecoveries /\ inRecoveries' = inRecoveries + 1
        /\ awayAge' = 0 /\ heard' = heard /\ others' = Older(others, MaxOthers)
    BY <1>5 DEF HandleErrorRecovers, RecoverInterface
  <2>2. QED
    BY <2>1, Limits, OlderOK DEF PollCounts
<1>6. CASE LinkRecovers
  <2>1. /\ others < MaxOthers /\ others' = others + 1
        /\ awayAge' = 0 /\ heard' = heard /\ inRecoveries' = inRecoveries
    BY <1>6 DEF LinkRecovers, RecoverInterface
  <2>2. QED
    BY <2>1, Limits DEF PollCounts
<1>7. CASE \/ SilenceRecovers \/ StartAgain \/ Wake \/ EventsDone \/ ServiceReturns
           \/ SilenceRestarts \/ PollDriver
  <2>1. /\ awayAge' = awayAge \/ awayAge' = 0
        /\ UNCHANGED <<heard, inRecoveries, others>>
    BY <1>7 DEF SilenceRecovers, StartAgain, Wake, EventsDone, ServiceReturns,
                SilenceRestarts, PollDriver, observers, Away, deviceVars, RecoverInterface
  <2>2. QED
    BY <2>1, Limits DEF PollCounts
<1>8. CASE Tick
  <2>1. heard' \in 0..AgeLimit /\ awayAge' \in 0..MaxAway
    BY <1>8, Limits, OlderOK DEF Tick, PollCounts
  <2>2. UNCHANGED <<inRecoveries, others>>
    BY <1>8 DEF Tick, observers
  <2>3. QED
    BY <2>1, <2>2 DEF PollCounts
<1>9. CASE UNCHANGED inputVars
  BY <1>9 DEF inputVars, deviceVars, pollVars, observers, PollCounts
<1>10. QED
  BY <1>1, <1>2, <1>3, <1>4, <1>5, <1>6, <1>7, <1>8, <1>9
  DEF InputNext, PollStep, Posts

-------------------------------------------------------------------------------
\* The watchdog is told of a packet, or a tick passes.
LEMMA TypedSamples ==
    ASSUME InWdTypeOK, NEW gap \in 0..AgeLimit
    PROVE  /\ Learned(gap) \in Seq(0..AgeLimit) /\ Len(Learned(gap)) <= Samples
           /\ \A i \in 1..Len(Learned(gap)) :
                \/ Learned(gap)[i] = gap
                \/ \E j \in 1..Len(intervals) : Learned(gap)[i] = intervals[j]
<1> DEFINE all == Append(intervals, gap)
<1>1. /\ intervals \in Seq(0..AgeLimit) /\ Len(intervals) \in Nat
      /\ Len(intervals) <= Samples /\ Samples \in Nat
  BY Limits DEF InWdTypeOK
<1>2. /\ all \in Seq(0..AgeLimit) /\ Len(all) = Len(intervals) + 1
      /\ all[Len(intervals) + 1] = gap
      /\ \A i \in 1..Len(intervals) : all[i] = intervals[i]
  BY <1>1
<1>3. \A i \in 1..Len(all) : i = Len(intervals) + 1 \/ i \in 1..Len(intervals)
  BY <1>1, <1>2
<1>4. Learned(gap) = IF Len(all) > Samples THEN Tail(all) ELSE all
  BY DEF Learned
<1> HIDE DEF all
<1>5. CASE Len(all) > Samples
  <2>1. /\ Tail(all) \in Seq(0..AgeLimit) /\ Len(Tail(all)) = Len(all) - 1
        /\ \A i \in 1..Len(Tail(all)) : i + 1 \in 1..Len(all) /\ Tail(all)[i] = all[i + 1]
    BY <1>1, <1>2
  <2>2. Learned(gap) = Tail(all)
    BY <1>4, <1>5
  <2>3. ASSUME NEW i \in 1..Len(Tail(all))
        PROVE  \/ Tail(all)[i] = gap
               \/ \E j \in 1..Len(intervals) : Tail(all)[i] = intervals[j]
    BY <1>2, <1>3, <2>1
  <2>4. Len(Tail(all)) <= Samples
    BY <1>1, <1>2, <2>1
  <2>5. QED
    BY <2>1, <2>2, <2>3, <2>4
<1>6. CASE ~(Len(all) > Samples)
  <2>1. \A i \in 1..Len(all) :
          all[i] = gap \/ \E j \in 1..Len(intervals) : all[i] = intervals[j]
    BY <1>2, <1>3
  <2>2. Learned(gap) = all
    BY <1>4, <1>6
  <2>3. QED
    BY <1>1, <1>2, <1>6, <2>1, <2>2
<1>7. QED
  BY <1>5, <1>6

LEMMA OnInputOK ==
    ASSUME InWdTypeOK, NEW age \in 0..AgeLimit, OnInput(age), age <= inputAge,
           haveBurst => inputAge <= burstAge, intervals # <<>> => haveBurst
    PROVE  /\ InWdTypeOK' /\ ~silent' /\ silenceRecoveries' = 0 /\ silenceWindow' = 0
           /\ inputAge' = age /\ haveBurst' /\ age <= burstAge'
           /\ \/ haveBurst /\ UNCHANGED <<intervals, burstAge>>
              \/ intervals' = intervals /\ burstAge' = age
              \/ /\ haveBurst /\ burstAge - age \in 0..AgeLimit /\ burstAge' = age
                 /\ ~(IsPeriodic /\ burstAge - age >= SilenceThreshold)
                 /\ intervals' = Learned(burstAge - age)
<1>1. /\ ~silent' /\ silenceRecoveries' = 0 /\ silenceWindow' = 0 /\ inputAge' = age
      /\ silent' = FALSE
  BY DEF OnInput
<1>2. ASSUME intervals' \in Seq(0..AgeLimit), Len(intervals') <= Samples,
             burstAge' \in 0..AgeLimit, haveBurst' = TRUE
      PROVE  InWdTypeOK' /\ haveBurst'
  <2>1. haveBurst' \in BOOLEAN /\ silent' \in BOOLEAN
    BY <1>1, <1>2, Zenon
  <2>2. silenceRecoveries' \in 0..MaxSilenceRecoveries /\ silenceWindow' \in 0..SilenceRetry
    BY <1>1, Limits
  <2>3. QED
    BY <1>1, <1>2, <2>1, <2>2 DEF InWdTypeOK
<1>3. CASE haveBurst /\ inputAge - age < BurstGap
  <2>1. UNCHANGED <<intervals, haveBurst, burstAge>>
    BY <1>3 DEF OnInput
  <2>2. haveBurst' = TRUE
    BY <1>3, <2>1, Zenon DEF InWdTypeOK
  <2>3. age <= burstAge' /\ burstAge' \in 0..AgeLimit
    BY <1>3, <2>1, Limits DEF InWdTypeOK
  <2>4. intervals' \in Seq(0..AgeLimit) /\ Len(intervals') <= Samples
    BY <2>1 DEF InWdTypeOK
  <2>5. QED
    BY <1>1, <1>2, <2>1, <2>2, <2>3, <2>4
<1>4. CASE ~(haveBurst /\ inputAge - age < BurstGap)
  <2> DEFINE gap == burstAge - age
  <2>1. /\ intervals' = IF haveBurst /\ ~(IsPeriodic /\ gap >= SilenceThreshold)
                        THEN Learned(gap) ELSE intervals
        /\ haveBurst' = TRUE /\ burstAge' = age
    BY <1>4 DEF OnInput
  <2>2. haveBurst => gap \in 0..AgeLimit
    BY Limits DEF InWdTypeOK
  <2>3. age <= burstAge'
    BY <2>1
  <2> HIDE DEF gap
  <2>4. CASE haveBurst /\ ~(IsPeriodic /\ gap >= SilenceThreshold)
    <3>1. intervals' = Learned(gap) /\ gap \in 0..AgeLimit
      BY <2>1, <2>2, <2>4
    <3>2. intervals' \in Seq(0..AgeLimit) /\ Len(intervals') <= Samples
      BY <3>1, TypedSamples
    <3>3. InWdTypeOK' /\ haveBurst'
      BY <1>2, <2>1, <3>2
    <3>4. QED
      BY <1>1, <2>1, <2>3, <2>4, <3>1, <3>3 DEF gap
  <2>5. CASE ~(haveBurst /\ ~(IsPeriodic /\ gap >= SilenceThreshold))
    <3>1. intervals' = intervals
      BY <2>1, <2>5
    <3>2. InWdTypeOK' /\ haveBurst'
      BY <1>2, <2>1, <3>1 DEF InWdTypeOK
    <3>3. QED
      BY <1>1, <2>1, <2>3, <3>1, <3>2
  <2>6. QED
    BY <2>4, <2>5
<1>5. QED
  BY <1>3, <1>4

LEMMA ElapseOK ==
    ASSUME InWdTypeOK, InWdElapse
    PROVE  InWdTypeOK' /\ UNCHANGED <<intervals, haveBurst, silent, silenceRecoveries>>
<1>1. UNCHANGED <<intervals, haveBurst, silent, silenceRecoveries>>
  BY DEF InWdElapse
<1>2. /\ burstAge' \in 0..AgeLimit /\ inputAge' \in 0..AgeLimit
      /\ silenceWindow' \in 0..SilenceRetry
  BY Limits, OlderOK DEF InWdElapse, InWdTypeOK
<1>3. QED
  BY <1>1, <1>2 DEF InWdTypeOK

LEMMA WdTickOK ==
    ASSUME InWdTypeOK, NEW polled, InWdTick(polled)
    PROVE  InWdTypeOK' /\ UNCHANGED <<intervals, haveBurst, burstAge, inputAge>>
<1>1. UNCHANGED <<intervals, haveBurst, burstAge, inputAge>>
  BY DEF InWdTick
<1>2. silent' \in BOOLEAN
  BY Zenon DEF InWdTick, InWdTypeOK
<1>3. /\ silenceWindow' \in 0..SilenceRetry
      /\ silenceRecoveries' \in 0..MaxSilenceRecoveries
  <2>1. /\ silenceWindow' = 0 \/ silenceWindow' = silenceWindow
        /\ \/ silenceRecoveries' = silenceRecoveries
           \/ /\ silenceRecoveries < MaxSilenceRecoveries
              /\ silenceRecoveries' = silenceRecoveries + 1
    BY DEF InWdTick
  <2>2. QED
    BY <2>1, Limits DEF InWdTypeOK
<1>4. QED
  BY <1>1, <1>2, <1>3 DEF InWdTypeOK

LEMMA AgesKept ==
    ASSUME WatchInv, PacketInv', KeepsPackets, PollTypes', Latest' >= Latest \/ NoPackets',
           UNCHANGED <<intervals, haveBurst, burstAge, inputAge>>
    PROVE  AgesInv'
<1>1. /\ Latest \in Int /\ Latest' \in Int /\ inputAge \in Int
      /\ \A i \in 1..Len(queue) : IsInput(queue[i]) => queue[i].age \in Nat
  BY Limits, WaitingPackets
  DEF WatchInv, PollTypes, PollCounts, Latest, InWdTypeOK, PacketInv, QueueInv
<1>2. ASSUME NEW i \in 1..Len(queue'), IsInput(queue'[i])
      PROVE  queue'[i].age <= Latest' /\ queue'[i].age <= inputAge'
  <2>1. i \in 1..Len(queue) /\ queue'[i] = queue[i] /\ ~NoPackets'
    BY <1>2 DEF KeepsPackets, NoPackets, IsInput
  <2>2. queue[i].age <= Latest /\ queue[i].age <= inputAge /\ queue[i].age \in Nat
    BY <1>1, <1>2, <2>1 DEF WatchInv, AgesInv
  <2>3. Latest' >= Latest
    BY <2>1
  <2>4. QED
    BY <1>1, <2>1, <2>2, <2>3
<1>3. ASSUME NEW i \in 1..Len(queue'), NEW j \in 1..Len(queue'), i <= j, IsInput(queue'[j])
      PROVE  queue'[j].age <= queue'[i].age
  <2>1. IsInput(queue'[i])
    BY <1>3 DEF PacketInv, PacketsFirst, IsInput
  <2>2. QED
    BY <1>3, <2>1 DEF KeepsPackets, WatchInv, AgesInv
<1>4. QED
  BY <1>2, <1>3 DEF AgesInv, WatchInv, IsInput

LEMMA AgesStep ==
    ASSUME WatchInv, PacketInv', PollTypes', Reserved >= 2, [InputNext]_inputVars
    PROVE  AgesInv' /\ InWdTypeOK'
<1>1. /\ PacketInv /\ QueueInv /\ PathTypes /\ AgesInv /\ InWdTypeOK /\ PollTypes
      /\ QueueInv' /\ PathTypes'
  BY DEF WatchInv, PacketInv, QueueInv
<1>2. /\ Latest \in Nat /\ Latest' \in Nat /\ Latest <= MaxAway /\ Latest' <= MaxAway
      /\ inputAge \in 0..AgeLimit /\ burstAge \in 0..AgeLimit
  BY <1>1, Limits DEF PollTypes, PollCounts, Latest, InWdTypeOK
<1>3. \A i \in 1..Len(queue) : IsInput(queue[i]) =>
        queue[i] \in Packet /\ queue[i].age \in Nat
  BY <1>1, WaitingPackets
<1>4. ASSUME UNCHANGED inWdVars
      PROVE  InWdTypeOK' /\ UNCHANGED <<intervals, haveBurst, burstAge, inputAge>>
  BY <1>1, <1>4 DEF inWdVars, InWdTypeOK
<1>5. CASE \E expected \in device.lengths \cup {0} : Receive(expected)
  <2>1. PICK expected \in device.lengths \cup {0} : Receive(expected)
    BY <1>5
  <2>2. UNCHANGED inWdVars /\ UNCHANGED <<pollPc, awayAge>>
    BY <2>1 DEF Receive
  <2>3. Latest' = Latest
    BY <2>2 DEF Latest
  <2>4. ReceivedPacket(expected).age = 0
    BY DEF ReceivedPacket
  <2>5. CASE queue' = queue
    BY <1>1, <1>4, <2>2, <2>3, <2>5 DEF AgesInv
  <2>6. CASE queue' # queue
    <3>1. /\ Len(queue') = Len(queue) + 1 /\ Len(queue) \in Nat
          /\ queue'[Len(queue) + 1].age = 0
          /\ \A i \in 1..Len(queue) : queue'[i] = queue[i]
          /\ \A i \in 1..Len(queue') : i \in 1..Len(queue) \/ i = Len(queue) + 1
      BY <1>1, <2>1, <2>4, <2>6, ReceiveAdds
    <3>2. ASSUME NEW i \in 1..Len(queue'), IsInput(queue'[i])
          PROVE  queue'[i].age <= Latest /\ queue'[i].age <= inputAge
      <4>1. CASE i \in 1..Len(queue)
        BY <1>1, <3>1, <3>2, <4>1 DEF AgesInv
      <4>2. CASE i = Len(queue) + 1
        BY <1>2, <3>1, <4>2
      <4>3. QED
        BY <3>1, <4>1, <4>2
    <3>3. ASSUME NEW i \in 1..Len(queue'), NEW j \in 1..Len(queue'), i <= j,
                 IsInput(queue'[j])
          PROVE  queue'[j].age <= queue'[i].age
      <4>1. IsInput(queue'[i])
        BY <3>3 DEF PacketInv, PacketsFirst, IsInput
      <4>2. CASE j \in 1..Len(queue)
        <5>1. i \in 1..Len(queue)
          BY <3>1, <3>3, <4>2
        <5>2. QED
          BY <1>1, <3>1, <3>3, <4>2, <5>1 DEF AgesInv
      <4>3. CASE j = Len(queue) + 1
        <5>1. queue'[i].age \in Nat
          <6>1. CASE i \in 1..Len(queue)
            BY <1>3, <3>1, <4>1, <6>1
          <6>2. CASE i = Len(queue) + 1
            BY <3>1, <6>2
          <6>3. QED
            BY <3>1, <6>1, <6>2
        <5>2. QED
          BY <3>1, <4>3, <5>1
      <4>4. QED
        BY <3>1, <4>2, <4>3
    <3>4. QED
      BY <1>1, <1>4, <2>2, <2>3, <3>2, <3>3 DEF AgesInv, IsInput
  <2>7. QED
    BY <2>5, <2>6
<1>6. CASE Posts
  <2>1. UNCHANGED inWdVars /\ UNCHANGED <<pollPc, awayAge>>
    BY <1>6 DEF Posts, InError, Unplug, Plug
  <2>2. Latest' = Latest
    BY <2>1 DEF Latest
  <2>3. QED
    BY <1>1, <1>2, <1>4, <1>6, <2>1, <2>2, PostsKeep, AgesKept
<1>7. CASE Drops /\ ~HandleConnected
  <2>1. UNCHANGED inWdVars
    BY <1>7 DEF Drops, HandleDisconnected, HandleErrorIgnored, HandleErrorRecovers,
                HandleErrorRestarts
  <2>2. QED
    BY <1>1, <1>4, <1>7, <2>1, DropsKeep, AgesKept
<1>8. CASE HandleConnected
  <2>1. InWdReset
    BY <1>8 DEF HandleConnected
  <2>2. NoPackets'
    BY <1>1, <1>8, DropsKeep DEF Drops
  <2>3. /\ intervals' = <<>> /\ haveBurst' = FALSE /\ burstAge' = 0 /\ inputAge' = 0
        /\ silent' = FALSE /\ silenceRecoveries' = 0 /\ silenceWindow' = 0
    BY <2>1 DEF InWdReset
  <2>4. haveBurst' \in BOOLEAN /\ silent' \in BOOLEAN
    BY <2>3, Zenon
  <2>5. InWdTypeOK'
    BY <2>3, <2>4, Limits DEF InWdTypeOK
  <2>6. QED
    BY <2>2, <2>3, <2>5 DEF AgesInv, NoPackets, IsInput
<1>9. CASE HandleInput
  <2> DEFINE age == queue[1].age
  <2>1. /\ Len(queue) \in Nat /\ Len(queue') = Len(queue) - 1
        /\ \A i \in 1..Len(queue') : i + 1 \in 1..Len(queue) /\ queue'[i] = queue[i + 1]
        /\ Head(queue) = queue[1] /\ 1 \in 1..Len(queue) /\ IsInput(queue[1])
    BY <1>1, <1>9, InputTakes
  <2>2. OnInput(age) /\ UNCHANGED <<pollPc, awayAge>>
    BY <1>9, <2>1 DEF HandleInput
  <2>3. age \in 0..AgeLimit /\ age <= inputAge
    BY <1>1, <1>2, <1>3, <2>1, Limits DEF AgesInv
  <2>4. InWdTypeOK' /\ inputAge' = age /\ haveBurst' /\ age <= burstAge'
    BY <1>1, <2>2, <2>3, OnInputOK DEF AgesInv
  <2>5. Latest' = Latest
    BY <2>2 DEF Latest
  <2> HIDE DEF age
  <2>6. ASSUME NEW i \in 1..Len(queue'), IsInput(queue'[i])
        PROVE  queue'[i].age <= Latest /\ queue'[i].age <= age
    <3>1. i + 1 \in 1..Len(queue) /\ IsInput(queue[i + 1]) /\ queue'[i] = queue[i + 1]
      BY <2>1, <2>6
    <3>2. queue[i + 1].age <= Latest /\ 1 <= i + 1
      BY <1>1, <3>1 DEF AgesInv
    <3>3. queue[i + 1].age <= queue[1].age
      BY <1>1, <2>1, <3>1, <3>2 DEF AgesInv
    <3>4. QED
      BY <3>1, <3>2, <3>3 DEF age
  <2>7. ASSUME NEW i \in 1..Len(queue'), NEW j \in 1..Len(queue'), i <= j,
               IsInput(queue'[j])
        PROVE  queue'[j].age <= queue'[i].age
    <3>1. /\ i + 1 \in 1..Len(queue) /\ queue'[i] = queue[i + 1]
          /\ j + 1 \in 1..Len(queue) /\ queue'[j] = queue[j + 1] /\ i + 1 <= j + 1
      BY <2>1, <2>7
    <3>2. QED
      BY <1>1, <2>7, <3>1 DEF AgesInv
  <2>8. QED
    BY <2>4, <2>5, <2>6, <2>7 DEF AgesInv, IsInput
<1>10. CASE Serves
  <2>1. /\ queue' = queue /\ KeepsPackets
        /\ UNCHANGED <<intervals, haveBurst, burstAge, inputAge>>
    BY <1>10, ServesKeep
  <2>2. Latest' >= Latest \/ NoPackets'
    <3>1. CASE Wake
      BY <1>1, <3>1, Limits DEF Wake, Latest, PollTypes, PollCounts
    <3>2. CASE EventsDone
      BY <3>2 DEF EventsDone, NoPackets
    <3>3. CASE ~Wake /\ ~EventsDone
      <4>1. pollPc = "main" /\ pollPc' = "away" /\ awayAge' = 0
        BY <1>10, <3>3 DEF Serves, ServiceReturns, StartAgain, LinkRecovers, SilenceRecovers,
                           SilenceRestarts, PollDriver, Away, RecoverInterface
      <4>2. QED
        BY <4>1 DEF Latest
    <3>4. QED
      BY <3>1, <3>2, <3>3
  <2>3. InWdTypeOK'
    <3>1. CASE UNCHANGED inWdVars
      BY <1>4, <3>1
    <3>2. CASE ~UNCHANGED inWdVars
      <4>1. InWdTick(Polled)
        BY <1>10, <3>2 DEF Serves, Wake, EventsDone, ServiceReturns, StartAgain, LinkRecovers,
                           SilenceRecovers, SilenceRestarts, PollDriver
      <4>2. QED
        BY <1>1, <4>1, WdTickOK
    <3>3. QED
      BY <3>1, <3>2
  <2>4. QED
    BY <1>1, <2>1, <2>2, <2>3, AgesKept
<1>11. CASE Tick
  <2>1. /\ Len(queue') = Len(queue)
        /\ \A i \in 1..Len(queue) :
             /\ IsInput(queue'[i]) <=> IsInput(queue[i])
             /\ IsInput(queue[i]) => queue'[i].age = queue[i].age + 1
    BY <1>1, <1>11, Aged
  <2>2. /\ pollPc = "away" /\ pollPc' = "away" /\ claimed' = claimed
        /\ awayAge' = awayAge + 1 /\ Latest' = Latest + 1
    BY <1>11 DEF Tick, Latest
  <2>3. CASE ~claimed
    <3>1. NoPackets'
      BY <1>1, <2>2, <2>3 DEF PacketInv, PacketsFirst
    <3>2. UNCHANGED inWdVars
      BY <1>11, <2>3 DEF Tick
    <3>3. QED
      BY <1>1, <1>4, <3>1, <3>2 DEF AgesInv, NoPackets, IsInput
  <2>4. CASE claimed
    <3>1. InWdElapse
      BY <1>11, <2>4 DEF Tick
    <3>2. InWdTypeOK' /\ UNCHANGED <<intervals, haveBurst>>
      BY <1>1, <3>1, ElapseOK
    <3>3. /\ inputAge' = Older(inputAge, AgeLimit) /\ burstAge' = Older(burstAge, AgeLimit)
      BY <3>1 DEF InWdElapse
    <3>4. /\ inputAge' = inputAge + 1 \/ inputAge' = AgeLimit
          /\ burstAge >= inputAge => burstAge' >= inputAge'
      BY <1>2, <3>3, Limits DEF Older
    <3>5. ASSUME NEW i \in 1..Len(queue'), IsInput(queue'[i])
          PROVE  queue'[i].age <= Latest' /\ queue'[i].age <= inputAge'
      <4>1. /\ IsInput(queue[i]) /\ queue'[i].age = queue[i].age + 1 /\ queue[i].age \in Nat
            /\ queue[i].age <= Latest /\ queue[i].age <= inputAge
        BY <1>1, <1>3, <2>1, <3>5 DEF AgesInv
      <4>2. QED
        BY <1>2, <2>2, <3>4, <4>1, Limits
    <3>6. ASSUME NEW i \in 1..Len(queue'), NEW j \in 1..Len(queue'), i <= j,
                 IsInput(queue'[j])
          PROVE  queue'[j].age <= queue'[i].age
      <4>1. IsInput(queue[j]) /\ i \in 1..Len(queue) /\ j \in 1..Len(queue)
        BY <2>1, <3>6
      <4>2. IsInput(queue[i]) /\ queue[j].age <= queue[i].age
        BY <1>1, <3>6, <4>1 DEF PacketInv, PacketsFirst, AgesInv
      <4>3. /\ queue'[i].age = queue[i].age + 1 /\ queue'[j].age = queue[j].age + 1
            /\ queue[i].age \in Nat /\ queue[j].age \in Nat
        BY <1>3, <2>1, <4>1, <4>2
      <4>4. QED
        BY <4>2, <4>3
    <3>7. haveBurst' => inputAge' <= burstAge'
      BY <1>1, <1>2, <3>2, <3>4 DEF AgesInv
    <3>8. QED
      BY <1>1, <3>2, <3>5, <3>6, <3>7 DEF AgesInv, IsInput
  <2>5. QED
    BY <2>3, <2>4
<1>12. CASE UNCHANGED inputVars
  <2>1. UNCHANGED inWdVars /\ UNCHANGED <<queue, pollPc, awayAge>>
    BY <1>12 DEF inputVars, pollVars
  <2>2. Latest' = Latest
    BY <2>1 DEF Latest
  <2>3. QED
    BY <1>1, <1>4, <2>1, <2>2 DEF AgesInv
<1>13. QED
  BY <1>5, <1>6, <1>7, <1>8, <1>9, <1>10, <1>11, <1>12
  DEF InputNext, PollStep, Posts, Drops, Serves

LEMMA WatchStep ==
    ASSUME WatchInv, Reserved >= 2, [InputNext]_inputVars
    PROVE  WatchInv'
<1>1. PacketInv'
  BY PacketStep DEF WatchInv
<1>2. PollTypes'
  BY PollFlagsStep, PollCountsStep DEF WatchInv, PollTypes
<1>3. QED
  BY <1>1, <1>2, AgesStep DEF WatchInv

LEMMA WatchInit == InputInit => WatchInv
<1> SUFFICES ASSUME InputInit PROVE WatchInv
  OBVIOUS
<1>1. QueueInv /\ queue = <<>> /\ Len(queue) = 0
  BY QueueInit DEF InputInit
<1>2. PacketInv
  BY <1>1 DEF PacketInv, PacketsFirst, NoPackets
<1>3. PollFlags
  BY Zenon DEF InputInit, PollFlags
<1>4. PollCounts
  BY Limits DEF InputInit, PollCounts
<1>5. haveBurst \in BOOLEAN /\ silent \in BOOLEAN
  BY Zenon DEF InputInit
<1>6. InWdTypeOK
  BY <1>5, Limits DEF InputInit, InWdTypeOK
<1>7. AgesInv
  BY <1>1 DEF InputInit, AgesInv
<1>8. QED
  BY <1>2, <1>3, <1>4, <1>6, <1>7 DEF WatchInv, PollTypes

-------------------------------------------------------------------------------
(* The silence watchdog acts on silences.                                  *)

LEMMA Smallest ==
    ASSUME NEW S, S \subseteq Nat, S # {}
    PROVE  \E i \in S : \A j \in S : i <= j
<1> DEFINE R == OpToRel(<, Nat)
<1>1. IsWellFoundedOn(R, Nat)
  BY NatLessThanWellFounded
<1> HIDE DEF R
<1>2. PICK i \in S : \A j \in S : ~(<<j, i>> \in R)
  BY <1>1, WFMin
<1>3. \A j \in S : ~(j < i)
  BY <1>2 DEF R, OpToRel
<1>4. QED
  BY <1>3

LEMMA Largest ==
    ASSUME NEW n \in Nat, NEW S, S \subseteq 0..n, S # {}
    PROVE  \E i \in S : \A j \in S : j <= i
<1> DEFINE T == {n - i : i \in S}
<1>1. PICK k \in T : \A l \in T : k <= l
  <2>1. \A i \in S : i \in Int /\ n - i \in Nat
    OBVIOUS
  <2>2. T \subseteq Nat /\ T # {}
    BY <2>1
  <2>3. QED
    BY <2>2, Smallest
<1>2. PICK i \in S : k = n - i
  OBVIOUS
<1>3. \A j \in S : n - i <= n - j
  BY <1>1, <1>2
<1>4. QED
  BY <1>3

LEMMA SamplesOK ==
    ASSUME InWdTypeOK
    PROVE  /\ Len(intervals) \in Nat /\ DOMAIN intervals = 1..Len(intervals)
           /\ intervals # <<>> => Len(intervals) >= 1
           /\ \A i \in 1..Len(intervals) : intervals[i] \in 0..AgeLimit
<1> DEFINE S == 0..AgeLimit
<1>1. intervals \in Seq(S)
  BY DEF InWdTypeOK
<1> HIDE DEF S
<1>2. Len(intervals) \in Nat /\ DOMAIN intervals = 1..Len(intervals)
  BY <1>1
<1>3. intervals # <<>> => Len(intervals) # 0
  BY <1>1
<1>4. \A i \in 1..Len(intervals) : intervals[i] \in S
  BY <1>1
<1>5. QED
  BY <1>2, <1>3, <1>4 DEF S

\* There is a median of the intervals, and it is one of them.
LEMMA MedianKnown ==
    ASSUME InWdTypeOK, intervals # <<>>
    PROVE  \E i \in 1..Len(intervals) : Median = intervals[i]
<1> DEFINE n == Len(intervals)
           Half == {x \in Known : AtMost(x) > n \div 2}
<1>1. /\ n \in Nat /\ n >= 1 /\ DOMAIN intervals = 1..n
      /\ \A i \in 1..n : intervals[i] \in 0..AgeLimit
  BY SamplesOK
<1>2. Known \subseteq 0..AgeLimit /\ Known # {} /\ \A i \in 1..n : intervals[i] \in Known
  BY <1>1 DEF Known
<1>3. PICK x \in Known : \A y \in Known : y <= x
  BY <1>2, Largest, Limits
<1>4. AtMost(x) = n
  <2>1. {i \in DOMAIN intervals : intervals[i] <= x} = 1..n
    BY <1>1, <1>2, <1>3
  <2>2. Cardinality(1..n) = n
    <3>1. 1 \in Int /\ n \in Int /\ ~(1 > n)
      BY <1>1
    <3>2. Cardinality(1..n) = IF 1 > n THEN 0 ELSE n - 1 + 1
      BY <3>1, FS_Interval
    <3>3. QED
      BY <1>1, <3>1, <3>2
  <2>3. QED
    BY <2>1, <2>2 DEF AtMost
<1>5. n > n \div 2
  BY <1>1
<1>6. Half \subseteq Nat /\ Half # {}
  <2>1. x \in Half
    BY <1>3, <1>4, <1>5
  <2>2. 0..AgeLimit \subseteq Nat
    BY Limits
  <2>3. QED
    BY <1>2, <2>1, <2>2
<1>7. PICK least \in Half : \A y \in Half : least <= y
  BY <1>6, Smallest
<1>8. \E m \in Known : AtMost(m) > n \div 2 /\ \A y \in Known : AtMost(y) > n \div 2 => m <= y
  BY <1>7
<1>9. Median \in Known
  BY <1>8 DEF Median
<1>10. QED
  BY <1>1, <1>9 DEF Known

LEMMA ThresholdOK ==
    ASSUME InWdTypeOK
    PROVE  SilenceThreshold \in Nat /\ SilenceThreshold >= MinSilence
<1>1. CASE intervals = <<>>
  BY <1>1, Limits DEF SilenceThreshold
<1>2. CASE intervals # <<>>
  <2>1. PICK i \in 1..Len(intervals) : Median = intervals[i]
    BY <1>2, MedianKnown
  <2>2. Median \in Nat
    BY <2>1, Limits DEF InWdTypeOK
  <2>3. SilenceFactor * Median \in Nat
    BY <2>2, Limits
  <2>4. SilenceThreshold = IF SilenceFactor * Median > MinSilence
                           THEN SilenceFactor * Median ELSE MinSilence
    BY <1>2 DEF SilenceThreshold
  <2>5. QED
    BY <2>3, <2>4, Limits
<1>3. QED
  BY <1>1, <1>2

\* What the watchdog acts on.
LEMMA ActsOnSilence ==
    ASSUME WatchInv, SilenceRecovers \/ SilenceRestarts
    PROVE  /\ pollPc = "main" /\ Acts /\ SilenceDue(Polled) /\ IsSilent
           /\ inputAge >= SilenceThreshold
<1>1. pollPc = "main" /\ Acts /\ SilenceAction(Polled) # "NONE"
  BY DEF SilenceRecovers, SilenceRestarts
<1>2. SilenceDue(Polled)
  BY <1>1 DEF SilenceAction
<1>3. QED
  BY <1>1, <1>2 DEF SilenceDue, IsSilent

\* Without a packet in the queue, the one handled last was at most so much older than
\* the one received last as the poll task may be away.
HeardInv == claimed /\ NoPackets => inputAge <= heard + MaxAway

LEMMA HeardStep ==
    ASSUME WatchInv, HeardInv, Reserved >= 2, [InputNext]_inputVars
    PROVE  HeardInv'
<1>1. /\ PacketInv /\ QueueInv /\ PathTypes /\ AgesInv
      /\ inputAge \in 0..AgeLimit /\ heard \in 0..AgeLimit /\ MaxAway \in Nat /\ AgeLimit \in Nat
  BY Limits DEF WatchInv, PacketInv, QueueInv, InWdTypeOK, PollTypes, PollCounts
<1>2. ASSUME UNCHANGED <<inputAge, heard>>, claimed' => claimed, NoPackets' => NoPackets
      PROVE  HeardInv'
  BY <1>2 DEF HeardInv
<1>3. CASE \E expected \in device.lengths \cup {0} : Receive(expected)
  <2>1. PICK expected \in device.lengths \cup {0} : Receive(expected)
    BY <1>3
  <2>2. AllPackets
    BY <1>1, <2>1, PipeRuns DEF Receive
  <2>3. \E i \in 1..Len(queue') : IsInput(queue'[i])
    <3>1. CASE queue' = queue
      <4>1. 1 \in 1..Len(queue) \/ \E i \in 1..Len(queue') : IsInput(queue'[i])
        BY <1>1, <2>1, ReceiveAdds
      <4>2. QED
        BY <2>2, <3>1, <4>1 DEF AllPackets
    <3>2. CASE queue' # queue
      <4>1. Len(queue) + 1 \in 1..Len(queue') /\ IsInput(queue'[Len(queue) + 1])
        BY <1>1, <2>1, <3>2, ReceiveAdds
      <4>2. QED
        BY <4>1
    <3>3. QED
      BY <3>1, <3>2
  <2>4. QED
    BY <2>3 DEF HeardInv, NoPackets, IsInput
<1>4. CASE Posts
  <2>1. UNCHANGED <<inputAge, heard, claimed>>
    BY <1>4 DEF Posts, InError, Unplug, Plug, inWdVars
  <2>2. Len(queue) \in Nat /\ Len(queue') = Len(queue) + 1
        /\ \A i \in 1..Len(queue) : queue'[i] = queue[i]
    BY <1>1, <1>4, PostsKeep DEF PathTypes
  <2>3. NoPackets' => NoPackets
    BY <2>2 DEF NoPackets, IsInput
  <2>4. QED
    BY <1>2, <2>1, <2>3
<1>5. CASE Drops /\ ~HandleConnected
  <2>1. UNCHANGED <<inputAge, heard>> /\ (claimed' => claimed)
    BY <1>5 DEF Drops, HandleDisconnected, HandleErrorIgnored, HandleErrorRecovers,
                HandleErrorRestarts, inWdVars, deviceVars
  <2>2. NoPackets
    BY <1>1, <1>5, DropsKeep
  <2>3. QED
    BY <1>2, <2>1, <2>2
<1>6. CASE HandleConnected
  <2>1. inputAge' = 0 /\ heard' = 0
    BY <1>6 DEF HandleConnected, InWdReset
  <2>2. QED
    BY <1>1, <2>1 DEF HeardInv
<1>7. CASE HandleInput
  <2>1. /\ Head(queue) = queue[1] /\ 1 \in 1..Len(queue) /\ IsInput(queue[1])
        /\ queue[1].age \in Nat
    BY <1>1, <1>7, InputTakes, WaitingPackets
  <2>2. inputAge' = queue[1].age /\ heard' = heard
    BY <1>7, <2>1 DEF HandleInput, OnInput, deviceVars
  <2>3. queue[1].age <= Latest /\ Latest <= MaxAway /\ Latest \in Nat
    BY <1>1, <2>1 DEF AgesInv, WatchInv, PollTypes, PollCounts, Latest
  <2>4. QED
    BY <1>1, <2>1, <2>2, <2>3 DEF HeardInv
<1>8. CASE Serves
  BY <1>2, <1>8, ServesKeep DEF NoPackets
<1>9. CASE Tick
  <2>1. NoPackets' => NoPackets
    BY <1>1, <1>9, Aged DEF NoPackets, IsInput
  <2>2. CASE ~claimed
    BY <1>9, <2>2 DEF Tick, HeardInv
  <2>3. CASE claimed
    <3>1. inputAge' = Older(inputAge, AgeLimit) /\ heard' = Older(heard, AgeLimit)
      BY <1>9, <2>3 DEF Tick, InWdElapse
    <3>2. QED
      BY <1>1, <2>1, <2>3, <3>1 DEF HeardInv, Older
  <2>4. QED
    BY <2>2, <2>3
<1>10. CASE UNCHANGED inputVars
  BY <1>2, <1>10 DEF inputVars, inWdVars, deviceVars, pollVars, NoPackets
<1>11. QED
  BY <1>3, <1>4, <1>5, <1>6, <1>7, <1>8, <1>9, <1>10
  DEF InputNext, PollStep, Posts, Drops, Serves

\* The watchdog never restarts an interface for silence while packets come in, however
\* the poll task is kept away from them: none came for the threshold less that time, or
\* one waits in the queue (InputWatchdog::tick()).
THEOREM SilenceEarnedKept ==
    ASSUME Reserved >= 2
    PROVE  InputSpec => SilenceEarned
<1>1. InputInit => WatchInv /\ HeardInv
  <2>1. InputInit => HeardInv
    BY Limits DEF InputInit, HeardInv
  <2>2. QED
    BY <2>1, WatchInit
<1>2. WatchInv /\ HeardInv /\ [InputNext]_inputVars => WatchInv' /\ HeardInv'
  BY WatchStep, HeardStep
<1>3. WatchInv /\ HeardInv /\ [InputNext]_inputVars =>
        [SilenceRecovers \/ SilenceRestarts =>
             heard >= SilenceThreshold - MaxAway \/ queue # <<>>]_inputVars
  <2> SUFFICES ASSUME WatchInv, HeardInv, SilenceRecovers \/ SilenceRestarts, queue = <<>>
               PROVE  heard >= SilenceThreshold - MaxAway
    OBVIOUS
  <2>1. claimed /\ NoPackets /\ inputAge >= SilenceThreshold
    BY ActsOnSilence DEF Acts, NoPackets
  <2>2. /\ SilenceThreshold \in Nat /\ inputAge \in Nat /\ heard \in Nat /\ MaxAway \in Nat
    BY ThresholdOK, Limits DEF WatchInv, InWdTypeOK, PollTypes, PollCounts
  <2>3. QED
    BY <2>1, <2>2 DEF HeardInv
<1>4. QED
  BY <1>1, <1>2, <1>3, PTL DEF InputSpec, SilenceEarned

-------------------------------------------------------------------------------
(* A UPS whose values the poll covers.                                     *)

\* The driver is to build its lists again as soon as the interface runs.
Relearns ==
    claimed /\ ~restartRequested /\ ~listsBuilt /\ ~(restartPending /\ ~attached)

\* What the watchdog measures, and how much of it may pass before the lists are built.
Quiet == IF silent THEN silenceWindow ELSE inputAge
Grace == (IF restartPending THEN 0 ELSE MaxAway) +
         (IF pollPc = "away" THEN awayAge ELSE MaxAway)

CoverInv ==
    device.covered =>
        /\ silenceRecoveries <= others
        /\ Relearns /\ ~(silenceRecoveries < others) => Quiet <= Grace

LEMMA CoverEarned ==
    ASSUME WatchInv, CoverInv, SilenceRecovers \/ SilenceRestarts, device.covered
    PROVE  silenceRecoveries < others
<1>1. /\ pollPc = "main" /\ Acts /\ SilenceDue(Polled) /\ inputAge >= SilenceThreshold
  BY ActsOnSilence
<1>2. ~listsBuilt
  BY <1>1 DEF SilenceDue, Polled
<1>3. Relearns /\ Grace = MaxAway + MaxAway
  BY <1>1, <1>2 DEF Acts, Relearns, Grace
<1>4. inputAge >= MinSilence
  BY <1>1, ThresholdOK, Limits DEF WatchInv, InWdTypeOK
<1>5. silent => silenceWindow >= SilenceRetry
  BY <1>1 DEF SilenceDue
<1>6. Quiet >= SilenceRetry \/ Quiet >= MinSilence
  BY <1>4, <1>5 DEF Quiet
<1>7. Quiet \in Nat
  BY Limits DEF Quiet, WatchInv, InWdTypeOK
<1>8. ~(Quiet <= Grace)
  BY <1>3, <1>6, <1>7, Limits
<1>9. QED
  BY <1>3, <1>8 DEF CoverInv

LEMMA SameDevice ==
    ASSUME [InputNext]_inputVars
    PROVE  device' = device
<1>1. CASE (\E expected \in device.lengths \cup {0} : Receive(expected)) \/ Posts \/ Tick
  BY <1>1 DEF Receive, Posts, InError, Unplug, Plug, Tick
<1>2. CASE Drops \/ HandleInput
  BY <1>2 DEF Drops, HandleConnected, HandleDisconnected, HandleErrorIgnored,
              HandleErrorRecovers, HandleErrorRestarts, HandleInput, deviceVars
<1>3. CASE Serves
  BY <1>3, ServesKeep
<1>4. CASE UNCHANGED inputVars
  BY <1>4 DEF inputVars, deviceVars
<1>5. QED
  BY <1>1, <1>2, <1>3, <1>4 DEF InputNext, PollStep, Posts, Drops, Serves

LEMMA CoverStep ==
    ASSUME WatchInv, WatchInv', CoverInv, [InputNext]_inputVars
    PROVE  CoverInv'
<1>1. /\ silenceRecoveries \in 0..MaxSilenceRecoveries /\ others \in 0..MaxOthers
      /\ silenceWindow \in 0..SilenceRetry /\ inputAge \in 0..AgeLimit /\ awayAge \in 0..MaxAway
      /\ Quiet \in Nat /\ Grace \in Nat /\ Quiet' \in Nat /\ Grace' \in Nat
      /\ silenceRecoveries' \in 0..MaxSilenceRecoveries /\ others' \in 0..MaxOthers
  <2>1. /\ silenceRecoveries \in 0..MaxSilenceRecoveries /\ others \in 0..MaxOthers
        /\ silenceWindow \in 0..SilenceRetry /\ inputAge \in 0..AgeLimit
        /\ awayAge \in 0..MaxAway
    BY DEF WatchInv, InWdTypeOK, PollTypes, PollCounts
  <2>2. /\ silenceRecoveries' \in 0..MaxSilenceRecoveries /\ others' \in 0..MaxOthers
        /\ silenceWindow' \in 0..SilenceRetry /\ inputAge' \in 0..AgeLimit
        /\ awayAge' \in 0..MaxAway
    BY DEF WatchInv, InWdTypeOK, PollTypes, PollCounts
  <2>3. Quiet \in Nat /\ Quiet' \in Nat
    <3>1. Quiet = silenceWindow \/ Quiet = inputAge
      BY DEF Quiet
    <3>2. Quiet' = silenceWindow' \/ Quiet' = inputAge'
      BY DEF Quiet
    <3>3. QED
      BY <2>1, <2>2, <3>1, <3>2, Limits
  <2>4. Grace \in Nat
    BY <2>1, Limits DEF Grace
  <2>5. Grace' \in Nat
    <3> DEFINE start == IF restartPending' THEN 0 ELSE MaxAway
               round == IF pollPc' = "away" THEN awayAge' ELSE MaxAway
    <3>1. start \in Nat /\ round \in Nat
      BY <2>2, Limits
    <3>2. Grace' = start + round
      BY DEF Grace
    <3> HIDE DEF start, round
    <3>3. QED
      BY <3>1, <3>2
  <2>6. QED
    BY <2>1, <2>2, <2>3, <2>4, <2>5
<1>2. device' = device
  BY SameDevice
<1> SUFFICES ASSUME device.covered
             PROVE  /\ silenceRecoveries' <= others'
                    /\ Relearns' /\ ~(silenceRecoveries' < others') => Quiet' <= Grace'
  BY <1>2 DEF CoverInv
<1>3. /\ silenceRecoveries <= others
      /\ Relearns /\ ~(silenceRecoveries < others) => Quiet <= Grace
  BY DEF CoverInv
<1>4. ASSUME UNCHANGED <<silenceRecoveries, others>>, Relearns' => Relearns,
             Quiet' <= Quiet, Grace' >= Grace
      PROVE  /\ silenceRecoveries' <= others'
             /\ Relearns' /\ ~(silenceRecoveries' < others') => Quiet' <= Grace'
  BY <1>1, <1>3, <1>4
<1>5. ASSUME UNCHANGED inWdVars
      PROVE  silenceRecoveries' = silenceRecoveries /\ Quiet' = Quiet
  BY <1>5 DEF inWdVars, Quiet
<1>6. CASE (\E expected \in device.lengths \cup {0} : Receive(expected)) \/ InError
  <2>1. /\ UNCHANGED inWdVars
        /\ UNCHANGED <<others, attached, pollPc, awayAge, claimed, restartPending,
                       restartRequested, listsBuilt>>
    BY <1>6 DEF Receive, InError, observers
  <2>2. (Relearns' <=> Relearns) /\ Grace' = Grace
    BY <2>1 DEF Relearns, Grace
  <2>3. QED
    BY <1>1, <1>4, <1>5, <2>1, <2>2
<1>7. CASE Unplug \/ Plug
  <2>1. /\ UNCHANGED inWdVars
        /\ UNCHANGED <<others, pollPc, awayAge, claimed, restartPending,
                       restartRequested, listsBuilt>>
        /\ claimed => ~attached'
    BY <1>7 DEF Unplug, Plug, observers
  <2>2. Relearns' => Relearns
    BY <2>1 DEF Relearns
  <2>3. Grace' = Grace
    BY <2>1 DEF Grace
  <2>4. QED
    BY <1>1, <1>4, <1>5, <2>1, <2>2, <2>3
<1>8. CASE Wake \/ EventsDone \/ ServiceReturns \/ HandleErrorIgnored
  <2>1. /\ UNCHANGED inWdVars
        /\ UNCHANGED <<others, attached, claimed, restartPending, restartRequested, listsBuilt>>
    BY <1>8 DEF Wake, EventsDone, ServiceReturns, HandleErrorIgnored, deviceVars, observers
  <2>2. Grace' >= Grace \/ ~Relearns'
    <3>1. CASE Wake
      BY <1>1, <2>1, <3>1, Limits DEF Wake, Grace
    <3>2. CASE EventsDone \/ HandleErrorIgnored
      BY <1>1, <2>1, <3>2, Limits DEF EventsDone, HandleErrorIgnored, NextEvent, Grace
    <3>3. CASE ServiceReturns
      BY <2>1, <3>3 DEF ServiceReturns, Relearns
    <3>4. QED
      BY <1>8, <3>1, <3>2, <3>3
  <2>3. Relearns' => Relearns
    BY <2>1 DEF Relearns
  <2>4. QED
    BY <1>1, <1>3, <1>5, <2>1, <2>2, <2>3
<1>9. CASE HandleConnected
  BY <1>1, <1>9 DEF HandleConnected, InWdReset, Quiet
<1>10. CASE HandleInput
  <2>1. /\ Head(queue) = queue[1] /\ 1 \in 1..Len(queue) /\ IsInput(queue[1])
        /\ queue[1].age \in Nat
    BY <1>10, InputTakes, WaitingPackets DEF WatchInv, PacketInv, QueueInv
  <2>2. /\ OnInput(queue[1].age) /\ others' = 0 /\ pollPc' = pollPc /\ pollPc = "events"
    BY <1>10, <2>1 DEF HandleInput, NextEvent
  <2>3. /\ silent' = FALSE /\ silenceRecoveries' = 0 /\ inputAge' = queue[1].age
    BY <2>2 DEF OnInput
  <2>4. queue[1].age <= MaxAway
    BY <2>1, <2>2 DEF WatchInv, AgesInv, Latest
  <2>5. MaxAway <= Grace'
    BY <2>2, Limits DEF Grace
  <2>6. QED
    BY <1>1, <2>1, <2>2, <2>3, <2>4, <2>5, Limits DEF Quiet
<1>11. CASE HandleDisconnected
  <2>1. UNCHANGED inWdVars /\ others' = others /\ ~claimed'
    BY <1>11 DEF HandleDisconnected
  <2>2. QED
    BY <1>3, <1>5, <2>1 DEF Relearns
<1>12. CASE HandleErrorRecovers
  <2>1. UNCHANGED inWdVars /\ others' = Older(others, MaxOthers)
    BY <1>12 DEF HandleErrorRecovers
  <2>2. QED
    BY <1>1, <1>3, <1>5, <2>1, Limits DEF Older
<1>13. CASE HandleErrorRestarts
  <2>1. UNCHANGED inWdVars /\ others' = others /\ restartRequested' = TRUE
    BY <1>13 DEF HandleErrorRestarts
  <2>2. QED
    BY <1>3, <1>5, <2>1 DEF Relearns
<1>14. CASE StartAgain
  <2>1. UNCHANGED inWdVars /\ UNCHANGED observers
        /\ UNCHANGED <<attached, claimed, restartRequested, listsBuilt>>
    BY <1>14 DEF StartAgain
  <2>2. /\ pollPc = "main" /\ pollPc' = "away" /\ awayAge' = 0
        /\ restartPending /\ restartPending' = FALSE /\ attached
    BY <1>14 DEF StartAgain, Away
  <2>3. Relearns' => Relearns
    BY <2>1, <2>2 DEF Relearns
  <2>4. Grace' = Grace
    BY <2>2, Limits DEF Grace
  <2>5. QED
    BY <1>1, <1>4, <1>5, <2>1, <2>3, <2>4 DEF observers
<1>15. CASE LinkRecovers
  <2>1. UNCHANGED inWdVars /\ others' = others + 1
    BY <1>15 DEF LinkRecovers
  <2>2. QED
    BY <1>1, <1>3, <1>5, <2>1
<1>16. CASE SilenceRecovers
  <2>1. silenceRecoveries < others
    BY <1>16, CoverEarned
  <2>2. InWdTick(Polled) /\ SilenceDue(Polled) /\ others' = others
    BY <1>16, ActsOnSilence DEF SilenceRecovers
  <2>3. /\ silent' = TRUE /\ silenceWindow' = 0
        /\ silenceRecoveries' = silenceRecoveries \/ silenceRecoveries' = silenceRecoveries + 1
    BY <2>2 DEF InWdTick
  <2>4. Quiet' = 0
    BY <2>3 DEF Quiet
  <2>5. QED
    BY <1>1, <2>1, <2>2, <2>3, <2>4
<1>17. CASE SilenceRestarts
  <2>1. silenceRecoveries < others
    BY <1>17, CoverEarned
  <2>2. InWdTick(Polled) /\ restartRequested' = TRUE /\ others' = others
    BY <1>17 DEF SilenceRestarts, observers
  <2>3. silenceRecoveries' = silenceRecoveries \/ silenceRecoveries' = silenceRecoveries + 1
    BY <2>2 DEF InWdTick
  <2>4. QED
    BY <1>1, <2>1, <2>2, <2>3 DEF Relearns
<1>18. CASE PollDriver
  <2>1. InWdTick(Polled) /\ SilenceAction(Polled) = "NONE" /\ listsBuilt' = TRUE
        /\ others' = others
    BY <1>18 DEF PollDriver, observers
  <2>2. ~SilenceDue(Polled)
    BY <2>1 DEF SilenceAction
  <2>3. silenceRecoveries' = silenceRecoveries
    BY <2>1, <2>2 DEF InWdTick
  <2>4. QED
    BY <1>3, <2>1, <2>3 DEF Relearns
<1>19. CASE Tick
  <2>1. /\ pollPc = "away" /\ pollPc' = pollPc /\ awayAge' = awayAge + 1
        /\ UNCHANGED <<attached, claimed, restartPending, restartRequested, listsBuilt, others>>
    BY <1>19 DEF Tick, observers
  <2>2. Relearns' = Relearns /\ Grace' = Grace + 1
    BY <1>1, <2>1, Limits DEF Relearns, Grace
  <2>3. CASE claimed
    <3>1. InWdElapse
      BY <1>19, <2>3 DEF Tick
    <3>2. UNCHANGED <<silent, silenceRecoveries>>
      BY <3>1 DEF InWdElapse
    <3>3. Quiet' <= Quiet + 1
      <4>1. CASE silent
        <5>1. silenceWindow' = Older(silenceWindow, SilenceRetry) /\ silent'
          BY <3>1, <4>1 DEF InWdElapse
        <5>2. QED
          BY <1>1, <4>1, <5>1, Limits DEF Quiet, Older
      <4>2. CASE ~silent
        <5>1. inputAge' = Older(inputAge, AgeLimit) /\ ~silent'
          BY <3>1, <4>2 DEF InWdElapse
        <5>2. QED
          BY <1>1, <4>2, <5>1, Limits DEF Quiet, Older
      <4>3. QED
        BY <4>1, <4>2
    <3>4. QED
      BY <1>1, <1>3, <2>1, <2>2, <3>2, <3>3
  <2>4. CASE ~claimed
    <3>1. UNCHANGED inWdVars
      BY <1>19, <2>4 DEF Tick
    <3>2. QED
      BY <1>3, <1>5, <2>1, <2>4, <3>1 DEF Relearns
  <2>5. QED
    BY <2>3, <2>4
<1>20. CASE UNCHANGED inputVars
  <2>1. /\ UNCHANGED inWdVars
        /\ UNCHANGED <<others, attached, pollPc, awayAge, claimed, restartPending,
                       restartRequested, listsBuilt>>
    BY <1>20 DEF inputVars, deviceVars, pollVars, observers
  <2>2. (Relearns' <=> Relearns) /\ Grace' = Grace
    BY <2>1 DEF Relearns, Grace
  <2>3. QED
    BY <1>1, <1>4, <1>5, <2>1, <2>2
<1>21. QED
  BY <1>6, <1>7, <1>8, <1>9, <1>10, <1>11, <1>12, <1>13, <1>14, <1>15, <1>16, <1>17, <1>18,
     <1>19, <1>20 DEF InputNext, PollStep

\* With every value covered by the poll, the watchdog takes a step for silence only after
\* another recovery of the interface in the same silence, which made the driver forget
\* what it covers, and never more of them than there were others
\* (inputValuesPolled(), setValuesPolled()).
THEOREM CoveredPaysKept ==
    ASSUME Reserved >= 2
    PROVE  InputSpec => CoveredPays
<1>1. InputInit => WatchInv /\ CoverInv
  <2>1. InputInit => CoverInv
    BY Limits DEF InputInit, CoverInv, Relearns
  <2>2. QED
    BY <2>1, WatchInit
<1>2. WatchInv /\ CoverInv /\ [InputNext]_inputVars => WatchInv' /\ CoverInv'
  BY WatchStep, CoverStep
<1>3. WatchInv /\ CoverInv /\ [InputNext]_inputVars =>
        [(SilenceRecovers \/ SilenceRestarts) /\ device.covered =>
             silenceRecoveries < others]_inputVars
  BY CoverEarned
<1>4. QED
  BY <1>1, <1>2, <1>3, PTL DEF InputSpec, CoveredPays

-------------------------------------------------------------------------------
(* The period the watchdog has learned.                                    *)

\* Every interval that is kept is shorter than the pauses of the device, whatever waits
\* in the queue, so that a silence is known before the ages stop growing.
Exact(age) ==
    \/ burstAge - age < device.pause
    \/ IsPeriodic /\ burstAge - age >= SilenceThreshold
ShortIntervals == \A i \in 1..Len(intervals) : intervals[i] < device.pause

\* In a silence that was found every packet in the queue is one that ends it.
PeriodInv ==
    /\ ShortIntervals
    /\ \A i \in 1..Len(queue) : IsInput(queue[i]) /\ haveBurst => Exact(queue[i].age)
    /\ silent /\ IsPeriodic =>
         /\ burstAge >= SilenceThreshold
         /\ \A i \in 1..Len(queue) :
              IsInput(queue[i]) => burstAge - queue[i].age >= SilenceThreshold

LEMMA TimesMonotonic == \A a, b, c \in Nat : a <= b => c * a <= c * b
<1> SUFFICES ASSUME NEW a \in Nat, NEW b \in Nat, NEW c \in Nat, a <= b
             PROVE  c * a <= c * b
  OBVIOUS
<1>1. PICK d \in Nat : b = a + d
  <2>1. b - a \in Nat /\ b = a + (b - a)
    OBVIOUS
  <2>2. QED
    BY <2>1
<1>2. c * b = c * a + c * d
  BY <1>1
<1>3. c * a \in Nat /\ c * d \in Nat
  OBVIOUS
<1>4. QED
  BY <1>2, <1>3

LEMMA DevicePause ==
    ASSUME PathTypes
    PROVE  /\ device.pause \in Nat /\ MaxAway < device.pause
           /\ SilenceFactor * (device.pause - 1) + MaxAway <= AgeLimit
BY InputPathAssumption DEF PathTypes

LEMMA PeriodicKnows ==
    ASSUME InWdTypeOK, IsPeriodic
    PROVE  intervals # <<>>
BY Limits DEF IsPeriodic

\* A silence is found before the ages stop growing.
LEMMA ThresholdSeen ==
    ASSUME InWdTypeOK, PathTypes, ShortIntervals
    PROVE  SilenceThreshold + MaxAway <= AgeLimit
<1>1. MinSilence + MaxAway <= AgeLimit
  BY InputPathAssumption
<1>2. CASE intervals = <<>>
  BY <1>1, <1>2, Limits DEF SilenceThreshold
<1>3. CASE intervals # <<>>
  <2>1. PICK i \in 1..Len(intervals) : Median = intervals[i]
    BY <1>3, MedianKnown
  <2>2. Median \in Nat /\ device.pause - 1 \in Nat /\ Median <= device.pause - 1
    BY <2>1, SamplesOK, DevicePause, Limits DEF ShortIntervals
  <2>3. SilenceFactor * Median <= SilenceFactor * (device.pause - 1)
    BY <2>2, TimesMonotonic, Limits
  <2>4. /\ SilenceFactor * Median \in Nat /\ SilenceFactor * (device.pause - 1) \in Nat
    BY <2>2, Limits
  <2>5. SilenceThreshold = IF SilenceFactor * Median > MinSilence
                           THEN SilenceFactor * Median ELSE MinSilence
    BY <1>3 DEF SilenceThreshold
  <2>6. QED
    BY <1>1, <2>3, <2>4, <2>5, DevicePause, Limits
<1>4. QED
  BY <1>2, <1>3

\* The median of any intervals.
MedianOf(s) ==
    CHOOSE x \in {s[i] : i \in DOMAIN s} :
        /\ Cardinality({i \in DOMAIN s : s[i] <= x}) > Len(s) \div 2
        /\ \A y \in {s[i] : i \in DOMAIN s} :
             Cardinality({i \in DOMAIN s : s[i] <= y}) > Len(s) \div 2 => x <= y

LEMMA SamePeriod ==
    ASSUME intervals' = intervals
    PROVE  /\ IsPeriodic' <=> IsPeriodic
           /\ SilenceThreshold' = SilenceThreshold
<1>1. Median' = Median
  <2>1. Median = MedianOf(intervals)
    BY DEF Median, Known, AtMost, MedianOf
  <2>2. Median' = MedianOf(intervals')
    BY DEF Median, Known, AtMost, MedianOf
  <2>3. QED
    BY <2>1, <2>2
<1>2. Known' = Known
  BY DEF Known
<1>3. QED
  BY <1>1, <1>2 DEF IsPeriodic, SilenceThreshold

LEMMA PeriodSame ==
    ASSUME WatchInv, PeriodInv, KeepsPackets, device' = device,
           UNCHANGED <<intervals, haveBurst, burstAge>>,
           silent' /\ ~silent /\ IsPeriodic =>
             /\ burstAge >= SilenceThreshold
             /\ \A i \in 1..Len(queue) :
                  IsInput(queue[i]) => burstAge - queue[i].age >= SilenceThreshold
    PROVE  PeriodInv'
<1>1. /\ IsPeriodic' <=> IsPeriodic
      /\ SilenceThreshold' = SilenceThreshold
  BY SamePeriod
<1>3. \A i \in 1..Len(queue') : IsInput(queue'[i]) =>
        i \in 1..Len(queue) /\ queue'[i] = queue[i]
  BY DEF KeepsPackets
<1>4. ShortIntervals'
  BY DEF PeriodInv, ShortIntervals
<1>5. ASSUME NEW i \in 1..Len(queue'), IsInput(queue'[i]), haveBurst'
      PROVE  \/ burstAge' - queue'[i].age < device.pause'
             \/ IsPeriodic' /\ burstAge' - queue'[i].age >= SilenceThreshold'
  <2>1. Exact(queue[i].age) /\ queue'[i] = queue[i]
    BY <1>3, <1>5 DEF PeriodInv
  <2>2. \/ burstAge - queue[i].age < device.pause
        \/ IsPeriodic /\ burstAge - queue[i].age >= SilenceThreshold
    BY <2>1 DEF Exact
  <2>3. QED
    BY <1>1, <2>1, <2>2
<1>6. ASSUME silent', IsPeriodic'
      PROVE  /\ burstAge >= SilenceThreshold
             /\ \A i \in 1..Len(queue') :
                  IsInput(queue'[i]) => burstAge - queue'[i].age >= SilenceThreshold
  BY <1>1, <1>3, <1>6 DEF PeriodInv
<1>7. QED
  BY <1>1, <1>4, <1>5, <1>6 DEF PeriodInv, IsInput, Exact

LEMMA PeriodStep ==
    ASSUME WatchInv, WatchInv', PeriodInv, Reserved >= 2, [InputNext]_inputVars
    PROVE  PeriodInv'
<1>1. /\ PacketInv /\ QueueInv /\ PathTypes /\ AgesInv /\ InWdTypeOK /\ AgesInv'
      /\ device' = device
  BY SameDevice DEF WatchInv, PacketInv, QueueInv
<1>2. /\ burstAge \in 0..AgeLimit /\ AgeLimit \in Nat /\ MaxAway \in Nat
      /\ MaxAway <= AgeLimit /\ device.pause \in Nat /\ MaxAway < device.pause
      /\ SilenceThreshold \in Nat /\ SilenceThreshold + MaxAway <= AgeLimit
  BY <1>1, Limits, DevicePause, ThresholdOK, ThresholdSeen DEF InWdTypeOK, PeriodInv
<1>3. \A i \in 1..Len(queue) : IsInput(queue[i]) =>
        /\ queue[i].age \in Nat /\ queue[i].age <= Latest /\ queue[i].age <= MaxAway
        /\ haveBurst => Exact(queue[i].age)
  <2>1. Latest \in Nat /\ Latest <= MaxAway
    BY Limits DEF WatchInv, PollTypes, PollCounts, Latest
  <2>2. QED
    BY <1>1, <1>2, <2>1, WaitingPackets DEF AgesInv, PeriodInv
<1>4. ASSUME UNCHANGED inWdVars
      PROVE  UNCHANGED <<intervals, haveBurst, burstAge, silent>>
  BY <1>4 DEF inWdVars
<1>5. CASE \E expected \in device.lengths \cup {0} : Receive(expected)
  <2>1. PICK expected \in device.lengths \cup {0} : Receive(expected)
    BY <1>5
  <2>2. UNCHANGED inWdVars /\ SampleExact
    BY <2>1 DEF Receive
  <2>3. CASE queue' = queue
    BY <1>1, <1>4, <2>2, <2>3, PeriodSame DEF KeepsPackets
  <2>4. CASE queue' # queue
    <3>1. /\ Len(queue) \in Nat /\ Len(queue') = Len(queue) + 1
          /\ queue'[Len(queue) + 1].age = 0
          /\ \A i \in 1..Len(queue) : queue'[i] = queue[i]
          /\ \A i \in 1..Len(queue') : i \in 1..Len(queue) \/ i = Len(queue) + 1
      <4>1. ReceivedPacket(expected).age = 0
        BY DEF ReceivedPacket
      <4>2. QED
        BY <1>1, <2>1, <2>4, <4>1, ReceiveAdds
    <3>2. /\ IsPeriodic' <=> IsPeriodic
          /\ SilenceThreshold' = SilenceThreshold
          /\ UNCHANGED <<intervals, haveBurst, burstAge, silent>>
      BY <1>4, <2>2, SamePeriod
    <3>3. ASSUME NEW i \in 1..Len(queue'), IsInput(queue'[i]), haveBurst
          PROVE  \/ burstAge - queue'[i].age < device.pause
                 \/ IsPeriodic /\ burstAge - queue'[i].age >= SilenceThreshold
      <4>1. CASE i \in 1..Len(queue)
        BY <1>3, <3>1, <3>3, <4>1 DEF Exact
      <4>2. CASE i = Len(queue) + 1
        <5>1. burstAge - queue'[i].age = burstAge
          BY <1>2, <3>1, <4>2
        <5>2. QED
          BY <2>2, <3>3, <5>1 DEF SampleExact
      <4>3. QED
        BY <3>1, <4>1, <4>2
    <3>4. ASSUME silent, IsPeriodic
          PROVE  /\ burstAge >= SilenceThreshold
                 /\ \A i \in 1..Len(queue') :
                      IsInput(queue'[i]) => burstAge - queue'[i].age >= SilenceThreshold
      <4>1. /\ burstAge >= SilenceThreshold
            /\ \A i \in 1..Len(queue) :
                 IsInput(queue[i]) => burstAge - queue[i].age >= SilenceThreshold
        BY <3>4 DEF PeriodInv
      <4>2. ASSUME NEW i \in 1..Len(queue'), IsInput(queue'[i])
            PROVE  burstAge - queue'[i].age >= SilenceThreshold
        <5>1. CASE i \in 1..Len(queue)
          BY <3>1, <4>1, <4>2, <5>1
        <5>2. CASE i = Len(queue) + 1
          BY <1>2, <3>1, <4>1, <5>2
        <5>3. QED
          BY <3>1, <5>1, <5>2
      <4>3. QED
        BY <4>1, <4>2
    <3>5. ShortIntervals'
      BY <1>1, <3>2 DEF PeriodInv, ShortIntervals
    <3>6. QED
      BY <1>1, <3>2, <3>3, <3>4, <3>5 DEF PeriodInv, Exact, IsInput
  <2>5. QED
    BY <2>3, <2>4
<1>6. CASE Posts
  <2>1. UNCHANGED inWdVars
    BY <1>6 DEF Posts, InError, Unplug, Plug
  <2>2. QED
    BY <1>1, <1>4, <1>6, <2>1, PostsKeep, PeriodSame
<1>7. CASE Drops /\ ~HandleConnected
  <2>1. UNCHANGED inWdVars
    BY <1>7 DEF Drops, HandleDisconnected, HandleErrorIgnored, HandleErrorRecovers,
                HandleErrorRestarts
  <2>2. QED
    BY <1>1, <1>4, <1>7, <2>1, DropsKeep, PeriodSame
<1>8. CASE HandleConnected
  <2>1. NoPackets'
    BY <1>1, <1>8, DropsKeep DEF Drops
  <2>2. intervals' = <<>> /\ silent' = FALSE
    BY <1>8 DEF HandleConnected, InWdReset
  <2>3. ShortIntervals'
    BY <2>2 DEF ShortIntervals
  <2>4. QED
    BY <2>1, <2>2, <2>3 DEF PeriodInv, NoPackets, IsInput
<1>9. CASE HandleInput
  <2> DEFINE age == queue[1].age
  <2>1. /\ \A i \in 1..Len(queue') : i + 1 \in 1..Len(queue) /\ queue'[i] = queue[i + 1]
        /\ Head(queue) = queue[1] /\ 1 \in 1..Len(queue) /\ IsInput(queue[1])
    BY <1>1, <1>9, InputTakes
  <2>2. OnInput(age)
    BY <1>9, <2>1 DEF HandleInput
  <2>3. age \in 0..AgeLimit /\ age <= inputAge /\ age <= MaxAway
    BY <1>1, <1>2, <1>3, <2>1 DEF AgesInv
  <2>4. /\ ~silent'
        /\ \/ haveBurst /\ UNCHANGED <<intervals, burstAge>>
           \/ intervals' = intervals /\ burstAge' = age
           \/ /\ haveBurst /\ burstAge - age \in 0..AgeLimit /\ burstAge' = age
              /\ ~(IsPeriodic /\ burstAge - age >= SilenceThreshold)
              /\ intervals' = Learned(burstAge - age)
    BY <1>1, <2>2, <2>3, OnInputOK DEF AgesInv
  <2>5. haveBurst => Exact(age)
    BY <1>3, <2>1
  <2> HIDE DEF age
  <2>6. ShortIntervals'
    <3>1. CASE intervals' = intervals
      BY <1>1, <3>1 DEF PeriodInv, ShortIntervals
    <3>2. CASE intervals' # intervals
      <4> DEFINE gap == burstAge - age
      <4>1. /\ gap \in 0..AgeLimit /\ intervals' = Learned(gap) /\ gap < device.pause
        BY <2>4, <2>5, <3>2 DEF Exact
      <4> HIDE DEF gap
      <4>2. \A i \in 1..Len(intervals') :
              \/ intervals'[i] = gap
              \/ \E j \in 1..Len(intervals) : intervals'[i] = intervals[j]
        BY <1>1, <4>1, TypedSamples
      <4>3. QED
        BY <1>1, <4>1, <4>2 DEF PeriodInv, ShortIntervals
    <3>3. QED
      BY <3>1, <3>2
  <2>7. ASSUME NEW i \in 1..Len(queue'), IsInput(queue'[i])
        PROVE  \/ burstAge' - queue'[i].age < device.pause'
               \/ IsPeriodic' /\ burstAge' - queue'[i].age >= SilenceThreshold'
    <3>1. i + 1 \in 1..Len(queue) /\ IsInput(queue[i + 1]) /\ queue'[i] = queue[i + 1]
      BY <2>1, <2>7
    <3>2. queue[i + 1].age \in Nat
      BY <1>3, <3>1
    <3>3. CASE burstAge' = age
      BY <1>1, <1>2, <2>3, <3>1, <3>2, <3>3
    <3>4. CASE burstAge' # age
      <4>1. haveBurst /\ UNCHANGED <<intervals, burstAge>>
        BY <2>4, <3>4
      <4>2. Exact(queue[i + 1].age)
        BY <1>3, <3>1, <4>1
      <4>3. (IsPeriodic' <=> IsPeriodic) /\ SilenceThreshold' = SilenceThreshold
        BY <4>1, SamePeriod
      <4>4. QED
        BY <1>1, <3>1, <4>1, <4>2, <4>3 DEF Exact
    <3>5. QED
      BY <3>3, <3>4
  <2>8. QED
    BY <2>4, <2>6, <2>7 DEF PeriodInv, Exact, IsInput
<1>10. CASE Serves
  <2>1. /\ KeepsPackets /\ queue' = queue
        /\ UNCHANGED <<intervals, haveBurst, burstAge>>
    BY <1>10, ServesKeep
  <2>2. ASSUME silent', ~silent, IsPeriodic
        PROVE  /\ burstAge >= SilenceThreshold
               /\ \A i \in 1..Len(queue) :
                    IsInput(queue[i]) => burstAge - queue[i].age >= SilenceThreshold
    <3>1. ~UNCHANGED inWdVars
      BY <1>4, <2>2
    <3>2. InWdTick(Polled) /\ pollPc = "main"
      BY <1>10, <3>1 DEF Serves, Wake, EventsDone, ServiceReturns, StartAgain, LinkRecovers,
                         SilenceRecovers, SilenceRestarts, PollDriver
    <3>3. IsSilent
      BY <2>2, <3>2 DEF InWdTick, SilenceDue
    <3>4. inputAge >= SilenceThreshold /\ haveBurst
      BY <1>1, <2>2, <3>3, PeriodicKnows DEF IsSilent, AgesInv
    <3>5. burstAge >= SilenceThreshold
      BY <1>1, <1>2, <3>4 DEF AgesInv, InWdTypeOK
    <3>6. Latest = 0
      BY <3>2 DEF Latest
    <3>7. QED
      BY <1>2, <1>3, <3>5, <3>6
  <2>3. QED
    BY <1>1, <2>1, <2>2, PeriodSame
<1>11. CASE Tick
  <2>1. /\ Len(queue') = Len(queue)
        /\ \A i \in 1..Len(queue) :
             /\ IsInput(queue'[i]) <=> IsInput(queue[i])
             /\ IsInput(queue[i]) => queue'[i].age = queue[i].age + 1
    BY <1>1, <1>11, Aged
  <2>2. claimed' = claimed
    BY <1>11 DEF Tick
  <2>3. CASE ~claimed
    <3>1. UNCHANGED inWdVars
      BY <1>11, <2>3 DEF Tick
    <3>2. KeepsPackets
      BY <1>1, <2>1, <2>3 DEF PacketInv, PacketsFirst, NoPackets, KeepsPackets
    <3>3. QED
      BY <1>1, <1>4, <3>1, <3>2, PeriodSame
  <2>4. CASE claimed
    <3>1. InWdElapse
      BY <1>11, <2>4 DEF Tick
    <3>2. /\ UNCHANGED <<intervals, haveBurst, silent>>
          /\ burstAge' = Older(burstAge, AgeLimit)
      BY <3>1 DEF InWdElapse
    <3>3. burstAge' = burstAge + 1 \/ (burstAge' = AgeLimit /\ burstAge = AgeLimit)
      BY <1>2, <3>2 DEF Older
    <3>4. (IsPeriodic' <=> IsPeriodic) /\ SilenceThreshold' = SilenceThreshold
      BY <3>2, SamePeriod
    <3>5. ASSUME NEW i \in 1..Len(queue'), IsInput(queue'[i])
          PROVE  /\ IsInput(queue[i]) /\ i \in 1..Len(queue)
                 /\ burstAge - queue[i].age < device.pause =>
                      burstAge' - queue'[i].age < device.pause
                 /\ burstAge - queue[i].age >= SilenceThreshold =>
                      burstAge' - queue'[i].age >= SilenceThreshold
      <4>1. /\ i \in 1..Len(queue) /\ IsInput(queue[i]) /\ queue[i].age \in Nat
            /\ queue'[i].age = queue[i].age + 1
        BY <1>3, <2>1, <3>5
      <4>2. queue'[i].age <= MaxAway
        <5>1. queue'[i].age <= Latest' /\ Latest' <= MaxAway /\ Latest' \in Nat
          BY <1>1, <3>5, Limits
          DEF WatchInv, AgesInv, PollTypes, PollCounts, Latest, IsInput
        <5>2. QED
          BY <1>2, <4>1, <5>1
      <4> DEFINE age == queue[i].age
                 older == queue'[i].age
                 burst == burstAge
                 burst1 == burstAge'
                 pause == device.pause
                 threshold == SilenceThreshold
      <4>3. /\ age \in Nat /\ older = age + 1 /\ older <= MaxAway
            /\ burst \in Nat /\ pause \in Nat /\ threshold \in Nat
            /\ MaxAway \in Nat /\ AgeLimit \in Nat /\ threshold + MaxAway <= AgeLimit
            /\ burst1 = burst + 1 \/ (burst1 = AgeLimit /\ burst = AgeLimit)
        BY <1>2, <3>3, <4>1, <4>2
      <4> HIDE DEF age, older, burst, burst1, pause, threshold
      <4>4. /\ burst - age < pause => burst1 - older < pause
            /\ burst - age >= threshold => burst1 - older >= threshold
        BY <4>3
      <4>5. QED
        BY <4>1, <4>4 DEF age, older, burst, burst1, pause, threshold
    <3>6. ShortIntervals'
      BY <1>1, <3>2 DEF PeriodInv, ShortIntervals
    <3>7. ASSUME NEW i \in 1..Len(queue'), IsInput(queue'[i]), haveBurst'
          PROVE  \/ burstAge' - queue'[i].age < device.pause'
                 \/ IsPeriodic' /\ burstAge' - queue'[i].age >= SilenceThreshold'
      BY <1>1, <1>3, <3>2, <3>4, <3>5, <3>7 DEF Exact
    <3>8. ASSUME silent', IsPeriodic'
          PROVE  /\ burstAge' >= SilenceThreshold'
                 /\ \A i \in 1..Len(queue') :
                      IsInput(queue'[i]) => burstAge' - queue'[i].age >= SilenceThreshold'
      <4>1. /\ burstAge >= SilenceThreshold
            /\ \A i \in 1..Len(queue) :
                 IsInput(queue[i]) => burstAge - queue[i].age >= SilenceThreshold
        BY <3>2, <3>4, <3>8 DEF PeriodInv
      <4>2. burstAge' >= SilenceThreshold
        BY <1>2, <3>3, <4>1
      <4>3. QED
        BY <3>4, <3>5, <4>1, <4>2
    <3>9. QED
      BY <3>6, <3>7, <3>8 DEF PeriodInv, Exact, IsInput
  <2>5. QED
    BY <2>3, <2>4
<1>12. CASE UNCHANGED inputVars
  <2>1. UNCHANGED inWdVars /\ queue' = queue
    BY <1>12 DEF inputVars, pollVars
  <2>2. QED
    BY <1>1, <1>4, <2>1, PeriodSame DEF KeepsPackets
<1>13. QED
  BY <1>5, <1>6, <1>7, <1>8, <1>9, <1>10, <1>11, <1>12
  DEF InputNext, PollStep, Posts, Drops, Serves

\* The packet that ends a silence does not spoil the period: its interval is at least the
\* threshold, whenever the poll task handles it, and is not learned (onInput()).
THEOREM PeriodStays ==
    ASSUME Reserved >= 2
    PROVE  InputSpec => PeriodKept
<1>1. InputInit => WatchInv /\ PeriodInv
  <2>1. InputInit => PeriodInv
    BY DEF InputInit, PeriodInv, ShortIntervals
  <2>2. QED
    BY <2>1, WatchInit
<1>2. WatchInv /\ PeriodInv /\ [InputNext]_inputVars => WatchInv' /\ PeriodInv'
  BY WatchStep, PeriodStep
<1>3. WatchInv /\ PeriodInv /\ [InputNext]_inputVars =>
        [silent /\ IsPeriodic /\ HandleInput => IsPeriodic']_inputVars
  <2> SUFFICES ASSUME WatchInv, PeriodInv, silent, IsPeriodic, HandleInput
               PROVE  IsPeriodic'
    OBVIOUS
  <2>1. /\ QueueInv /\ PathTypes /\ AgesInv /\ InWdTypeOK
    BY DEF WatchInv, PacketInv, QueueInv
  <2>2. Head(queue) = queue[1] /\ 1 \in 1..Len(queue) /\ IsInput(queue[1])
    BY <2>1, InputTakes
  <2>3. OnInput(queue[1].age)
    BY <2>2 DEF HandleInput
  <2>4. burstAge - queue[1].age >= SilenceThreshold
    BY <2>2 DEF PeriodInv
  <2>5. intervals' = intervals
    BY <2>3, <2>4 DEF OnInput
  <2>6. QED
    BY <2>5, SamePeriod
<1>4. QED
  BY <1>1, <1>2, <1>3, PTL DEF InputSpec, PeriodKept

-------------------------------------------------------------------------------
(* Packets and reports.                                                    *)

LEMMA PartsOK ==
    \A n \in Nat \ {0} :
        /\ Parts(n) \in Nat \ {0}
        /\ \A k \in Nat : /\ k < Parts(n) => Mps * k < n
                          /\ k >= Parts(n) => Mps * k >= n
<1> SUFFICES ASSUME NEW n \in Nat \ {0}
             PROVE  /\ Parts(n) \in Nat \ {0}
                    /\ \A k \in Nat : /\ k < Parts(n) => Mps * k < n
                                      /\ k >= Parts(n) => Mps * k >= n
  OBVIOUS
<1> DEFINE m == n + Mps - 1
           q == m \div Mps
<1>1. Mps \in Nat \ {0} /\ m \in Nat /\ m >= Mps
  BY ReassemblerAssumption
<1> HIDE DEF m
<1>2. q \in Nat /\ Mps * q <= m /\ m < Mps * (q + 1)
  BY <1>1
<1> HIDE DEF q
<1>3. Mps * (q + 1) = Mps * q + Mps /\ Mps * q \in Nat
  BY <1>1, <1>2
<1>4. q # 0
  BY <1>1, <1>2, <1>3
<1>5. ASSUME NEW k \in Nat, k < q PROVE Mps * k < n
  <2>1. k + 1 <= q /\ k + 1 \in Nat
    BY <1>2, <1>5
  <2>2. Mps * (k + 1) <= Mps * q
    BY <1>1, <1>2, <2>1, TimesMonotonic
  <2>3. Mps * (k + 1) = Mps * k + Mps /\ Mps * k \in Nat
    BY <1>1
  <2>4. QED
    BY <1>1, <1>2, <1>3, <2>2, <2>3 DEF m
<1>6. ASSUME NEW k \in Nat, k >= q PROVE Mps * k >= n
  <2>1. Mps * q <= Mps * k /\ Mps * k \in Nat
    BY <1>1, <1>2, <1>6, TimesMonotonic
  <2>2. QED
    BY <1>1, <1>2, <1>3, <2>1 DEF m
<1>7. Parts(n) = q
  BY DEF Parts, m, q
<1>8. QED
  BY <1>2, <1>4, <1>5, <1>6, <1>7

LEMMA FitsReport ==
    \A n \in Nat : Mps * n <= MaxReport => n <= MaxReport \div Mps
<1> SUFFICES ASSUME NEW n \in Nat, Mps * n <= MaxReport
             PROVE  n <= MaxReport \div Mps
  OBVIOUS
<1> DEFINE q == MaxReport \div Mps
<1>1. Mps \in Nat \ {0} /\ MaxReport \in Nat
  BY ReassemblerAssumption
<1>2. q \in Nat /\ MaxReport < Mps * (q + 1)
  BY <1>1
<1> HIDE DEF q
<1>3. CASE n >= q + 1
  <2>1. Mps * (q + 1) <= Mps * n /\ Mps * (q + 1) \in Nat /\ Mps * n \in Nat
    BY <1>1, <1>2, <1>3, TimesMonotonic
  <2>2. QED
    BY <1>1, <1>2, <2>1
<1>4. CASE ~(n >= q + 1)
  BY <1>2, <1>4 DEF q
<1>5. QED
  BY <1>3, <1>4

\* What the HID task posts of a report of length len: all its packets but the last are
\* full, and the first tells the length.
PartOf(p) ==
    /\ p.len \in 1..MaxReport /\ p.part \in 1..Parts(p.len)
    /\ LET left == p.len - Mps * (p.part - 1)
       IN  p.size = IF left < Mps THEN left ELSE Mps
    /\ p.part = 1 => p.expected = p.len

LEMMA PartSizes ==
    ASSUME NEW p \in Packet, PartOf(p)
    PROVE  /\ Parts(p.len) \in Nat \ {0} /\ p.part \in Nat \ {0} /\ p.len \in Nat \ {0}
           /\ p.size \in Nat /\ p.size <= Mps
           /\ p.part < Parts(p.len) => p.size = Mps /\ Mps * (p.part - 1) + Mps < p.len
           /\ p.part = Parts(p.len) => Mps * (p.part - 1) + p.size = p.len
<1> DEFINE n == Parts(p.len)
           k == p.part - 1
           left == p.len - Mps * k
<1>1. /\ Mps \in Nat \ {0} /\ p.len \in Nat \ {0} /\ n \in Nat \ {0}
      /\ p.part \in 1..n
  BY ReassemblerAssumption, PartsOK DEF PartOf
<1>2. k \in Nat /\ k < n /\ p.part = k + 1 /\ Mps * k \in Nat
      /\ Mps * (k + 1) = Mps * k + Mps
  BY <1>1
<1>3. p.size = IF left < Mps THEN left ELSE Mps
  BY DEF PartOf
<1>4. Mps * k < p.len
  BY <1>1, <1>2, PartsOK
<1>5. p.part < n => Mps * k + Mps < p.len
  BY <1>1, <1>2, PartsOK
<1>6. p.part = n => Mps * k + Mps >= p.len
  BY <1>1, <1>2, PartsOK
<1> DEFINE full == Mps * k
<1>7. full \in Nat /\ left = p.len - full
  BY <1>2
<1> HIDE DEF k, n, full
<1>8. /\ p.size \in Nat /\ p.size <= Mps
      /\ p.part < n => p.size = Mps
      /\ p.part = n => full + p.size = p.len
  BY <1>1, <1>3, <1>4, <1>5, <1>6, <1>7 DEF full
<1>9. QED
  BY <1>1, <1>5, <1>8 DEF k, n, full

-------------------------------------------------------------------------------
\* q is what a device sends after p.
Follows(q, p) ==
    IF p.part < Parts(p.len) THEN q.len = p.len /\ q.part = p.part + 1 ELSE q.part = 1

\* q goes on where the assembly is.
Fits(q) ==
    IF assembly = <<>> THEN q.part = 1 ELSE Follows(q, assembly[Len(assembly)])

Continues(q, i) == IF i > 1 THEN Follows(q, queue[i - 1]) ELSE excused \/ Fits(q)

ChainAt(i) == PartOf(queue[i]) /\ (queue[i].lost \/ Continues(queue[i], i))

\* Packets that were not lost follow each other, from the assembly over the queue to the
\* device, which starts with a report of its own after every connection.
ChainInv ==
    /\ stream.len \in 1..MaxReport /\ stream.part \in 1..Parts(stream.len)
    /\ \A i \in 1..Len(queue) : IsInput(queue[i]) => ChainAt(i)
    /\ pipe /\ ~cut => Continues(stream, Len(queue) + 1)
    /\ Pending("CONNECTED") => stream.part = 1
    /\ claimed /\ restartPending /\ ~cut => assembly = <<>> /\ NoPackets

\* Unless packets were lost, the assembly is the beginning of one report.
Aligned ==
    assembly # <<>> =>
        /\ \A i \in 1..Len(assembly) :
             assembly[i].part = i /\ assembly[i].len = assembly[1].len
        /\ assembly[1].expected = assembly[1].len
        /\ Len(assembly) < Parts(assembly[1].len)

AssemblyInv ==
    /\ assembly \in Seq(Packet) /\ assemblyAge \in 0..GapCap
    /\ assembly # <<>> => assembly[1].expected <= MaxReport
    /\ Mps * Len(assembly) <= MaxReport
    /\ excused \/ Aligned

\* The packet before the i-th of the queue, handled or not, and its age.
Before(i) == i > 1 \/ assembly # <<>>
AgeBefore(i) == IF i > 1 THEN queue[i - 1].age ELSE assemblyAge

\* What the ages tell of the time between two packets: no pause within a report, and a
\* pause that is seen however late the packets are handled.
InTime(p, before) ==
    /\ p.part > 1 /\ ~p.lost => before - p.age <= MaxGap
    /\ p.paused => before - p.age > MaxGap

HeardFor == IF heard < GapCap THEN heard ELSE GapCap

GapAt(i) ==
    /\ Before(i) => InTime(queue[i], AgeBefore(i))
    /\ queue[i].age >= HeardFor

GapsInv ==
    /\ \A i \in 1..Len(queue) : IsInput(queue[i]) => GapAt(i)
    /\ assembly # <<>> => assemblyAge >= HeardFor
    /\ pipe /\ ~cut /\ heard <= MaxGap /\ Before(Len(queue) + 1) =>
         AgeBefore(Len(queue) + 1) <= heard

\* What keeps every report whole from the device to the driver.
ReportInv == WatchInv /\ ChainInv /\ AssemblyInv /\ GapsInv /\ WholeReports

-------------------------------------------------------------------------------
(* A packet is fed to the assembly.                                        *)

\* A packet that is not excused begins a report after a pause or another report, or
\* carries on the one in the assembly.
LEMMA FedInStep ==
    ASSUME ReportInv, HandleInput, ~excused'
    PROVE  LET p == queue[1] IN
           \/ p.part = 1 /\ ~Joins(p.age)
           \/ /\ Joins(p.age) /\ Aligned
              /\ p.len = assembly[1].len /\ p.part = Len(assembly) + 1
<1> DEFINE p == queue[1]
<1>1. /\ Head(queue) = p /\ 1 \in 1..Len(queue) /\ IsInput(p) /\ p \in Packet
  BY InputTakes DEF ReportInv, WatchInv, PacketInv
<1>2. excused' = (~(p.part = 1 /\ ~Joins(p.age)) /\ (excused \/ p.lost))
  BY <1>1 DEF HandleInput
<1> SUFFICES ASSUME ~(p.part = 1 /\ ~Joins(p.age))
             PROVE  /\ Joins(p.age) /\ Aligned
                    /\ p.len = assembly[1].len /\ p.part = Len(assembly) + 1
  OBVIOUS
<1>3. ~excused /\ ~p.lost
  BY <1>2
<1>4. PartOf(p) /\ Fits(p) /\ Aligned
  BY <1>1, <1>3 DEF ReportInv, ChainInv, ChainAt, Continues, AssemblyInv
<1>5. assembly # <<>>
  <2> SUFFICES ASSUME assembly = <<>> PROVE FALSE
    OBVIOUS
  <2>1. p.part = 1 /\ ~Joins(p.age)
    BY <1>4 DEF Fits, Joins
  <2>2. QED
    BY <2>1
<1> DEFINE last == assembly[Len(assembly)]
<1>6. /\ Len(assembly) \in 1..Len(assembly) /\ Len(assembly) \in Nat
  BY <1>5 DEF ReportInv, AssemblyInv
<1>7. last.part = Len(assembly) /\ last.len = assembly[1].len
      /\ last.part < Parts(last.len)
  BY <1>4, <1>5, <1>6 DEF Aligned
<1>8. Follows(p, last)
  BY <1>4, <1>5 DEF Fits
<1>9. p.len = assembly[1].len /\ p.part = Len(assembly) + 1
  BY <1>7, <1>8 DEF Follows
<1>10. assemblyAge - p.age <= MaxGap
  <2>1. Before(1) /\ AgeBefore(1) = assemblyAge
    BY <1>5 DEF Before, AgeBefore
  <2>2. InTime(p, assemblyAge)
    BY <1>1, <2>1 DEF ReportInv, GapsInv, GapAt
  <2>3. p.part > 1
    BY <1>6, <1>9
  <2>4. QED
    BY <1>3, <2>2, <2>3 DEF InTime
<1>11. assemblyAge - p.age \in Int
  BY <1>1, ReassemblerAssumption DEF ReportInv, AssemblyInv, Packet
<1>12. Joins(p.age)
  BY <1>5, <1>10, <1>11, ReassemblerAssumption DEF Joins, Expired
<1>13. QED
  BY <1>4, <1>9, <1>12

\* A report in step ends with its last packet.
LEMMA EndsWhole ==
    ASSUME ReportInv, HandleInput, ~excused'
    PROVE  ReportEnds(queue[1], queue[1].age) <=> queue[1].part = Parts(queue[1].len)
<1> DEFINE p == queue[1]
           n == Parts(p.len)
<1>1. /\ 1 \in 1..Len(queue) /\ IsInput(p) /\ p \in Packet
  BY InputTakes DEF ReportInv, WatchInv, PacketInv
<1>2. PartOf(p)
  BY <1>1 DEF ReportInv, ChainInv, ChainAt
<1> DEFINE full == Mps * (p.part - 1)
<1>3. /\ n \in Nat /\ p.part \in Nat \ {0} /\ p.part <= n
      /\ p.len \in Nat /\ p.len <= MaxReport
      /\ p.size \in Nat /\ p.size <= Mps /\ Mps \in Nat \ {0} /\ full \in Nat
      /\ p.part < n => p.size = Mps /\ full + Mps < p.len
      /\ p.part = n => full + p.size = p.len
  <2>1. /\ n \in Nat /\ p.part \in Nat \ {0} /\ p.len \in Nat
        /\ p.size \in Nat /\ p.size <= Mps
        /\ p.part < n => p.size = Mps /\ full + Mps < p.len
        /\ p.part = n => full + p.size = p.len
    BY <1>1, <1>2, PartSizes
  <2>2. p.part \in 1..n /\ p.len \in 1..MaxReport
    BY <1>2 DEF PartOf
  <2>3. Mps \in Nat \ {0} /\ MaxReport \in Nat
    BY ReassemblerAssumption
  <2>4. full \in Nat
    BY <2>1, <2>3
  <2> HIDE DEF p, n, full
  <2>5. p.part <= n /\ p.len <= MaxReport
    BY <2>1, <2>2, <2>3
  <2>6. QED
    BY <2>1, <2>3, <2>4, <2>5
<1>4. p.part = n \/ p.part < n
  <2> HIDE DEF p, n
  <2>1. QED
    BY <1>3
<1>5. CASE p.part = 1 /\ ~Joins(p.age)
  <2>1. p.expected = p.len
    BY <1>2, <1>5 DEF PartOf
  <2>2. ReportEnds(p, p.age) <=> ~(p.size = Mps /\ p.len > p.size /\ p.len <= MaxReport)
    BY <1>5, <2>1 DEF ReportEnds
  <2>3. full = 0
    BY <1>3, <1>5
  <2>4. p.size = Mps /\ p.len > p.size /\ p.len <= MaxReport <=> p.part # n
    <3> DEFINE size == p.size
               len == p.len
               part == p.part
    <3>1. /\ size \in Nat /\ len \in Nat /\ Mps \in Nat /\ len <= MaxReport
          /\ part = n \/ part < n
          /\ part < n => size = Mps /\ 0 + Mps < len
          /\ part = n => 0 + size = len
          /\ n \in Nat /\ part \in Nat
      BY <1>3, <1>4, <2>3
    <3> HIDE DEF p, n, full, size, len, part
    <3>2. size = Mps /\ len > size /\ len <= MaxReport <=> part # n
      BY <3>1
    <3>3. QED
      BY <3>2 DEF size, len, part
  <2>5. QED
    BY <2>2, <2>4
<1>6. CASE /\ Joins(p.age) /\ Aligned
           /\ p.len = assembly[1].len /\ p.part = Len(assembly) + 1
  <2>1. assembly # <<>> /\ Head(assembly) = assembly[1] /\ Len(assembly) \in Nat
    BY <1>6 DEF Joins, ReportInv, AssemblyInv
  <2>2. Head(assembly).expected = p.len
    BY <1>6, <2>1 DEF Aligned
  <2>3. p.part - 1 = Len(assembly)
    BY <1>6, <2>1
  <2>4. ReportEnds(p, p.age) <=> Mps * (p.part - 1) + p.size >= p.len \/ p.size < Mps
    BY <1>6, <2>2, <2>3 DEF ReportEnds
  <2> DEFINE size == p.size
             len == p.len
             part == p.part
  <2>5. ReportEnds(p, p.age) <=> full + size >= len \/ size < Mps
    BY <2>4
  <2>6. /\ size \in Nat /\ len \in Nat /\ Mps \in Nat /\ size <= Mps /\ full \in Nat
        /\ part = n \/ part < n
        /\ part < n => size = Mps /\ full + Mps < len
        /\ part = n => full + size = len
        /\ n \in Nat /\ part \in Nat
    BY <1>3, <1>4
  <2>7. part = n <=> full + size >= len \/ size < Mps
    <3> HIDE DEF p, n, full, size, len, part
    <3>1. QED
      BY <2>6
  <2>8. QED
    BY <2>5, <2>7
<1>7. QED
  BY <1>5, <1>6, FedInStep

\* What is in the assembly after it was fed.
LEMMA Fed ==
    ASSUME ReportInv, HandleInput
    PROVE  LET p == queue[1] IN
           /\ assembly' \in Seq(Packet) /\ assemblyAge' \in 0..GapCap
           /\ Mps * Len(assembly') <= MaxReport
           /\ ReportEnds(p, p.age) => assembly' = <<>> /\ decoded' = ReportOf(p, p.age)
           /\ ~ReportEnds(p, p.age) =>
                /\ assembly' = ReportOf(p, p.age) /\ assemblyAge' = p.age /\ decoded' = <<>>
                /\ assembly' # <<>> /\ assembly'[Len(assembly')] = p
                /\ assembly'[1].expected <= MaxReport
           /\ Joins(p.age) =>
                /\ Len(ReportOf(p, p.age)) = Len(assembly) + 1
                /\ ReportOf(p, p.age)[Len(assembly) + 1] = p
                /\ \A i \in 1..Len(assembly) : ReportOf(p, p.age)[i] = assembly[i]
           /\ ~Joins(p.age) =>
                Len(ReportOf(p, p.age)) = 1 /\ ReportOf(p, p.age)[1] = p
<1> DEFINE p == queue[1]
<1>1. /\ Head(queue) = p /\ 1 \in 1..Len(queue) /\ IsInput(p) /\ p \in Packet
  BY InputTakes DEF ReportInv, WatchInv, PacketInv
<1>2. /\ Feed(p, p.age)
      /\ decoded' = IF ReportEnds(p, p.age) THEN ReportOf(p, p.age) ELSE <<>>
  BY <1>1 DEF HandleInput
<1>3. /\ Mps \in Nat \ {0} /\ MaxReport \in Nat \ {0} /\ GapCap \in Nat
      /\ p.size \in Nat /\ p.size <= Mps /\ p.expected \in Nat
      /\ p.age \in 0..GapCap /\ Mps * 0 <= MaxReport
  <2>1. PartOf(p)
    BY <1>1 DEF ReportInv, ChainInv, ChainAt
  <2>2. p.age <= MaxAway /\ p.age \in Nat /\ p.expected \in Nat
    <3>1. p.age <= Latest /\ Latest <= MaxAway /\ Latest \in Nat
      BY <1>1, Limits DEF ReportInv, WatchInv, AgesInv, PollTypes, PollCounts, Latest
    <3>2. p.age \in Nat /\ p.expected \in Nat
      BY <1>1 DEF Packet
    <3>3. QED
      BY <3>1, <3>2, Limits
  <2>3. MaxAway <= GapCap /\ GapCap \in Nat
    BY InputPathAssumption, ReassemblerAssumption, Limits
  <2>4. p.size \in Nat /\ p.size <= Mps
    BY <1>1, <2>1, PartSizes
  <2>5. Mps \in Nat \ {0} /\ MaxReport \in Nat \ {0} /\ MaxAway \in Nat
    BY ReassemblerAssumption, Limits
  <2>6. p.age \in 0..GapCap /\ Mps * 0 <= MaxReport
    BY <2>2, <2>3, <2>5
  <2>7. QED
    BY <2>2, <2>3, <2>4, <2>5, <2>6
<1>4. /\ assembly \in Seq(Packet) /\ Len(assembly) \in Nat
      /\ assembly # <<>> => assembly[1].expected <= MaxReport /\ Len(assembly) >= 1
                            /\ assembly[1] \in Packet
  BY DEF ReportInv, AssemblyInv
<1> DEFINE report == ReportOf(p, p.age)
<1> HIDE DEF p
<1>5. CASE Joins(p.age)
  <2>1. report = Append(assembly, p) /\ assembly # <<>>
    BY <1>5 DEF ReportOf, Joins
  <2>2. /\ report \in Seq(Packet) /\ Len(report) = Len(assembly) + 1
        /\ report[Len(assembly) + 1] = p
        /\ \A i \in 1..Len(assembly) : report[i] = assembly[i]
    BY <1>1, <1>4, <2>1
  <2>3. ASSUME ~ReportEnds(p, p.age)
        PROVE  Mps * Len(report) <= MaxReport
    <3>1. /\ ~(Mps * Len(assembly) + p.size >= assembly[1].expected) /\ ~(p.size < Mps)
      BY <1>4, <1>5, <2>1, <2>3 DEF ReportEnds
    <3>2. Mps * Len(report) = Mps * Len(assembly) + Mps /\ Mps * Len(assembly) \in Nat
      BY <1>3, <1>4, <2>2
    <3>3. assembly[1].expected \in Nat /\ assembly[1].expected <= MaxReport
      BY <1>4, <2>1 DEF Packet
    <3> DEFINE full == Mps * Len(assembly)
    <3> HIDE DEF full
    <3>4. full \in Nat /\ ~(full + p.size >= assembly[1].expected) /\ ~(p.size < Mps)
      BY <3>1, <3>2 DEF full
    <3>5. full + Mps <= MaxReport
      BY <1>3, <3>3, <3>4
    <3>6. QED
      BY <3>2, <3>5 DEF full
  <2>4. CASE ReportEnds(p, p.age)
    <3>1. assembly' = <<>> /\ assemblyAge' = 0 /\ decoded' = report
      BY <1>2, <2>4 DEF Feed
    <3>2. QED
      BY <1>3, <1>5, <2>2, <2>4, <3>1 DEF p
  <2>5. CASE ~ReportEnds(p, p.age)
    <3>1. assembly' = report /\ assemblyAge' = p.age /\ decoded' = <<>>
      BY <1>2, <2>5 DEF Feed
    <3>2. report # <<>> /\ report[Len(report)] = p /\ report[1] = assembly[1]
      BY <1>4, <2>1, <2>2
    <3>3. QED
      BY <1>3, <1>4, <1>5, <2>1, <2>2, <2>3, <2>5, <3>1, <3>2 DEF p
  <2>6. QED
    BY <2>4, <2>5
<1>6. CASE ~Joins(p.age)
  <2>1. report = <<p>>
    BY <1>6 DEF ReportOf
  <2>2. /\ report \in Seq(Packet) /\ Len(report) = 1 /\ report[1] = p /\ report # <<>>
    BY <1>1, <2>1
  <2>3. CASE ReportEnds(p, p.age)
    <3>1. assembly' = <<>> /\ assemblyAge' = 0 /\ decoded' = report
      BY <1>2, <2>3 DEF Feed
    <3>2. QED
      BY <1>3, <1>6, <2>2, <2>3, <3>1 DEF p
  <2>4. CASE ~ReportEnds(p, p.age)
    <3>1. assembly' = report /\ assemblyAge' = p.age /\ decoded' = <<>>
      BY <1>2, <2>4 DEF Feed
    <3>2. p.size = Mps /\ p.expected > p.size /\ p.expected <= MaxReport
      BY <1>6, <2>4 DEF ReportEnds
    <3>3. Mps * Len(report) <= MaxReport
      BY <1>3, <2>2, <3>2
    <3>4. QED
      BY <1>3, <1>6, <2>2, <2>4, <3>1, <3>2, <3>3 DEF p
  <2>5. QED
    BY <2>3, <2>4
<1>7. QED
  BY <1>5, <1>6

-------------------------------------------------------------------------------
(* What the device sends, and what stays as it is.                         *)

LEMMA ReportTypes ==
    ASSUME ReportInv
    PROVE  /\ PacketInv /\ QueueInv /\ PathTypes /\ PacketsFirst /\ AgesInv
           /\ ChainInv /\ AssemblyInv /\ GapsInv /\ WholeReports
           /\ Len(queue) \in Nat /\ heard \in 0..AgeLimit
           /\ stream.len \in Nat /\ stream.part \in Nat
           /\ MaxGap \in Nat /\ GapCap \in Nat /\ GapCap > MaxGap /\ MaxAway \in Nat
           /\ AgeLimit \in Nat /\ MaxGap < AgeLimit /\ MaxGap + MaxAway < GapCap
           /\ HeardFor \in 0..GapCap /\ HeardFor <= heard
           /\ heard > MaxGap => HeardFor > MaxGap
<1>1. /\ PacketInv /\ QueueInv /\ PathTypes /\ PacketsFirst /\ AgesInv
      /\ ChainInv /\ AssemblyInv /\ GapsInv /\ WholeReports
  BY DEF ReportInv, WatchInv, PacketInv, QueueInv
<1>2. Len(queue) \in Nat /\ heard \in 0..AgeLimit
  BY <1>1 DEF PathTypes, ReportInv, WatchInv, PollTypes, PollCounts
<1>3. stream.len \in Nat /\ stream.part \in Nat
  BY <1>1 DEF PathTypes
<1>4. /\ MaxGap \in Nat /\ GapCap \in Nat /\ GapCap > MaxGap /\ MaxAway \in Nat
      /\ AgeLimit \in Nat /\ MaxGap < AgeLimit /\ MaxGap + MaxAway < GapCap
  BY ReassemblerAssumption, InputPathAssumption, Limits
<1>5. /\ HeardFor \in 0..GapCap /\ HeardFor <= heard
      /\ heard > MaxGap => HeardFor > MaxGap
  BY <1>2, <1>4 DEF HeardFor
<1>6. QED
  BY <1>1, <1>2, <1>3, <1>4, <1>5

LEMMA FirstSent ==
    ASSUME PathTypes, stream' \in FirstParts
    PROVE  /\ stream'.len \in 1..MaxReport /\ stream'.part \in 1..Parts(stream'.len)
           /\ stream'.part = 1
<1>1. PICK n \in device.lengths : stream' = [len |-> n, part |-> 1]
  BY Zenon DEF FirstParts
<1>2. n \in 1..MaxReport
  BY InputPathAssumption DEF PathTypes
<1>3. Parts(n) \in Nat \ {0}
  BY <1>2, PartsOK, ReassemblerAssumption
<1>4. stream'.len = n /\ stream'.part = 1
  BY <1>1
<1>5. QED
  BY <1>2, <1>3, <1>4

LEMMA NextSent ==
    ASSUME ReportInv, stream' \in Following,
           NEW p, p.len = stream.len, p.part = stream.part
    PROVE  /\ stream'.len \in 1..MaxReport /\ stream'.part \in 1..Parts(stream'.len)
           /\ Follows(stream', p)
<1>1. CASE stream.part < Parts(stream.len)
  <2>1. stream' = [stream EXCEPT !.part = @ + 1]
    BY <1>1 DEF Following
  <2>2. stream'.len = stream.len /\ stream'.part = stream.part + 1
    BY <2>1, ReportTypes DEF PathTypes
  <2>3. stream.part \in Nat /\ stream.len \in 1..MaxReport /\ Parts(stream.len) \in Nat
    BY ReportTypes, PartsOK DEF ChainInv
  <2>4. stream'.part \in 1..Parts(stream'.len)
    BY <1>1, <2>2, <2>3
  <2>5. QED
    BY <1>1, <2>2, <2>3, <2>4 DEF Follows
<1>2. CASE ~(stream.part < Parts(stream.len))
  <2>1. stream' \in FirstParts
    BY <1>2 DEF Following
  <2>2. QED
    BY <1>2, <2>1, FirstSent, ReportTypes DEF Follows
<1>3. QED
  BY <1>1, <1>2

\* A packet that waits where it waited follows the one it followed.
LEMMA StillAt ==
    ASSUME NEW i, ChainAt(i), GapAt(i), queue'[i] = queue[i],
           i > 1 => queue'[i - 1] = queue[i - 1],
           excused => excused', UNCHANGED <<assembly, assemblyAge, heard>>
    PROVE  ChainAt(i)' /\ GapAt(i)'
<1>1. ChainAt(i)'
  BY DEF ChainAt, Continues, Fits
<1>2. GapAt(i)'
  BY DEF GapAt, Before, AgeBefore, HeardFor
<1>3. QED
  BY <1>1, <1>2

LEMMA StillKeeps ==
    ASSUME ReportInv, PacketInv', KeepsPackets,
           excused => excused', UNCHANGED <<assembly, assemblyAge, heard>>
    PROVE  \A i \in 1..Len(queue') : IsInput(queue'[i]) => ChainAt(i)' /\ GapAt(i)'
<1> SUFFICES ASSUME NEW i \in 1..Len(queue'), IsInput(queue'[i])
             PROVE  ChainAt(i)' /\ GapAt(i)'
  OBVIOUS
<1>1. i \in 1..Len(queue) /\ queue'[i] = queue[i] /\ IsInput(queue[i])
  BY DEF KeepsPackets
<1>2. ChainAt(i) /\ GapAt(i)
  BY <1>1, ReportTypes DEF ChainInv, GapsInv
<1>3. i > 1 => queue'[i - 1] = queue[i - 1]
  <2> SUFFICES ASSUME i > 1 PROVE queue'[i - 1] = queue[i - 1]
    OBVIOUS
  <2>1. i \in Nat /\ i - 1 \in 1..Len(queue') /\ i - 1 <= i
    BY <1>1, ReportTypes DEF PacketInv, QueueInv, PathTypes
  <2>2. IsInput(queue'[i - 1])
    BY <2>1 DEF PacketInv, PacketsFirst, IsInput
  <2>3. QED
    BY <2>1, <2>2 DEF KeepsPackets
<1>4. QED
  BY <1>1, <1>2, <1>3, StillAt

LEMMA StillAligned ==
    ASSUME AssemblyInv, excused => excused', UNCHANGED <<assembly, assemblyAge>>
    PROVE  AssemblyInv'
BY DEF AssemblyInv, Aligned

LEMMA StillWhole ==
    ASSUME WholeReports, excused => excused', decoded' \in {<<>>, decoded}
    PROVE  WholeReports'
BY DEF WholeReports, Whole

-------------------------------------------------------------------------------
(* Every step keeps packets and reports in step.                           *)

LEMMA ReceiveReports ==
    ASSUME ReportInv, WatchInv', NEW expected \in device.lengths \cup {0}, Receive(expected)
    PROVE  ReportInv'
<1> DEFINE packet == ReceivedPacket(expected)
<1> PICK n \in Int : n = Len(queue) + 1
  BY ReportTypes
<1>1. /\ UNCHANGED <<assembly, assemblyAge, decoded, excused, pipe, claimed, restartPending>>
      /\ pipe /\ stream' \in Following /\ heard' = 0
      /\ stream.part = 1 => expected = stream.len
  BY DEF Receive, reassemblerVars, observers
<1>2. /\ QueueInv /\ QueueInv' /\ AllPackets /\ claimed /\ ~restartPending
      /\ n \in Nat /\ n > 0 /\ Len(queue) \in Nat
  BY <1>1, ReportTypes, PipeRuns DEF WatchInv, PacketInv
<1>3. packet \in Packet /\ IsInput(packet)
  BY <1>2, ReceiveAdds
<1>4. /\ packet.len = stream.len /\ packet.part = stream.part /\ packet.expected = expected
      /\ packet.age = 0 /\ (packet.lost <=> cut \/ (stream.part > 1 /\ heard > MaxGap))
      /\ (packet.paused <=> heard > MaxGap)
      /\ LET left == stream.len - Mps * (stream.part - 1)
         IN  packet.size = IF left < Mps THEN left ELSE Mps
  BY Zenon DEF ReceivedPacket
<1>5. PartOf(packet)
  BY <1>1, <1>4, ReportTypes DEF PartOf, ChainInv
<1> HIDE DEF packet
<1>6. WholeReports' /\ AssemblyInv'
  BY <1>1, ReportTypes, StillWhole, StillAligned
<1>7. /\ stream'.len \in 1..MaxReport /\ stream'.part \in 1..Parts(stream'.len)
      /\ Follows(stream', packet)
  BY <1>1, <1>4, NextSent
<1>8. ~Pending("CONNECTED")' /\ ~restartPending'
  BY <1>1, <1>2 DEF QueueInv, Reflects
<1>9. ASSUME NEW i \in 1..Len(queue), queue'[i] = queue[i],
             i > 1 => queue'[i - 1] = queue[i - 1]
      PROVE  ChainAt(i)' /\ GapAt(i)'
  <2>1. ChainAt(i) /\ GapAt(i) /\ IsInput(queue[i])
    BY <1>2, ReportTypes DEF ChainInv, GapsInv, AllPackets
  <2>2. queue[i].age \in Nat
    BY <1>2, <2>1, WaitingPackets DEF QueueInv
  <2>3. ChainAt(i)'
    BY <1>1, <1>9, <2>1 DEF ChainAt, Continues, Fits
  <2>4. HeardFor' = 0
    BY <1>1, ReportTypes DEF HeardFor
  <2>5. GapAt(i)'
    BY <1>1, <1>9, <2>1, <2>2, <2>4 DEF GapAt, Before, AgeBefore
  <2>6. QED
    BY <2>3, <2>5
<1>10. assembly' # <<>> => assemblyAge' >= HeardFor'
  <2>1. HeardFor' = 0
    BY <1>1, ReportTypes DEF HeardFor
  <2>2. QED
    BY <1>1, <2>1, ReportTypes DEF AssemblyInv
<1>11. CASE queue' = queue /\ cut'
  <2>1. \A i \in 1..Len(queue') : ChainAt(i)' /\ GapAt(i)'
    BY <1>9, <1>11
  <2>2. ChainInv'
    BY <1>7, <1>8, <1>11, <2>1 DEF ChainInv
  <2>3. GapsInv'
    BY <1>10, <1>11, <2>1 DEF GapsInv
  <2>4. QED
    BY <1>6, <2>2, <2>3 DEF ReportInv
<1>12. CASE /\ Len(queue') = n /\ ~cut' /\ queue'[n] = packet
            /\ \A i \in 1..Len(queue) : queue'[i] = queue[i]
  <2>1. ASSUME NEW i \in 1..Len(queue)
        PROVE  ChainAt(i)' /\ GapAt(i)'
    <3>1. i > 1 => i - 1 \in 1..Len(queue)
      BY <1>2
    <3>2. QED
      BY <1>9, <1>12, <3>1
  <2>2. n > 1 => n - 1 = Len(queue) /\ n - 1 \in 1..Len(queue) /\ queue'[n - 1] = queue[n - 1]
    BY <1>2, <1>12
  <2>3. ASSUME ~packet.lost PROVE Continues(stream, n)
    BY <1>1, <1>4, <2>3, ReportTypes DEF ChainInv
  <2>4. ChainAt(n)'
    <3>1. ASSUME ~packet.lost PROVE IF n > 1 THEN Follows(packet, queue[n - 1])
                                             ELSE excused \/ Fits(packet)
      BY <1>4, <2>3, <3>1 DEF Continues, Fits, Follows
    <3>2. ASSUME ~packet.lost PROVE Continues(queue[n], n)'
      BY <1>1, <1>12, <2>2, <3>1, <3>2 DEF Continues, Fits
    <3>3. QED
      BY <1>5, <1>12, <3>2 DEF ChainAt
  <2>5. GapAt(n)'
    <3>1. Before(n)' <=> Before(n)
      BY <1>1 DEF Before
    <3>2. AgeBefore(n)' = AgeBefore(n)
      BY <1>1, <2>2 DEF AgeBefore
    <3>3. ASSUME Before(n) PROVE AgeBefore(n) \in Nat /\ AgeBefore(n) >= HeardFor
      <4>1. CASE n > 1
        <5>1. IsInput(queue[n - 1]) /\ n - 1 \in 1..Len(queue)
          BY <1>2, <2>2, <4>1 DEF AllPackets
        <5>2. queue[n - 1].age \in Nat
          BY <1>2, <5>1, WaitingPackets DEF QueueInv
        <5>3. GapAt(n - 1)
          BY <5>1, ReportTypes DEF GapsInv
        <5>4. QED
          BY <4>1, <5>2, <5>3 DEF AgeBefore, GapAt
      <4>2. CASE ~(n > 1)
        BY <3>3, <4>2, ReportTypes DEF AgeBefore, Before, GapsInv, AssemblyInv
      <4>3. QED
        BY <4>1, <4>2
    <3>4. Before(n) => InTime(packet, AgeBefore(n))
      <4> SUFFICES ASSUME Before(n) PROVE InTime(packet, AgeBefore(n))
        OBVIOUS
      <4>1. ASSUME ~packet.lost, packet.part > 1
            PROVE  AgeBefore(n) - packet.age <= MaxGap
        <5>1. ~cut /\ heard <= MaxGap
          BY <1>4, <4>1, ReportTypes
        <5>2. AgeBefore(n) <= heard
          BY <1>1, <5>1, ReportTypes DEF GapsInv
        <5>3. QED
          BY <1>4, <3>3, <5>1, <5>2, ReportTypes
      <4>2. ASSUME packet.paused PROVE AgeBefore(n) - packet.age > MaxGap
        BY <1>4, <3>3, <4>2, ReportTypes
      <4>3. QED
        BY <4>1, <4>2 DEF InTime
    <3>5. HeardFor' = 0
      BY <1>1, ReportTypes DEF HeardFor
    <3>6. QED
      BY <1>4, <1>12, <3>1, <3>2, <3>4, <3>5 DEF GapAt
  <2>6. \A i \in 1..Len(queue') : i \in 1..Len(queue) \/ i = n
    BY <1>2, <1>12
  <2>7. Len(queue') + 1 > 1 /\ Len(queue') + 1 - 1 = n
    BY <1>2, <1>12
  <2>8. Continues(stream, Len(queue) + 1)'
    <3>1. Follows(stream', queue'[Len(queue') + 1 - 1])
      BY <1>7, <1>12, <2>7
    <3>2. QED
      BY <2>7, <3>1 DEF Continues
  <2>9. ChainInv'
    BY <1>7, <1>8, <2>1, <2>4, <2>6, <2>8 DEF ChainInv
  <2>10. AgeBefore(Len(queue) + 1)' <= heard'
    BY <1>1, <1>4, <1>12, <2>7 DEF AgeBefore
  <2>11. GapsInv'
    BY <1>10, <2>1, <2>5, <2>6, <2>10 DEF GapsInv
  <2>12. QED
    BY <1>6, <2>9, <2>11 DEF ReportInv
<1>13. QED
  BY <1>2, <1>11, <1>12, ReceiveAdds DEF packet

LEMMA PostsReports ==
    ASSUME ReportInv, WatchInv', Reserved >= 2, Posts
    PROVE  ReportInv'
<1>1. /\ UNCHANGED <<assembly, assemblyAge, decoded, excused, heard, claimed, restartPending>>
      /\ PacketInv' /\ QueueInv' /\ KeepsPackets
  BY PostsKeep, ReportTypes
  DEF Posts, InError, Unplug, Plug, reassemblerVars, observers, WatchInv, PacketInv
<1>2. \A i \in 1..Len(queue') : IsInput(queue'[i]) => ChainAt(i)' /\ GapAt(i)'
  BY <1>1, StillKeeps
<1>3. WholeReports' /\ AssemblyInv'
  BY <1>1, ReportTypes, StillWhole, StillAligned
<1>4. ~pipe'
  BY ReportTypes DEF Posts, InError, Unplug, Plug, QueueInv, Reflects
<1>5. HeardFor' = HeardFor
  BY <1>1 DEF HeardFor
<1>6. GapsInv'
  BY <1>1, <1>2, <1>4, <1>5, ReportTypes DEF GapsInv
<1>7. /\ stream'.len \in 1..MaxReport /\ stream'.part \in 1..Parts(stream'.len)
      /\ Pending("CONNECTED")' => stream'.part = 1
  <2>1. CASE Plug
    BY <2>1, FirstSent, ReportTypes DEF Plug
  <2>2. CASE InError \/ Unplug
    <3>1. stream' = stream
      BY <2>2 DEF InError, Unplug
    <3>2. \/ queue' = queue
          \/ \E kind \in Lifecycle \ {"CONNECTED"} : queue' = Append(queue, [type |-> kind])
      BY <2>2 DEF InError, Unplug, PostReserved, Lifecycle
    <3>3. Pending("CONNECTED")' => Pending("CONNECTED")
      <4>1. CASE queue' = queue
        BY <4>1 DEF Pending
      <4>2. ASSUME NEW kind \in Lifecycle \ {"CONNECTED"},
                   queue' = Append(queue, [type |-> kind])
            PROVE  Pending("CONNECTED")' => Pending("CONNECTED")
        <5>1. [type |-> kind] \in Event /\ [type |-> kind].type # "CONNECTED"
          BY DEF Event
        <5>2. /\ Len(queue') = Len(queue) + 1 /\ queue'[Len(queue) + 1] = [type |-> kind]
              /\ \A i \in 1..Len(queue) : queue'[i] = queue[i]
          BY <4>2, <5>1, Appended, ReportTypes
        <5>3. \A i \in 1..Len(queue') : i \in 1..Len(queue) \/ i = Len(queue) + 1
          BY <5>2, ReportTypes
        <5>4. PathTypes'
          BY <1>1 DEF QueueInv
        <5>5. QED
          BY <5>1, <5>2, <5>3, <5>4, PendingAt, PendingAtNext, ReportTypes
      <4>3. QED
        BY <3>2, <4>1, <4>2
    <3>4. QED
      BY <3>1, <3>3, ReportTypes DEF ChainInv
  <2>3. QED
    BY <2>1, <2>2 DEF Posts
<1>8. claimed' /\ restartPending' /\ ~cut' => assembly' = <<>> /\ NoPackets'
  <2>1. claimed' => cut' = cut
    BY <1>1 DEF Posts, InError, Unplug, Plug
  <2>2. NoPackets => NoPackets'
    BY <1>1 DEF KeepsPackets, NoPackets, IsInput
  <2>3. QED
    BY <1>1, <2>1, <2>2, ReportTypes DEF ChainInv
<1>9. ChainInv'
  BY <1>2, <1>4, <1>7, <1>8 DEF ChainInv
<1>10. QED
  BY <1>3, <1>6, <1>9 DEF ReportInv

LEMMA DropsReports ==
    ASSUME ReportInv, WatchInv', Drops
    PROVE  ReportInv'
<1>1. /\ NoPackets /\ NoPackets' /\ queue # <<>> /\ queue' = Tail(queue)
      /\ \A i \in 1..Len(queue') : queue'[i] = queue[i + 1]
      /\ Len(queue') = Len(queue) - 1 /\ Len(queue) \in Nat
      /\ Head(queue) = queue[1] /\ queue[1] \in Event
  BY DropsKeep, ReportTypes
<1>2. QueueInv' /\ Len(queue) >= 1 /\ 1 \in 1..Len(queue)
  BY <1>1 DEF WatchInv, PacketInv, QueueInv, PathTypes
<1>3. ~pipe
  BY <1>1, <1>2, PipeRuns, ReportTypes DEF NoPackets, AllPackets
<1>4. Pending("CONNECTED")' => Pending("CONNECTED")
  BY <1>1, <1>2, TailPending, ReportTypes DEF QueueInv
<1>5. stream' = stream
  BY DEF Drops, HandleConnected, HandleDisconnected, HandleErrorIgnored,
         HandleErrorRecovers, HandleErrorRestarts, deviceVars
<1>6. /\ stream'.len \in 1..MaxReport /\ stream'.part \in 1..Parts(stream'.len)
      /\ Pending("CONNECTED")' => stream'.part = 1
  BY <1>4, <1>5, ReportTypes DEF ChainInv
<1>7. \A i \in 1..Len(queue') : ~IsInput(queue'[i])
  BY <1>1 DEF NoPackets, IsInput
<1>8. WholeReports'
  BY DEF Drops, HandleConnected, HandleDisconnected, HandleErrorIgnored,
         HandleErrorRecovers, HandleErrorRestarts, WholeReports
<1>9. ASSUME ~pipe', HeardFor' = HeardFor, excused => excused',
             \/ UNCHANGED <<assembly, assemblyAge>>
             \/ assembly' = <<>> /\ assemblyAge' = 0,
             claimed' /\ restartPending' /\ ~cut' => assembly' = <<>>
      PROVE  ReportInv'
  <2>1. AssemblyInv'
    <3>1. CASE UNCHANGED <<assembly, assemblyAge>>
      BY <1>9, <3>1, StillAligned, ReportTypes
    <3>2. CASE assembly' = <<>> /\ assemblyAge' = 0
      <4>1. Mps * 0 <= MaxReport /\ 0 \in 0..GapCap
        BY ReassemblerAssumption, ReportTypes
      <4>2. QED
        BY <3>2, <4>1 DEF AssemblyInv, Aligned
    <3>3. QED
      BY <1>9, <3>1, <3>2
  <2>2. assembly' # <<>> => assemblyAge' >= HeardFor'
    BY <1>9, ReportTypes DEF GapsInv
  <2>3. GapsInv'
    BY <1>7, <1>9, <2>2 DEF GapsInv
  <2>4. ChainInv'
    BY <1>1, <1>6, <1>7, <1>9 DEF ChainInv
  <2>5. QED
    BY <1>8, <2>1, <2>3, <2>4 DEF ReportInv
<1>10. CASE HandleConnected
  <2>1. /\ assembly' = <<>> /\ assemblyAge' = 0 /\ pipe' = attached /\ excused' = FALSE
        /\ claimed' = TRUE /\ restartPending' = ~attached /\ heard' = 0
        /\ Head(queue).type = "CONNECTED"
    BY <1>10 DEF HandleConnected, ReassemblerReset, NextEvent
  <2>2. Pending("CONNECTED")
    BY <1>1, <1>2, <2>1, PendingAt, ReportTypes
  <2>3. attached => queue' = <<>> /\ Len(queue') = 0
    <3> SUFFICES ASSUME attached PROVE queue' = <<>> /\ Len(queue') = 0
      OBVIOUS
    <3>1. ASSUME NEW i \in 1..Len(queue') PROVE FALSE
      <4>1. i + 1 \in 1..Len(queue) /\ i + 1 # 1 /\ queue[i + 1] \in Event
        BY <1>1, ReportTypes DEF PathTypes
      <4>2. ~IsInput(queue[i + 1]) /\ ~IsInput(queue[1])
        BY <1>1, <1>2, <4>1 DEF NoPackets
      <4>3. queue[i + 1].type \in Lifecycle
        BY <4>1, <4>2, EventKinds
      <4>4. queue[i + 1].type # "CONNECTED"
        BY <1>1, <1>2, <2>1, <4>1, <4>2, ReportTypes DEF QueueInv, Order
      <4>5. queue[i + 1].type # "DISCONNECTED" /\ queue[i + 1].type # "TRANSFER_ERROR"
        BY <2>2, <4>1, PendingAt, ReportTypes DEF QueueInv, Reflects
      <4>6. QED
        BY <4>3, <4>4, <4>5 DEF Lifecycle
    <3>2. queue' \in Seq(Event) /\ Len(queue') \in Nat
      BY <1>2 DEF QueueInv, PathTypes
    <3>3. Len(queue') = 0
      <4>1. CASE Len(queue') >= 1
        <5>1. 1 \in 1..Len(queue')
          BY <3>2, <4>1
        <5>2. QED
          BY <3>1, <5>1
      <4>2. QED
        BY <3>2, <4>1
    <3>4. QED
      BY <3>2, <3>3
  <2>4. AssemblyInv'
    <3>1. Mps * 0 <= MaxReport /\ 0 \in 0..GapCap
      BY ReassemblerAssumption, ReportTypes
    <3>2. QED
      BY <2>1, <3>1 DEF AssemblyInv, Aligned
  <2>5. pipe' => ~Before(Len(queue) + 1)' /\ Continues(stream, Len(queue) + 1)'
    <3> SUFFICES ASSUME pipe'
                 PROVE  ~Before(Len(queue) + 1)' /\ Continues(stream, Len(queue) + 1)'
      OBVIOUS
    <3>1. Len(queue') + 1 = 1 /\ stream'.part = 1
      BY <1>5, <2>1, <2>2, <2>3, ReportTypes DEF ChainInv
    <3>2. ~(Len(queue') + 1 > 1)
      BY <3>1
    <3>3. QED
      BY <2>1, <3>1, <3>2 DEF Before, Continues, Fits
  <2>6. ChainInv'
    BY <1>1, <1>6, <1>7, <2>1, <2>5 DEF ChainInv
  <2>7. GapsInv'
    BY <1>7, <2>1, <2>5 DEF GapsInv
  <2>8. QED
    BY <1>8, <2>4, <2>6, <2>7 DEF ReportInv
<1>11. CASE HandleDisconnected
  BY <1>3, <1>9, <1>11 DEF HandleDisconnected, reassemblerVars, deviceVars, HeardFor
<1>12. CASE HandleErrorIgnored \/ HandleErrorRestarts
  <2>1. UNCHANGED <<assembly, assemblyAge, pipe, cut, heard, excused, claimed, restartPending>>
    BY <1>12 DEF HandleErrorIgnored, HandleErrorRestarts, reassemblerVars, deviceVars
  <2>2. claimed' /\ restartPending' /\ ~cut' => assembly' = <<>>
    BY <2>1, ReportTypes DEF ChainInv
  <2>3. QED
    BY <1>3, <1>9, <2>1, <2>2 DEF HeardFor
<1>13. CASE HandleErrorRecovers
  BY <1>9, <1>13 DEF HandleErrorRecovers, RecoverInterface, ReassemblerReset, Straddled, HeardFor
<1>14. QED
  BY <1>10, <1>11, <1>12, <1>13 DEF Drops

LEMMA ServesReports ==
    ASSUME ReportInv, WatchInv', Serves
    PROVE  ReportInv'
<1>1. /\ queue' = queue /\ KeepsPackets /\ UNCHANGED <<claimed, heard, attached>>
      /\ PacketInv' /\ HeardFor' = HeardFor
  BY ServesKeep DEF WatchInv, HeardFor
<1>2. Pending("CONNECTED")' = Pending("CONNECTED")
  BY <1>1 DEF Pending
<1>3. CASE Wake \/ EventsDone \/ ServiceReturns \/ SilenceRestarts \/ PollDriver
  <2>1. /\ UNCHANGED <<assembly, assemblyAge, stream, cut, pipe, restartPending, excused>>
        /\ decoded' \in {<<>>, decoded}
    BY <1>3 DEF Wake, EventsDone, ServiceReturns, SilenceRestarts, PollDriver,
                reassemblerVars, deviceVars, observers
  <2>2. AssemblyInv' /\ WholeReports'
    BY <2>1, ReportTypes, StillAligned, StillWhole
  <2>3. \A i \in 1..Len(queue') : IsInput(queue'[i]) => ChainAt(i)' /\ GapAt(i)'
    BY <1>1, <2>1, StillKeeps
  <2>4. ChainInv'
    BY <1>1, <1>2, <2>1, <2>3, ReportTypes DEF ChainInv, Continues, Fits, NoPackets, IsInput
  <2>5. GapsInv'
    BY <1>1, <2>1, <2>3, ReportTypes DEF GapsInv, Before, AgeBefore
  <2>6. QED
    BY <2>2, <2>4, <2>5 DEF ReportInv
<1>4. CASE StartAgain
  <2>1. /\ UNCHANGED <<assembly, assemblyAge, decoded, excused>>
        /\ pollPc = "main" /\ claimed /\ restartPending /\ attached /\ ~restartPending'
        /\ stream' \in {stream} \cup FirstParts /\ cut' = (cut \/ stream'.part > 1)
    BY <1>4 DEF StartAgain, reassemblerVars, observers
  <2>2. AssemblyInv' /\ WholeReports'
    BY <2>1, ReportTypes, StillAligned, StillWhole
  <2>3. \A i \in 1..Len(queue') : IsInput(queue'[i]) => ChainAt(i)' /\ GapAt(i)'
    BY <1>1, <2>1, StillKeeps
  <2>4. stream'.len \in 1..MaxReport /\ stream'.part \in 1..Parts(stream'.len)
    BY <2>1, FirstSent, ReportTypes DEF ChainInv
  <2>5. \A kind \in Lifecycle : ~Pending(kind)
    BY <2>1, ReportTypes DEF QueueInv, Reflects, Lifecycle
  <2>6. ~cut' => assembly = <<>> /\ stream'.part = 1 /\ Len(queue) = 0
    <3> SUFFICES ASSUME ~cut' PROVE assembly = <<>> /\ stream'.part = 1 /\ Len(queue) = 0
      OBVIOUS
    <3>1. ~cut /\ ~(stream'.part > 1)
      BY <2>1
    <3>2. Parts(stream'.len) \in Nat
      BY <2>4, PartsOK, ReassemblerAssumption
    <3>3. stream'.part = 1
      BY <2>4, <3>1, <3>2
    <3>4. assembly = <<>> /\ NoPackets
      BY <2>1, <3>1, ReportTypes DEF ChainInv
    <3>5. ASSUME NEW i \in 1..Len(queue) PROVE FALSE
      <4>1. queue[i] \in Event /\ ~IsInput(queue[i])
        BY <3>4, ReportTypes DEF PathTypes, NoPackets
      <4>2. queue[i].type \in Lifecycle
        BY <4>1, EventKinds
      <4>3. QED
        BY <2>5, <4>2, PendingAt, ReportTypes
    <3>6. Len(queue) = 0
      <4>1. CASE Len(queue) >= 1
        BY <3>5, <4>1, ReportTypes
      <4>2. QED
        BY <4>1, ReportTypes
    <3>7. QED
      BY <3>3, <3>4, <3>6
  <2>7. ~cut' => ~Before(Len(queue) + 1)' /\ Continues(stream, Len(queue) + 1)'
    <3> SUFFICES ASSUME ~cut'
                 PROVE  ~Before(Len(queue) + 1)' /\ Continues(stream, Len(queue) + 1)'
      OBVIOUS
    <3>1. Len(queue') + 1 = 1 /\ ~(Len(queue') + 1 > 1) /\ assembly' = <<>>
      BY <1>1, <2>1, <2>6
    <3>2. QED
      BY <2>6, <3>1 DEF Before, Continues, Fits
  <2>8. ChainInv'
    BY <1>2, <2>1, <2>3, <2>4, <2>5, <2>7 DEF ChainInv, Lifecycle
  <2>9. GapsInv'
    BY <1>1, <2>1, <2>3, <2>7, ReportTypes DEF GapsInv
  <2>10. QED
    BY <2>2, <2>8, <2>9 DEF ReportInv
<1>5. CASE LinkRecovers \/ SilenceRecovers
  <2> DEFINE left == \E i \in DOMAIN queue : IsInput(queue[i])
  <2>1. /\ ~pipe' /\ assembly' = <<>> /\ assemblyAge' = 0 /\ cut' = left
        /\ excused' = (excused \/ left) /\ stream' = stream /\ decoded' = decoded
    BY <1>5 DEF LinkRecovers, SilenceRecovers, RecoverInterface, ReassemblerReset, Straddled
  <2>2. left <=> ~NoPackets
    BY ReportTypes DEF NoPackets, PathTypes
  <2> HIDE DEF left
  <2>3. WholeReports'
    BY <2>1, ReportTypes, StillWhole
  <2>4. AssemblyInv'
    <3>1. Mps * 0 <= MaxReport /\ 0 \in 0..GapCap
      BY ReassemblerAssumption, ReportTypes
    <3>2. QED
      BY <2>1, <3>1 DEF AssemblyInv, Aligned
  <2>5. ASSUME NEW i \in 1..Len(queue'), IsInput(queue'[i])
        PROVE  ChainAt(i)' /\ GapAt(i)'
    <3>1. i \in 1..Len(queue) /\ IsInput(queue[i]) /\ left
      BY <1>1, <2>2, <2>5 DEF NoPackets
    <3>2. ChainAt(i) /\ GapAt(i)
      BY <3>1, ReportTypes DEF ChainInv, GapsInv
    <3>3. ChainAt(i)'
      BY <1>1, <2>1, <3>1, <3>2 DEF ChainAt, Continues
    <3>4. GapAt(i)'
      BY <1>1, <2>1, <3>2 DEF GapAt, Before, AgeBefore
    <3>5. QED
      BY <3>3, <3>4
  <2>6. ~cut' => NoPackets'
    BY <1>1, <2>1, <2>2 DEF NoPackets, IsInput
  <2>7. ChainInv'
    BY <1>2, <2>1, <2>5, <2>6, ReportTypes DEF ChainInv
  <2>8. GapsInv'
    BY <2>1, <2>5 DEF GapsInv
  <2>9. QED
    BY <2>3, <2>4, <2>7, <2>8 DEF ReportInv
<1>6. QED
  BY <1>3, <1>4, <1>5 DEF Serves

LEMMA TickReports ==
    ASSUME ReportInv, WatchInv', Tick
    PROVE  ReportInv'
<1>1. /\ UNCHANGED <<stream, cut, pipe, claimed, restartPending, excused, decoded, assembly>>
      /\ pollPc' = "away"
  BY DEF Tick, observers, ReassemblerElapse, reassemblerVars
<1>2. /\ Len(queue') = Len(queue)
      /\ \A i \in 1..Len(queue) :
           /\ queue'[i].type = queue[i].type /\ (IsInput(queue'[i]) <=> IsInput(queue[i]))
           /\ IsInput(queue[i]) =>
                /\ queue[i] \in Packet
                /\ queue'[i].age = queue[i].age + 1
                /\ queue'[i].len = queue[i].len /\ queue'[i].part = queue[i].part
                /\ queue'[i].size = queue[i].size
                /\ queue'[i].expected = queue[i].expected
                /\ queue'[i].lost = queue[i].lost /\ queue'[i].paused = queue[i].paused
  BY Aged, ReportTypes
<1>3. PathTypes /\ PathTypes' /\ PacketsFirst
  BY ReportTypes DEF WatchInv, PacketInv, QueueInv
<1>4. \A i \in 1..Len(queue) : IsInput(queue[i]) =>
        queue[i].age \in Nat /\ queue'[i].age <= MaxAway
  <2> SUFFICES ASSUME NEW i \in 1..Len(queue), IsInput(queue[i])
               PROVE  queue[i].age \in Nat /\ queue'[i].age <= MaxAway
    OBVIOUS
  <2>1. queue[i].age \in Nat /\ queue'[i].age = queue[i].age + 1
    BY <1>2, <1>3, WaitingPackets
  <2>2. queue'[i].age <= awayAge'
    BY <1>1, <1>2 DEF WatchInv, AgesInv, Latest
  <2>3. awayAge' \in 0..MaxAway
    BY DEF WatchInv, PollTypes, PollCounts
  <2>4. QED
    BY <2>1, <2>2, <2>3, ReportTypes
<1>5. \A i \in 1..Len(queue) : i > 1 =>
        /\ i - 1 \in 1..Len(queue)
        /\ IsInput(queue[i]) => IsInput(queue[i - 1])
  <2> SUFFICES ASSUME NEW i \in 1..Len(queue), i > 1
               PROVE  /\ i - 1 \in 1..Len(queue)
                      /\ IsInput(queue[i]) => IsInput(queue[i - 1])
    OBVIOUS
  <2>1. i - 1 \in 1..Len(queue) /\ i - 1 <= i
    BY ReportTypes
  <2>2. QED
    BY <1>3, <2>1 DEF PacketsFirst
<1>6. WholeReports'
  BY <1>1, ReportTypes, StillWhole
<1>7. /\ claimed => /\ assemblyAge' = IF assembly = <<>> THEN 0 ELSE Older(assemblyAge, GapCap)
                    /\ heard' = Older(heard, AgeLimit)
      /\ ~claimed => UNCHANGED <<assemblyAge, heard>>
  BY DEF Tick, ReassemblerElapse, reassemblerVars
<1>8. /\ assemblyAge \in 0..GapCap /\ assemblyAge' \in 0..GapCap
      /\ assembly # <<>> => assemblyAge >= HeardFor
  <2>1. assemblyAge \in 0..GapCap /\ (assembly # <<>> => assemblyAge >= HeardFor)
    BY ReportTypes DEF AssemblyInv, GapsInv
  <2>2. GapCap \in Nat
    BY ReportTypes
  <2>3. assemblyAge' \in {0, assemblyAge, Older(assemblyAge, GapCap)}
    BY <1>7, Zenon
  <2>4. QED
    BY <2>1, <2>2, <2>3 DEF Older
<1>9. AssemblyInv'
  BY <1>1, <1>8, ReportTypes DEF AssemblyInv, Aligned
<1>10. ASSUME NEW i \in 1..Len(queue), IsInput(queue[i])
       PROVE  ChainAt(i)'
  <2>1. ChainAt(i)
    BY <1>10, ReportTypes DEF ChainInv
  <2>2. PartOf(queue[i]) => PartOf(queue'[i])
    BY <1>2, <1>10 DEF PartOf
  <2>3. Continues(queue[i], i) => Continues(queue[i], i)'
    <3>1. CASE i > 1
      <4>1. i - 1 \in 1..Len(queue) /\ IsInput(queue[i - 1])
        BY <1>5, <1>10, <3>1
      <4>2. Follows(queue[i], queue[i - 1]) => Follows(queue'[i], queue'[i - 1])
        BY <1>2, <1>10, <4>1 DEF Follows
      <4>3. QED
        BY <3>1, <4>2 DEF Continues
    <3>2. CASE ~(i > 1)
      <4>1. Fits(queue[i]) => Fits(queue[i])'
        BY <1>1, <1>2, <1>10 DEF Fits, Follows
      <4>2. QED
        BY <1>1, <3>2, <4>1 DEF Continues
    <3>3. QED
      BY <3>1, <3>2
  <2>4. queue'[i].lost = queue[i].lost
    BY <1>2, <1>10
  <2>5. QED
    BY <2>1, <2>2, <2>3, <2>4 DEF ChainAt
<1> PICK n \in Int : n = Len(queue) + 1
  BY ReportTypes
<1>11. pipe /\ ~cut => Continues(stream, n)'
  <2> SUFFICES ASSUME pipe, ~cut PROVE Continues(stream, n)'
    OBVIOUS
  <2>1. AllPackets /\ Continues(stream, n)
    BY PipeRuns, ReportTypes DEF ChainInv
  <2>2. CASE n > 1
    <3>1. n - 1 \in 1..Len(queue) /\ IsInput(queue[n - 1])
      BY <2>1, <2>2, ReportTypes DEF AllPackets
    <3>2. Follows(stream, queue[n - 1]) => Follows(stream', queue'[n - 1])
      BY <1>1, <1>2, <3>1 DEF Follows
    <3>3. QED
      BY <2>1, <2>2, <3>2 DEF Continues
  <2>3. CASE ~(n > 1)
    BY <1>1, <2>1, <2>3 DEF Continues, Fits
  <2>4. QED
    BY <2>2, <2>3
<1>12. Pending("CONNECTED")' => Pending("CONNECTED")
  BY <1>2, <1>3, PendingAt, PendingAtNext
<1>13. NoPackets => NoPackets'
  BY <1>2 DEF NoPackets, IsInput
<1>14. \A i \in 1..Len(queue') : i \in 1..Len(queue) /\ (IsInput(queue'[i]) => IsInput(queue[i]))
  BY <1>2
<1>15. ChainInv'
  <2>1. \A i \in 1..Len(queue') : IsInput(queue'[i]) => ChainAt(i)'
    BY <1>10, <1>14
  <2>2. Len(queue') + 1 = n
    BY <1>2
  <2>3. pipe' /\ ~cut' => Continues(stream, Len(queue) + 1)'
    BY <1>1, <1>11, <2>2
  <2>4. QED
    BY <1>1, <1>12, <1>13, <2>1, <2>3, ReportTypes DEF ChainInv
<1>16. CASE ~claimed
  <2>1. NoPackets /\ NoPackets' /\ ~pipe'
    BY <1>1, <1>3, <1>13, <1>16, PipeRuns, ReportTypes DEF PacketsFirst
  <2>2. HeardFor' = HeardFor /\ assemblyAge' = assemblyAge
    BY <1>7, <1>16 DEF HeardFor
  <2>3. GapsInv'
    BY <1>1, <1>8, <2>1, <2>2 DEF GapsInv, NoPackets
  <2>4. QED
    BY <1>6, <1>9, <1>15, <2>3 DEF ReportInv
<1>17. CASE claimed
  <2>1. /\ heard' \in Nat /\ heard' <= heard + 1
        /\ heard' <= MaxGap => heard' = heard + 1 /\ heard <= MaxGap
    <3>1. /\ heard' = Older(heard, AgeLimit) /\ heard \in 0..AgeLimit
          /\ AgeLimit \in Nat /\ MaxGap \in Nat /\ MaxGap < AgeLimit
      BY <1>7, <1>17, ReportTypes
    <3>2. QED
      BY <3>1 DEF Older
  <2>2. /\ HeardFor' \in Nat /\ HeardFor' <= GapCap
        /\ HeardFor >= GapCap \/ HeardFor' <= HeardFor + 1
    BY <2>1, ReportTypes DEF HeardFor
  <2>3. assembly # <<>> =>
          /\ assemblyAge < GapCap => assemblyAge' = assemblyAge + 1
          /\ assemblyAge = GapCap => assemblyAge' = GapCap
    BY <1>7, <1>8, <1>17, OlderOK, ReportTypes
  <2>4. assembly # <<>> => assemblyAge' >= HeardFor' /\ assemblyAge' <= assemblyAge + 1
    BY <1>8, <2>2, <2>3, ReportTypes
  <2>5. ASSUME NEW i \in 1..Len(queue), IsInput(queue[i])
        PROVE  GapAt(i)'
    <3>1. GapAt(i)
      BY <2>5, ReportTypes DEF GapsInv
    <3>2. /\ queue[i].age \in Nat /\ queue'[i].age = queue[i].age + 1
          /\ queue'[i].age <= MaxAway
      BY <1>2, <1>4, <2>5
    <3>3. queue'[i].age >= HeardFor'
      BY <2>2, <3>1, <3>2, ReportTypes DEF GapAt
    <3>4. CASE i > 1
      <4>1. i - 1 \in 1..Len(queue) /\ IsInput(queue[i - 1])
        BY <1>5, <2>5, <3>4
      <4>2. queue'[i - 1].age = queue[i - 1].age + 1 /\ queue[i - 1].age \in Nat
        BY <1>2, <1>4, <4>1
      <4>3. InTime(queue[i], queue[i - 1].age)
        BY <3>1, <3>4 DEF GapAt, Before, AgeBefore
      <4>4. InTime(queue'[i], queue'[i - 1].age)
        <5>1. queue'[i - 1].age - queue'[i].age = queue[i - 1].age - queue[i].age
          BY <3>2, <4>2
        <5>2. QED
          BY <1>2, <2>5, <4>3, <5>1 DEF InTime
      <4>5. QED
        BY <3>3, <3>4, <4>4 DEF GapAt, Before, AgeBefore
    <3>5. CASE ~(i > 1)
      <4>1. assembly # <<>> => InTime(queue[i], assemblyAge)
        BY <3>1, <3>5 DEF GapAt, Before, AgeBefore
      <4>2. ASSUME assembly # <<>> PROVE InTime(queue'[i], assemblyAge')
        <5>1. CASE assemblyAge < GapCap
          <6>1. assemblyAge' - queue'[i].age = assemblyAge - queue[i].age
            <7>1. assemblyAge' = assemblyAge + 1 /\ assemblyAge \in Int
              BY <1>8, <2>3, <4>2, <5>1, ReportTypes
            <7>2. QED
              BY <3>2, <7>1
          <6>2. QED
            BY <1>2, <2>5, <4>1, <4>2, <6>1 DEF InTime
        <5>2. CASE assemblyAge = GapCap
          <6>1. /\ assemblyAge' - queue'[i].age <= assemblyAge - queue[i].age
                /\ assemblyAge' - queue'[i].age > MaxGap
            BY <2>3, <3>2, <4>2, <5>2, ReportTypes
          <6>2. /\ assemblyAge' - queue'[i].age \in Int /\ assemblyAge - queue[i].age \in Int
                /\ MaxGap \in Nat
            BY <1>8, <3>2, ReportTypes
          <6>3. ASSUME queue'[i].part > 1 /\ ~queue'[i].lost
                PROVE  assemblyAge' - queue'[i].age <= MaxGap
            <7>1. assemblyAge - queue[i].age <= MaxGap
              BY <1>2, <2>5, <4>1, <4>2, <6>3 DEF InTime
            <7>2. QED
              BY <6>1, <6>2, <7>1
          <6>4. QED
            BY <6>1, <6>3 DEF InTime
        <5>3. QED
          BY <1>8, <5>1, <5>2, ReportTypes
      <4>3. QED
        BY <1>1, <3>3, <3>5, <4>2 DEF GapAt, Before, AgeBefore
    <3>6. QED
      BY <3>4, <3>5
  <2>6. pipe /\ ~cut /\ heard' <= MaxGap /\ Before(n)' => AgeBefore(n)' <= heard'
    <3> SUFFICES ASSUME pipe, ~cut, heard' <= MaxGap, Before(n)'
                 PROVE  AgeBefore(n)' <= heard'
      OBVIOUS
    <3>1. AllPackets
      BY PipeRuns, ReportTypes
    <3>2. Before(n) => AgeBefore(n) <= heard
      BY <2>1, ReportTypes DEF GapsInv
    <3>3. CASE n > 1
      <4>1. n - 1 \in 1..Len(queue) /\ IsInput(queue[n - 1])
        BY <3>1, <3>3, ReportTypes DEF AllPackets
      <4>2. queue'[n - 1].age = queue[n - 1].age + 1 /\ queue[n - 1].age \in Nat
        BY <1>2, <1>4, <4>1
      <4>3. queue[n - 1].age <= heard
        BY <3>2, <3>3 DEF Before, AgeBefore
      <4>4. QED
        BY <2>1, <3>3, <4>2, <4>3, ReportTypes DEF AgeBefore
    <3>4. CASE ~(n > 1)
      <4>1. assembly # <<>> /\ assemblyAge <= heard
        BY <1>1, <3>2, <3>4 DEF Before, AgeBefore
      <4>2. assemblyAge' <= heard'
        BY <1>8, <2>1, <2>4, <4>1, ReportTypes
      <4>3. QED
        BY <3>4, <4>2 DEF AgeBefore
    <3>5. QED
      BY <3>3, <3>4
  <2>7. GapsInv'
    <3>1. \A i \in 1..Len(queue') : IsInput(queue'[i]) => GapAt(i)'
      BY <1>14, <2>5
    <3>2. Len(queue') + 1 = n
      BY <1>2
    <3>3. pipe' /\ ~cut' /\ heard' <= MaxGap /\ Before(Len(queue) + 1)' =>
            AgeBefore(Len(queue) + 1)' <= heard'
      BY <1>1, <2>6, <3>2
    <3>4. QED
      BY <1>1, <2>4, <3>1, <3>3 DEF GapsInv
  <2>8. QED
    BY <1>6, <1>9, <1>15, <2>7 DEF ReportInv
<1>18. QED
  BY <1>16, <1>17

\* What a packet in step leaves in the assembly, and what it completes.
LEMMA FedWhole ==
    ASSUME ReportInv, HandleInput, ~excused'
    PROVE  Aligned' /\ (decoded' # <<>> => Whole(decoded'))
<1> DEFINE p == queue[1]
           report == ReportOf(p, p.age)
<1>1. IsInput(p) /\ 1 \in 1..Len(queue) /\ p \in Packet
  BY InputTakes, ReportTypes
<1>2. PartOf(p)
  BY <1>1, ReportTypes DEF ChainInv, ChainAt
<1>3. /\ Parts(p.len) \in Nat \ {0} /\ p.part \in Nat \ {0} /\ p.part <= Parts(p.len)
      /\ p.part = 1 => p.expected = p.len
  <2>1. Parts(p.len) \in Nat \ {0} /\ p.part \in Nat \ {0}
    BY <1>1, <1>2, PartSizes
  <2>2. p.part \in 1..Parts(p.len) /\ (p.part = 1 => p.expected = p.len)
    BY <1>2 DEF PartOf
  <2>3. QED
    BY <2>1, <2>2
<1>4. /\ Len(report) = p.part /\ Len(report) \in Nat /\ Len(report) >= 1
      /\ \A i \in 1..Len(report) : report[i].part = i /\ report[i].len = p.len
      /\ report[1].expected = p.len
  <2>1. CASE p.part = 1 /\ ~Joins(p.age)
    <3>1. Len(report) = 1 /\ report[1] = p
      BY <2>1, Fed
    <3>2. \A i \in 1..Len(report) : i = 1
      BY <3>1
    <3>3. QED
      BY <1>3, <2>1, <3>1, <3>2
  <2>2. CASE /\ Joins(p.age) /\ Aligned
             /\ p.len = assembly[1].len /\ p.part = Len(assembly) + 1
    <3>1. /\ Len(report) = Len(assembly) + 1 /\ report[Len(assembly) + 1] = p
          /\ \A i \in 1..Len(assembly) : report[i] = assembly[i]
      BY <2>2, Fed
    <3>2. Len(assembly) \in Nat /\ assembly # <<>> /\ Len(assembly) >= 1
      BY <2>2, ReportTypes DEF Joins, AssemblyInv
    <3>3. /\ assembly[1].expected = assembly[1].len
          /\ \A i \in 1..Len(assembly) :
               assembly[i].part = i /\ assembly[i].len = assembly[1].len
      BY <2>2, <3>2 DEF Aligned
    <3>4. \A i \in 1..Len(report) : i \in 1..Len(assembly) \/ i = Len(assembly) + 1
      BY <3>1, <3>2
    <3>5. 1 \in 1..Len(assembly)
      BY <3>2
    <3>6. report[1].expected = p.len
      BY <2>2, <3>1, <3>3, <3>5
    <3>7. \A i \in 1..Len(report) : report[i].part = i /\ report[i].len = p.len
      BY <2>2, <3>1, <3>3, <3>4
    <3>8. Len(report) = p.part /\ Len(report) \in Nat /\ Len(report) >= 1
      BY <2>2, <3>1, <3>2
    <3>9. QED
      BY <3>6, <3>7, <3>8
  <2>3. QED
    BY <2>1, <2>2, FedInStep
<1>5. ReportEnds(p, p.age) <=> p.part = Parts(p.len)
  BY EndsWhole
<1>6. 1 \in 1..Len(report) /\ report[1].len = p.len
  BY <1>4
<1>7. CASE ReportEnds(p, p.age)
  <2>1. assembly' = <<>> /\ decoded' = report
    BY <1>7, Fed
  <2>2. Whole(report)
    <3>1. Len(report) = Parts(report[1].len)
      BY <1>4, <1>5, <1>6, <1>7
    <3>2. report \in Seq(Packet)
      <4>1. assembly \in Seq(Packet)
        BY ReportTypes DEF AssemblyInv
      <4>2. QED
        BY <1>1, <4>1 DEF ReportOf
    <3>3. DOMAIN report = 1..Len(report)
      BY <3>2
    <3> HIDE DEF report
    <3>4. QED
      BY <1>4, <1>6, <3>1, <3>3 DEF Whole
  <2>3. QED
    BY <2>1, <2>2 DEF Aligned
<1>8. CASE ~ReportEnds(p, p.age)
  <2>1. assembly' = report /\ decoded' = <<>>
    BY <1>8, Fed
  <2>2. Len(report) < Parts(report[1].len)
    BY <1>3, <1>4, <1>5, <1>6, <1>8
  <2> HIDE DEF report
  <2>3. Aligned'
    BY <1>4, <1>6, <2>1, <2>2 DEF Aligned
  <2>4. QED
    BY <2>1, <2>3
<1>9. QED
  BY <1>7, <1>8

\* The packet behind it still follows.
LEMMA FedFollows ==
    ASSUME ReportInv, HandleInput, NEW q, Follows(q, queue[1])
    PROVE  excused' \/ IF assembly' = <<>> THEN q.part = 1
                       ELSE Follows(q, assembly'[Len(assembly')])
<1> SUFFICES ASSUME ~excused'
             PROVE  IF assembly' = <<>> THEN q.part = 1
                    ELSE Follows(q, assembly'[Len(assembly')])
  OBVIOUS
<1> DEFINE p == queue[1]
<1>1. ReportEnds(p, p.age) <=> p.part = Parts(p.len)
  BY EndsWhole
<1>2. CASE ReportEnds(p, p.age)
  <2>1. assembly' = <<>> /\ p.part = Parts(p.len)
    BY <1>1, <1>2, Fed
  <2>2. ~(p.part < Parts(p.len))
    <3>1. IsInput(p) /\ 1 \in 1..Len(queue) /\ p \in Packet
      BY InputTakes, ReportTypes
    <3>2. PartOf(p)
      BY <3>1, ReportTypes DEF ChainInv, ChainAt
    <3>3. p.part \in Nat
      BY <3>1, <3>2, PartSizes
    <3>4. QED
      BY <2>1, <3>3
  <2>3. QED
    BY <2>1, <2>2 DEF Follows
<1>3. CASE ~ReportEnds(p, p.age)
  BY <1>3, Fed
<1>4. QED
  BY <1>2, <1>3

LEMMA InputReports ==
    ASSUME ReportInv, WatchInv', HandleInput
    PROVE  ReportInv'
<1> DEFINE p == queue[1]
<1>1. /\ UNCHANGED <<stream, cut, pipe, heard, claimed, restartPending>> /\ claimed
      /\ HeardFor' = HeardFor
  BY DEF HandleInput, deviceVars, HeardFor
<1>2. /\ Len(queue) \in Nat /\ Len(queue) >= 1 /\ Len(queue') = Len(queue) - 1
      /\ \A i \in 1..Len(queue') : i + 1 \in 1..Len(queue) /\ queue'[i] = queue[i + 1]
      /\ 1 \in 1..Len(queue) /\ IsInput(p) /\ p \in Packet
  BY InputTakes, ReportTypes
<1>3. /\ assembly' \in Seq(Packet) /\ assemblyAge' \in 0..GapCap
      /\ Mps * Len(assembly') <= MaxReport
      /\ assembly' # <<>> =>
           assemblyAge' = p.age /\ assembly'[1].expected <= MaxReport
  BY Fed
<1>4. AssemblyInv' /\ WholeReports'
  BY <1>3, FedWhole DEF AssemblyInv, WholeReports
<1>5. ASSUME NEW i \in 1..Len(queue'), IsInput(queue'[i])
      PROVE  ChainAt(i)' /\ GapAt(i)'
  <2>1. /\ i \in Nat /\ i >= 1 /\ i + 1 \in 1..Len(queue) /\ i + 1 > 1 /\ i + 1 - 1 = i
        /\ queue'[i] = queue[i + 1] /\ IsInput(queue[i + 1])
    BY <1>2, <1>5
  <2>2. /\ PartOf(queue[i + 1])
        /\ queue[i + 1].lost \/ Follows(queue[i + 1], queue[i])
        /\ InTime(queue[i + 1], queue[i].age) /\ queue[i + 1].age >= HeardFor
    BY <2>1, ReportTypes DEF ChainInv, ChainAt, Continues, GapsInv, GapAt, Before, AgeBefore
  <2>3. CASE i > 1
    <3>1. i - 1 \in 1..Len(queue') /\ i - 1 + 1 = i
      BY <1>2, <2>1, <2>3
    <3>2. queue'[i - 1] = queue[i]
      BY <1>2, <3>1
    <3>3. QED
      BY <1>1, <2>1, <2>2, <2>3, <3>2
      DEF ChainAt, Continues, GapAt, Before, AgeBefore
  <2>4. CASE i = 1
    <3>1. queue'[i].lost \/ excused' \/ IF assembly' = <<>> THEN queue'[i].part = 1
                             ELSE Follows(queue'[i], assembly'[Len(assembly')])
      BY <2>1, <2>2, <2>4, FedFollows
    <3>2. ~(i > 1)
      BY <2>4
    <3>3. ChainAt(i)'
      BY <2>1, <2>2, <3>1, <3>2 DEF ChainAt, Continues, Fits
    <3>4. assembly' # <<>> => InTime(queue'[i], assemblyAge')
      BY <1>3, <2>1, <2>2, <2>4
    <3>5. GapAt(i)'
      BY <1>1, <2>1, <2>2, <3>2, <3>4 DEF GapAt, Before, AgeBefore
    <3>6. QED
      BY <3>3, <3>5
  <2>5. QED
    BY <2>1, <2>3, <2>4
<1> PICK n \in Int : n = Len(queue') + 1
  BY <1>2
<1>6. n = Len(queue) /\ n \in 1..Len(queue) /\ (n > 1 => n - 1 \in 1..Len(queue'))
  BY <1>2
<1>7. n > 1 => queue'[n - 1] = queue[n]
  <2> SUFFICES ASSUME n > 1 PROVE queue'[n - 1] = queue[n]
    OBVIOUS
  <2>1. queue'[n - 1] = queue[n - 1 + 1] /\ n - 1 + 1 = n
    BY <1>2, <1>6
  <2>2. QED
    BY <2>1
<1>8. pipe /\ ~cut => Continues(stream, n)'
  <2> SUFFICES ASSUME pipe, ~cut PROVE Continues(stream, n)'
    OBVIOUS
  <2>1. Follows(stream', queue[n])
    <3>1. Continues(stream, Len(queue) + 1)
      BY ReportTypes DEF ChainInv
    <3>2. Len(queue) + 1 > 1 /\ Len(queue) + 1 - 1 = n
      BY <1>2, <1>6
    <3>3. QED
      BY <1>1, <3>1, <3>2 DEF Continues
  <2>2. CASE n > 1
    BY <1>7, <2>1, <2>2 DEF Continues
  <2>3. CASE ~(n > 1)
    <3>1. n = 1
      BY <1>6, <2>3
    <3>2. excused' \/ IF assembly' = <<>> THEN stream'.part = 1
                      ELSE Follows(stream', assembly'[Len(assembly')])
      BY <2>1, <3>1, FedFollows
    <3>3. QED
      BY <2>3, <3>2 DEF Continues, Fits
  <2>4. QED
    BY <2>2, <2>3
<1>9. pipe /\ ~cut /\ heard' <= MaxGap /\ Before(n)' => AgeBefore(n)' <= heard'
  <2> SUFFICES ASSUME pipe, ~cut, heard' <= MaxGap, Before(n)'
               PROVE  AgeBefore(n)' <= heard'
    OBVIOUS
  <2>1. queue[n].age <= heard
    <3>1. Len(queue) + 1 > 1 /\ Len(queue) + 1 - 1 = n
      BY <1>2, <1>6
    <3>2. Before(Len(queue) + 1) /\ AgeBefore(Len(queue) + 1) = queue[n].age
      BY <3>1 DEF Before, AgeBefore
    <3>3. QED
      BY <1>1, <3>2, ReportTypes DEF GapsInv
  <2>2. CASE n > 1
    BY <1>1, <1>7, <2>1, <2>2 DEF AgeBefore
  <2>3. CASE ~(n > 1)
    <3>1. n = 1 /\ assembly' # <<>>
      BY <1>6, <2>3 DEF Before
    <3>2. QED
      BY <1>1, <1>3, <2>1, <2>3, <3>1 DEF AgeBefore
  <2>4. QED
    BY <2>2, <2>3
<1>10. ~Pending("CONNECTED")'
  BY <1>1 DEF WatchInv, PacketInv, QueueInv, Reflects
<1>11. restartPending => cut
  BY <1>1, <1>2, ReportTypes DEF ChainInv, NoPackets
<1>12. ChainInv'
  <2>1. pipe' /\ ~cut' => Continues(stream, Len(queue) + 1)'
    BY <1>1, <1>8
  <2>2. QED
    BY <1>1, <1>5, <1>10, <1>11, <2>1, ReportTypes DEF ChainInv
<1>13. GapsInv'
  <2>1. p.age >= HeardFor
    BY <1>2, ReportTypes DEF GapsInv, GapAt
  <2>2. pipe' /\ ~cut' /\ heard' <= MaxGap /\ Before(Len(queue) + 1)' =>
          AgeBefore(Len(queue) + 1)' <= heard'
    BY <1>1, <1>9
  <2>3. QED
    BY <1>1, <1>3, <1>5, <2>1, <2>2 DEF GapsInv
<1>14. QED
  BY <1>4, <1>12, <1>13 DEF ReportInv

LEMMA ReportStep ==
    ASSUME ReportInv, Reserved >= 2, [InputNext]_inputVars
    PROVE  ReportInv'
<1>1. WatchInv'
  BY WatchStep DEF ReportInv
<1>2. CASE UNCHANGED inputVars
  BY <1>1, <1>2
  DEF inputVars, reassemblerVars, deviceVars, pollVars, observers, ReportInv, ChainInv, ChainAt,
      Continues, Fits, NoPackets, Pending, AssemblyInv, Aligned, GapsInv, GapAt, Before,
      AgeBefore, HeardFor, WholeReports, Whole
<1>3. QED
  BY <1>1, <1>2, ReceiveReports, PostsReports, DropsReports, InputReports, ServesReports,
     TickReports
  DEF InputNext, PollStep, Posts, Drops, Serves

LEMMA ReportInit == InputInit => ReportInv
<1> SUFFICES ASSUME InputInit PROVE ReportInv
  OBVIOUS
<1>1. WatchInv
  BY WatchInit
<1>2. /\ queue = <<>> /\ Len(queue) = 0 /\ assembly = <<>> /\ assemblyAge = 0 /\ ~pipe
      /\ ~claimed /\ decoded = <<>>
  BY DEF InputInit
<1>3. stream.len \in 1..MaxReport /\ stream.part \in 1..Parts(stream.len) /\ stream.part = 1
  <2>1. PICK k \in device.lengths : stream = [len |-> k, part |-> 1]
    BY Zenon DEF InputInit, FirstParts
  <2>2. k \in 1..MaxReport
    BY InputPathAssumption DEF InputInit
  <2>3. Parts(k) \in Nat \ {0}
    BY <2>2, PartsOK, ReassemblerAssumption
  <2>4. stream.len = k /\ stream.part = 1
    BY <2>1
  <2>5. QED
    BY <2>2, <2>3, <2>4
<1>4. ChainInv
  BY <1>2, <1>3 DEF ChainInv, NoPackets
<1>5. AssemblyInv
  <2>1. Mps * 0 <= MaxReport /\ 0 \in 0..GapCap
    BY ReassemblerAssumption
  <2>2. QED
    BY <1>2, <2>1 DEF AssemblyInv, Aligned
<1>6. GapsInv
  BY <1>2 DEF GapsInv
<1>7. QED
  BY <1>1, <1>2, <1>4, <1>5, <1>6 DEF ReportInv, WholeReports

\* Every report that is decoded is one report, all of it, unless packets of it were lost;
\* the queue keeps its order and no variable leaves its type (processInputReport(),
\* InputReassembler::feed()).
THEOREM ReportsWhole ==
    ASSUME Reserved >= 2
    PROVE  InputSpec => []InputInv
<1>1. ReportInv => InputInv
  <2> SUFFICES ASSUME ReportInv PROVE InputInv
    OBVIOUS
  <2>1. InWdTypeOK /\ PollFlags /\ PollCounts
    BY DEF ReportInv, WatchInv, PollTypes
  <2>2. Len(assembly) <= MaxReport \div Mps /\ assemblyAge \in 0..GapCap
    BY FitsReport, ReportTypes DEF AssemblyInv
  <2>3. stream.part \in 1..Parts(stream.len) /\ cut \in BOOLEAN
    BY ReportTypes DEF ChainInv, PathTypes
  <2>4. /\ Len(queue) <= QueueLen
        /\ \A i \in DOMAIN queue : IsInput(queue[i]) => i <= QueueLen - Reserved
    <3>1. DOMAIN queue = 1..Len(queue) /\ QueueLen \in Nat /\ Reserved \in Nat
      BY Limits, ReportTypes DEF PathTypes
    <3>2. QED
      BY <3>1, ReportTypes DEF QueueInv, Order
  <2>5. {attached, pipe, cut, claimed, restartPending, restartRequested,
         listsBuilt, excused} \subseteq BOOLEAN
    BY <2>1, <2>3, Zenon DEF PollFlags
  <2>6. QED
    BY <2>1, <2>2, <2>3, <2>4, <2>5, ReportTypes
    DEF InputInv, InputTypeOK, PollFlags, PollCounts
<1>2. ReportInv /\ [InputNext]_inputVars => ReportInv'
  BY ReportStep
<1>3. QED
  BY <1>1, <1>2, ReportInit, PTL DEF InputSpec

\* The first packet of a report that comes after a pause starts afresh, whatever was lost
\* before it and however late the poll task handles it (InputReassembler::feed()).
THEOREM AlignsAfterLoss ==
    ASSUME Reserved >= 2
    PROVE  InputSpec => AlignsAgain
<1>1. ReportInv /\ [InputNext]_inputVars =>
        [HandleInput /\ Head(queue).part = 1 /\ Head(queue).paused => ~excused']_inputVars
  <2> SUFFICES ASSUME ReportInv, HandleInput, Head(queue).part = 1, Head(queue).paused
               PROVE  ~excused'
    OBVIOUS
  <2> DEFINE p == queue[1]
  <2>1. Head(queue) = p /\ 1 \in 1..Len(queue) /\ IsInput(p) /\ p \in Packet
    BY InputTakes, ReportTypes
  <2>2. GapAt(1)
    BY <2>1, ReportTypes DEF GapsInv
  <2>3. assembly # <<>> => assemblyAge - p.age > MaxGap
    BY <2>1, <2>2 DEF GapAt, Before, AgeBefore, InTime
  <2>4. ~Joins(p.age)
    BY <2>3 DEF Joins, Expired
  <2>5. QED
    BY <2>1, <2>4 DEF HandleInput
<1>2. ReportInv /\ [InputNext]_inputVars => ReportInv'
  BY ReportStep
<1>3. QED
  BY <1>1, <1>2, ReportInit, PTL DEF InputSpec, AlignsAgain

===============================================================================
