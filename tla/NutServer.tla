------------------------------- MODULE NutServer -------------------------------
(***************************************************************************)
(* The NUT server (lib/NUTServer/src/NUTServer.cpp) in the loopTask: the   *)
(* client slots with their session state, the commands that change it, and *)
(* what SET VAR and INSTCMD reach: the driver-side variables and the table *)
(* of tracked outcomes.  A line is one command, which may come in two      *)
(* pieces; the queries (VER, LIST, GET VAR, ...) are one input, "query".   *)
(* One pass of loop() reads one input of each client.                      *)
(***************************************************************************)
EXTENDS NutTracking, DriverVars

CONSTANTS
    Conn,          \* the TCP connections of the clients
    NoConn,        \* no connection: the slot is not active
    MaxClients,    \* NUT_MAX_CLIENTS
    IdleTimeout,   \* NUT_TIMEOUT_MS, in ticks
    Workloads      \* the clients, what they may send, and whether credentials are set

ASSUME NutAssumption ==
    /\ NoConn \notin Conn
    /\ MaxClients \in Nat \ {0} /\ IdleTimeout \in Nat
    /\ Workloads \subseteq [authRequired : BOOLEAN, clients : SUBSET Conn, inputs : SUBSET STRING]

VARIABLES
    peers,     \* the connections as the clients see them
    slots,     \* the client slots
    turn,      \* 0: cleanup and accept; i: slot i
    workload,  \* the element of Workloads this behaviour has
    said,      \* observer: what each connection has said since it was accepted
    silent     \* observer: accepted connections whose client is gone for good

sessionVars == <<peers, slots, turn, workload, said, silent>>
nutVars == <<sessionVars, trackingVars, valueVars>>

NutSlot == 1..MaxClients

\* _clients[i] and the other arrays at i.  A slot is active iff it has a connection.
FreeSlot == [conn |-> NoConn, age |-> 0, username |-> "", passwordSet |-> FALSE,
             authenticated |-> FALSE, tracking |-> FALSE, line |-> {}]

Sessions == [conn : Conn, age : 0..IdleTimeout + 1, username : {"", "right", "wrong"},
             passwordSet : BOOLEAN, authenticated : BOOLEAN, tracking : BOOLEAN,
             line : SUBSET Conn]

Facts == {"username", "password", "proof", "tracking"}

NutTypeOK ==
    /\ TrackingTypeOK /\ ValuesTypeOK
    /\ peers \in [Conn -> {"away", "queued", "open", "closed"}]
    /\ slots \in [NutSlot -> Sessions \cup {FreeSlot}]
    /\ turn \in 0..MaxClients
    /\ workload \in Workloads
    /\ said \in [Conn -> SUBSET Facts]
    /\ silent \subseteq Conn

NutInit ==
    /\ TrackingInit /\ ValuesInit
    /\ peers = [c \in Conn |-> "away"]
    /\ slots = [i \in NutSlot |-> FreeSlot]
    /\ turn = 0
    /\ workload \in Workloads
    /\ said = [c \in Conn |-> {}]
    /\ silent = {}

------------------------------------------------------------------------------
Active(i) == slots[i].conn # NoConn

\* The slot served after slot i: an inactive one has nothing to do.
TurnAfter(i) ==
    LET later == {j \in NutSlot : j > i /\ Active(j)}
    IN  IF later = {} THEN 0 ELSE CHOOSE j \in later : \A k \in later : j <= k

\* Not active, or its client has closed the connection.
SlotFree(i) == Active(i) => peers[slots[i].conn] = "closed"

Opened(c) == [FreeSlot EXCEPT !.conn = c]

\* The connections in gone end; their observers with them.
Dropped(gone) ==
    /\ said' = [c \in Conn |-> IF c \in gone THEN {} ELSE said[c]]
    /\ silent' = silent \ gone

\* Mutant: what the slot held before stays.
OpenSessionKeeps(c, i) ==
    /\ slots' = [slots EXCEPT ![i].conn = c, ![i].age = 0]
    /\ peers' = [d \in Conn |-> IF d = c THEN "open" ELSE IF d = slots[i].conn THEN "away" ELSE peers[d]]
    /\ Dropped({slots[i].conn})

\* openSession(): everything of the slot is set anew; its old socket is stopped.
OpenSession(c, i) ==
    /\ slots' = [slots EXCEPT ![i] = Opened(c)]
    /\ peers' = [d \in Conn |-> IF d = c THEN "open" ELSE IF d = slots[i].conn THEN "away" ELSE peers[d]]
    /\ Dropped({slots[i].conn})

\* Start of a pass of loop(): tracking_cleanup(), then one connection at most.
\* Slot 1 is in use after one: it was taken, or was not free.
AcceptTurn ==
    /\ turn = 0 /\ stage = "idle"
    /\ Cleanup
    /\ \/ /\ \A c \in Conn : peers[c] # "queued"
          /\ turn' = TurnAfter(0)
          /\ UNCHANGED <<peers, slots, said, silent>>
       \/ \E c \in Conn :
            /\ peers[c] = "queued"
            /\ LET free == {i \in NutSlot : SlotFree(i)}
               IN  IF free = {}
                   THEN peers' = [peers EXCEPT ![c] = "away"] /\ UNCHANGED <<slots, said, silent>>
                   ELSE OpenSession(c, CHOOSE i \in free : \A j \in free : i <= j)
            /\ turn' = 1
    /\ UNCHANGED <<workload, valueVars>>

\* closeSession() of an active slot.
CloseSession(i) ==
    /\ slots' = [slots EXCEPT ![i] = FreeSlot]
    /\ peers' = [peers EXCEPT ![slots[i].conn] = "away"]
    /\ Dropped({slots[i].conn})

\* The client closed the connection and everything it sent was read.
ClosePeer(i) ==
    /\ turn = i /\ Active(i) /\ stage = "idle"
    /\ peers[slots[i].conn] = "closed"
    /\ CloseSession(i)
    /\ turn' = TurnAfter(i)
    /\ UNCHANGED <<workload, trackingVars, valueVars>>

TimedOut(i) == slots[i].age > IdleTimeout

\* Looked at before anything is read.
CloseIdle(i) ==
    /\ turn = i /\ Active(i) /\ stage = "idle"
    /\ TimedOut(i)
    /\ CloseSession(i)
    /\ turn' = TurnAfter(i)
    /\ UNCHANGED <<workload, trackingVars, valueVars>>

\* Mutant: looking at the client counts as activity.
NothingToReadRenews(i) ==
    /\ turn = i /\ Active(i) /\ stage = "idle"
    /\ ~TimedOut(i) /\ peers[slots[i].conn] = "open"
    /\ slots' = [slots EXCEPT ![i].age = 0]
    /\ turn' = TurnAfter(i)
    /\ UNCHANGED <<peers, workload, said, silent, trackingVars, valueVars>>

NothingToRead(i) ==
    /\ turn = i /\ Active(i) /\ stage = "idle"
    /\ ~TimedOut(i) /\ peers[slots[i].conn] = "open"
    /\ turn' = TurnAfter(i)
    /\ UNCHANGED <<peers, slots, workload, said, silent, trackingVars, valueVars>>

------------------------------------------------------------------------------
\* Input of the client of slot i: from a closed connection too, until it is read.
Reads(i, input) ==
    /\ turn = i /\ Active(i) /\ stage = "idle"
    /\ ~TimedOut(i)
    /\ input \in workload.inputs
    /\ slots[i].conn \notin silent

\* The session after a line was read.
Refreshed(i) == [slots[i] EXCEPT !.age = 0, !.line = {}]

\* FLAG_USER commands: USERNAME and PASSWORD must have been sent.
MissingCredentials(i) ==
    workload.authRequired /\ (slots[i].username = "" \/ ~slots[i].passwordSet)

\* They must have been right: INSTCMD, SET VAR.
Allowed(i) ==
    ~MissingCredentials(i) /\ (workload.authRequired => slots[i].authenticated)

\* The slot becomes session, the connection has said facts.
Answered(i, session, facts) ==
    /\ slots' = [slots EXCEPT ![i] = session]
    /\ said' = [said EXCEPT ![slots[i].conn] = facts]
    /\ turn' = TurnAfter(i)
    /\ UNCHANGED <<peers, workload, silent>>

\* The first piece of a line.
ReadPiece(i) ==
    /\ Reads(i, "piece")
    /\ Answered(i, [slots[i] EXCEPT !.age = 0, !.line = @ \cup {slots[i].conn}], said[slots[i].conn])
    /\ UNCHANGED <<trackingVars, valueVars>>

\* A query, an unknown command or one with wrong arguments.
Query(i) ==
    /\ Reads(i, "query")
    /\ Answered(i, Refreshed(i), said[slots[i].conn])
    /\ UNCHANGED <<trackingVars, valueVars>>

Username(i, name) ==
    /\ Reads(i, "username")
    /\ Answered(i, [Refreshed(i) EXCEPT !.username = name], said[slots[i].conn] \cup {"username"})
    /\ UNCHANGED <<trackingVars, valueVars>>

\* A wrong one after a right one takes nothing back.
Password(i, right) ==
    /\ Reads(i, "password")
    /\ LET proof == right /\ slots[i].username = "right"
       IN  Answered(i, [Refreshed(i) EXCEPT !.passwordSet = TRUE,
                                            !.authenticated = @ \/ proof],
                    said[slots[i].conn] \cup {"password"} \cup (IF proof THEN {"proof"} ELSE {}))
    /\ UNCHANGED <<trackingVars, valueVars>>

Logout(i) ==
    /\ Reads(i, "logout")
    /\ CloseSession(i)
    /\ turn' = TurnAfter(i)
    /\ UNCHANGED <<workload, trackingVars, valueVars>>

\* SET TRACKING ON or OFF: right or wrong credentials.
SetTracking(i, on) ==
    /\ Reads(i, "tracking") /\ ~MissingCredentials(i)
    /\ Answered(i, [Refreshed(i) EXCEPT !.tracking = on],
                IF on THEN said[slots[i].conn] \cup {"tracking"} ELSE said[slots[i].conn] \ {"tracking"})
    /\ UNCHANGED <<trackingVars, valueVars>>

\* The outcome goes to the table when the session tracks, else only to the client.
Reply(i, id, status) ==
    IF slots[i].tracking THEN Add(id, status) ELSE UNCHANGED trackingVars

\* INSTCMD: the port of the UPS answers before the reply.
InstCmd(i, id, status) ==
    /\ Reads(i, "instcmd") /\ Allowed(i)
    /\ Answered(i, Refreshed(i), said[slots[i].conn])
    /\ Reply(i, id, status)
    /\ UNCHANGED valueVars

\* SET VAR of a driver-side variable: planned while the UPS is claimed.
SetVar(i, value) ==
    /\ Reads(i, "set") /\ Allowed(i)
    /\ Plan(value)
    /\ UNCHANGED <<peers, slots, turn, workload, said, silent, trackingVars>>

\* The end of SET VAR: the line is done.
SetVarFails(i, id) ==
    /\ turn = i /\ Active(i)
    /\ SaveFails
    /\ Answered(i, Refreshed(i), said[slots[i].conn])
    /\ Reply(i, id, "ERR FAILED")

SetVarApplied(i, id) ==
    /\ turn = i /\ Active(i)
    /\ ApplyValue
    /\ Answered(i, Refreshed(i), said[slots[i].conn])
    /\ Reply(i, id, "SUCCESS")

\* The same from the web page, in the loopTask between two passes.
WebReset == turn = 0 /\ Plan(Unset) /\ UNCHANGED <<sessionVars, trackingVars>>
WebFails == turn = 0 /\ SaveFails /\ UNCHANGED <<sessionVars, trackingVars>>
WebApplied == turn = 0 /\ ApplyValue /\ UNCHANGED <<sessionVars, trackingVars>>

Saves == SaveValue /\ UNCHANGED <<sessionVars, trackingVars>>

------------------------------------------------------------------------------
\* The clients.
Connect(c) ==
    /\ peers[c] = "away" /\ c \in workload.clients
    /\ peers' = [peers EXCEPT ![c] = "queued"]
    /\ UNCHANGED <<slots, turn, workload, said, silent, trackingVars, valueVars>>

PeerCloses(c) ==
    /\ peers[c] = "open" /\ c \notin silent
    /\ peers' = [peers EXCEPT ![c] = "closed"]
    /\ UNCHANGED <<slots, turn, workload, said, silent, trackingVars, valueVars>>

\* The client is cut off: it sends nothing more and never closes.
FallSilent(c) ==
    /\ "silence" \in workload.inputs
    /\ peers[c] = "open" /\ c \notin silent
    /\ silent' = silent \cup {c}
    /\ UNCHANGED <<peers, slots, turn, workload, said, trackingVars, valueVars>>

\* The poll task, on devices that come and go.
PollTask ==
    /\ "set" \in workload.inputs
    /\ Claim \/ Disconnect
    /\ UNCHANGED <<sessionVars, trackingVars>>

NutElapse ==
    /\ slots' = [i \in NutSlot |-> IF Active(i) THEN [slots[i] EXCEPT !.age = Older(@, IdleTimeout + 1)]
                                              ELSE slots[i]]
    /\ TrackingElapse
    /\ UNCHANGED <<peers, turn, workload, said, silent, valueVars>>

NutRestart(read) ==
    /\ ValuesRestart(read)
    /\ peers' = [c \in Conn |-> "away"]
    /\ slots' = [i \in NutSlot |-> FreeSlot]
    /\ turn' = 0
    /\ said' = [c \in Conn |-> {}] /\ silent' = {}
    /\ entries' = [e \in Entry |-> Unused] /\ issued' = {}
    /\ UNCHANGED workload

Serve(i) ==
    \/ ClosePeer(i) \/ CloseIdle(i) \/ NothingToRead(i)
    \/ ReadPiece(i) \/ Query(i) \/ Logout(i)
    \/ \E name \in {"right", "wrong"} : Username(i, name)
    \/ \E right \in BOOLEAN : Password(i, right)
    \/ \E on \in BOOLEAN : SetTracking(i, on)
    \/ \E id \in Id : \E status \in Outcome : InstCmd(i, id, status)
    \/ \E value \in Value : SetVar(i, value)
    \/ \E id \in Id : SetVarFails(i, id) \/ SetVarApplied(i, id)

LoopTask ==
    \/ AcceptTurn
    \/ \E i \in NutSlot : Serve(i)
    \/ Saves \/ WebReset \/ WebFails \/ WebApplied

NutNext ==
    \/ LoopTask
    \/ \E c \in Conn : Connect(c) \/ PeerCloses(c) \/ FallSilent(c)
    \/ PollTask
    \/ NutElapse
    \/ \E read \in BOOLEAN : NutRestart(read)

NutSpec == NutInit /\ [][NutNext]_nutVars

\* loop() goes round: a pass of the NUT server follows each request of the web
\* page (SF); and time passes.
NutFairSpec ==
    /\ NutSpec
    /\ SF_nutVars(AcceptTurn)
    /\ \A i \in NutSlot : WF_nutVars(Serve(i))
    /\ WF_nutVars(Saves) /\ WF_nutVars(WebFails \/ WebApplied)
    /\ WF_nutVars(NutElapse)

------------------------------------------------------------------------------
\* A client starts from nothing: what its slot holds (a user name, a password
\* that was accepted, tracking, the start of a line) was said on its own
\* connection, although the slot held other clients before, some of them replaced
\* without being closed first (openSession).
NothingInherited ==
    \A i \in NutSlot : LET s == slots[i] IN Active(i) =>
        /\ s.username # "" => "username" \in said[s.conn]
        /\ s.passwordSet => "password" \in said[s.conn]
        /\ s.authenticated => "proof" \in said[s.conn]
        /\ s.tracking => "tracking" \in said[s.conn]
        /\ s.line \subseteq {s.conn}

\* What the server keeps true of its slots between two steps of the loopTask.
NutInv == NutTypeOK /\ NothingInherited

\* A client that is cut off without a word does not keep its slot for good: the
\* timeout frees it, whatever the other clients do.
SilentReleased == \A c \in Conn : c \in silent ~> c \notin silent

==============================================================================
