----------------------------- MODULE OpenSessions -----------------------------
(***************************************************************************)
(* What the web interface promises about its sessions (ADR 0009), without  *)
(* slots, sequence numbers, clocks or NVS: which sessions are honoured,    *)
(* and which ones the next start of the board brings back.                 *)
(***************************************************************************)
EXTENDS Naturals, FiniteSets

CONSTANTS
    Token,          \* the sessions
    MaxRemembered,  \* most "remember me" sessions
    MaxVisiting     \* most sessions without it

VARIABLES
    remembered,     \* the "remember me" sessions in use, and which are older
    kept,           \* those the next start brings back, and which are older
    visiting        \* the other sessions in use

openVars == <<remembered, kept, visiting>>

\* Sessions by age: <<s, t>> \in before when s is older than t.
NoSession == [members |-> {}, before |-> {}]
Alone(t) == [members |-> {t}, before |-> {}]

Without(sessions, t) ==
    [members |-> sessions.members \ {t},
     before  |-> {p \in sessions.before : t \notin {p[1], p[2]}}]

With(sessions, t) ==
    [members |-> sessions.members \cup {t},
     before  |-> sessions.before \cup (sessions.members \X {t})]

Oldest(sessions) ==
    CHOOSE s \in sessions.members : \A o \in sessions.members : <<o, s>> \notin sessions.before

\* A full list lets its oldest session go, and no other.
Newest(sessions, t) ==
    With(IF Cardinality(sessions.members) < MaxRemembered
         THEN sessions ELSE Without(sessions, Oldest(sessions)), t)

InUse == remembered.members \cup visiting

OpenInit == remembered = NoSession /\ kept = NoSession /\ visiting = {}

\* What is kept follows what is in use, unless the write fails.
KeptFollows == kept' = remembered' \/ kept' = kept

OpenRemembered(t) ==
    /\ t \notin InUse
    /\ remembered' = Newest(remembered, t)
    /\ KeptFollows
    /\ UNCHANGED visiting

OpenVisiting(t) ==
    /\ t \notin InUse
    /\ \/ Cardinality(visiting) < MaxVisiting /\ visiting' = visiting \cup {t}
       \/ /\ Cardinality(visiting) = MaxVisiting
          /\ \E gone \in visiting : visiting' = (visiting \ {gone}) \cup {t}
    /\ UNCHANGED <<remembered, kept>>

\* Visiting sessions nobody uses end; they never come back.
EndIdle ==
    /\ visiting' \in SUBSET visiting
    /\ UNCHANGED <<remembered, kept>>

Close(t) ==
    /\ t \in InUse
    /\ visiting' = visiting \ {t}
    /\ remembered' = Without(remembered, t)
    /\ KeptFollows

CloseAll ==
    /\ visiting' = {}
    /\ remembered' = NoSession
    /\ kept' = NoSession

\* Session t goes on as n and every other session is closed.  What is kept is
\* written only when there is a remembered session in use.
Rotate(t, n) ==
    /\ t \in InUse /\ n \notin InUse
    /\ IF t \in visiting
       THEN /\ visiting' = {n}
            /\ remembered' = NoSession
            /\ kept' = IF remembered = NoSession THEN kept ELSE NoSession
       ELSE /\ visiting' = {}
            /\ remembered' = Alone(n)
            /\ kept' = Alone(n)

\* A start brings back what was kept, all of it or (unreadable) nothing.
Restart ==
    /\ visiting' = {}
    /\ remembered' \in {kept, NoSession}
    /\ UNCHANGED kept

OpenNext ==
    \/ \E t \in Token : OpenRemembered(t) \/ OpenVisiting(t) \/ Close(t)
    \/ \E t, n \in Token : Rotate(t, n)
    \/ EndIdle
    \/ CloseAll
    \/ Restart

OpenSpec == OpenInit /\ [][OpenNext]_openVars

==============================================================================
