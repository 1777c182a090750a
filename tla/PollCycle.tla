------------------------------ MODULE PollCycle ------------------------------
(***************************************************************************)
(* The poll cycles of GenericDriver (lib/USBHostUPS/src/GenericDriver.cpp):*)
(* a quick cycle reads the status reports, a full one every report but the *)
(* semi-static ones already known, unless a SET VAR or a command may have  *)
(* changed them.  A report is known by its kind only; a request that fails *)
(* is not repeated within its cycle.  Reports that come on the interrupt   *)
(* pipe, and string descriptors, are left out.                             *)
(***************************************************************************)
EXTENDS Ticks, Sequences

CONSTANTS
    FullReports,  \* _full: the kinds of the reports, in order
    QuickPolls,   \* the quickPollMs() of the drivers, 0 = no quick poll
    FullPoll      \* fullPollMs()

Kinds == {"status", "other", "semi"}

ASSUME PollCycleAssumption ==
    /\ FullReports \in Seq(Kinds)
    /\ QuickPolls \subseteq Nat
    /\ FullPoll \in Nat \ {0}

VARIABLES
    quickPoll,    \* quickPollMs() of the driver in use
    queue,        \* _queue from _queue_pos on: places in FullReports, requested in order
    cycleFull,    \* _cycle_full
    firstFull,    \* _first_full_done
    dataChanged,  \* _data_changed
    semiKnown,    \* the semi-static reports have been decoded
    quickAge,     \* now - _last_quick
    fullAge,      \* now - _last_full, FullPoll before the first full poll
    unread        \* observer: kinds of reports not requested since the last change

pollVars == <<quickPoll, queue, cycleFull, firstFull, dataChanged, semiKnown, quickAge, fullAge, unread>>

Reports == DOMAIN FullReports
KindsOf(places) == {FullReports[i] : i \in places}

PollTypeOK ==
    /\ quickPoll \in QuickPolls
    /\ queue \subseteq Reports
    /\ cycleFull \in BOOLEAN /\ firstFull \in BOOLEAN
    /\ dataChanged \in BOOLEAN /\ semiKnown \in BOOLEAN
    /\ quickAge \in 0..quickPoll
    /\ fullAge \in 0..FullPoll
    /\ unread \subseteq Kinds

PollInit ==
    /\ quickPoll \in QuickPolls
    /\ queue = {} /\ cycleFull = FALSE /\ firstFull = FALSE
    /\ dataChanged = FALSE /\ semiKnown = FALSE
    /\ quickAge = 0 /\ fullAge = FullPoll
    /\ unread = {}

\* setup(), for a device that has just been claimed.
PollReset ==
    /\ queue' = {} /\ cycleFull' = FALSE /\ firstFull' = FALSE
    /\ dataChanged' = FALSE /\ semiKnown' = FALSE
    /\ quickAge' = 0 /\ fullAge' = FullPoll
    /\ unread' = {}
    /\ UNCHANGED quickPoll

\* noteDataChanged(), from any task.
NoteDataChanged ==
    /\ dataChanged' = TRUE
    /\ unread' = KindsOf(Reports)
    /\ UNCHANGED <<quickPoll, queue, cycleFull, firstFull, semiKnown, quickAge, fullAge>>

------------------------------------------------------------------------------
\* A full cycle has been read to its end for the first time.
FirstFullEnds == cycleFull /\ ~firstFull

FullDue == fullAge >= FullPoll \/ dataChanged
QuickDue == quickPoll > 0 /\ quickAge >= quickPoll

\* loop() has something to do between two cycles.
CycleDue == queue = {} /\ (FirstFullEnds \/ FullDue \/ QuickDue)

\* Mutant: every report already known is left out.
SkipsAllKnown(kind, rereads) == semiKnown /\ ~rereads /\ kind # "other"

\* A report the full cycle leaves out (isSemiStaticAndKnown()).
Skips(kind, rereads) == kind = "semi" /\ semiKnown /\ ~rereads

\* Mutant: the flag is cleared before the reports are chosen.
StartCycleForgets ==
    /\ firstFull' = (firstFull \/ cycleFull)
    /\ IF FullDue
       THEN /\ queue' = {i \in Reports : ~Skips(FullReports[i], FALSE)}
            /\ cycleFull' = TRUE
            /\ quickAge' = 0 /\ fullAge' = 0
            /\ dataChanged' = FALSE
       ELSE /\ queue' = IF QuickDue THEN {i \in Reports : FullReports[i] = "status"} ELSE queue
            /\ cycleFull' = (cycleFull /\ ~QuickDue)
            /\ quickAge' = IF QuickDue THEN 0 ELSE quickAge
            /\ UNCHANGED <<fullAge, dataChanged>>
    /\ UNCHANGED <<quickPoll, semiKnown, unread>>

\* loop() between two cycles: the first full poll is over, a cycle is started.
StartCycle ==
    /\ firstFull' = (firstFull \/ cycleFull)
    /\ IF FullDue
       THEN /\ queue' = {i \in Reports : ~Skips(FullReports[i], dataChanged)}
            /\ cycleFull' = TRUE
            /\ quickAge' = 0 /\ fullAge' = 0
            /\ dataChanged' = FALSE
       ELSE /\ queue' = IF QuickDue THEN {i \in Reports : FullReports[i] = "status"} ELSE queue
            /\ cycleFull' = (cycleFull /\ ~QuickDue)
            /\ quickAge' = IF QuickDue THEN 0 ELSE quickAge
            /\ UNCHANGED <<fullAge, dataChanged>>
    /\ UNCHANGED <<quickPoll, semiKnown, unread>>

NextPlace == CHOOSE i \in queue : \A j \in queue : i <= j
Requested == FullReports[NextPlace]

\* The next report of the cycle is requested, and decoded if there is an answer.
NextReport(answered) ==
    /\ queue' = queue \ {NextPlace}
    /\ semiKnown' = (semiKnown \/ (answered /\ Requested = "semi"))
    /\ unread' = unread \ {Requested}
    /\ UNCHANGED <<quickPoll, cycleFull, firstFull, dataChanged, quickAge, fullAge>>

PollElapse ==
    /\ quickAge' = Older(quickAge, quickPoll)
    /\ fullAge' = Older(fullAge, FullPoll)
    /\ UNCHANGED <<quickPoll, queue, cycleFull, firstFull, dataChanged, semiKnown, unread>>

==============================================================================
