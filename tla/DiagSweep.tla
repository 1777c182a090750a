------------------------------- MODULE DiagSweep -------------------------------
(***************************************************************************)
(* The read behind the USB diagnostics export (lib/USBHostUPS/src/         *)
(* DiagSweep.h, and the methods of USBHostUPS that drive it): the reports  *)
(* of the descriptor that no poll reads, once each, between two polls.     *)
(* Their bytes and the counts of the results are left out.                 *)
(***************************************************************************)
EXTENDS Naturals

CONSTANT OnDemand   \* bound: reports of the descriptor that no poll reads

ASSUME DiagAssumption == OnDemand \in Nat

VARIABLES
    diagRequested,  \* _diag_requested
    diagState,      \* _state
    diagLeft        \* _items from _pos on

diagVars == <<diagRequested, diagState, diagLeft>>

DiagTypeOK ==
    /\ diagRequested \in BOOLEAN
    /\ diagState \in {"idle", "reading", "done", "interrupted"}
    /\ diagLeft \in 0..OnDemand

DiagInit == diagRequested = FALSE /\ diagState = "idle" /\ diagLeft = 0

------------------------------------------------------------------------------
\* clear(), and the request: a new device, or none.
DiagClear == diagRequested' = FALSE /\ diagState' = "idle" /\ diagLeft' = 0

\* Mutant: whoever asks again has a running read started anew.
RequestDiagReadAgain ==
    /\ diagRequested' = TRUE
    /\ UNCHANGED <<diagState, diagLeft>>

\* requestDiagRead(), of a UPS that is ready: a running read is not started again.
RequestDiagRead ==
    /\ diagRequested' = (diagRequested \/ diagState # "reading")
    /\ UNCHANGED <<diagState, diagLeft>>

\* start(), with the reports that are not cached and that the driver accepts.
DiagStart(items) ==
    /\ diagRequested' = FALSE
    /\ diagState' = IF items = 0 THEN "done" ELSE "reading"
    /\ diagLeft' = items

\* record(): the read ends after its last report.
DiagRecord ==
    /\ diagLeft' = diagLeft - 1
    /\ diagState' = IF diagLeft = 1 THEN "done" ELSE "reading"
    /\ UNCHANGED diagRequested

\* interrupt(), of a running read.
DiagInterrupt ==
    /\ diagState = "reading" /\ diagState' = "interrupted"
    /\ UNCHANGED <<diagRequested, diagLeft>>

\* What diagReadStatus() tells the page that follows the read.
ReadingShown == diagRequested \/ diagState = "reading"

==============================================================================
