--------------------------- MODULE PortCyclePolicy ---------------------------
(***************************************************************************)
(* Class PortCyclePolicy (lib/USBHostUPS/src/PortCyclePolicy.h): a power   *)
(* cycle of the root port instead of a restart for a stuck control         *)
(* transfer.  The ring of the last MaxCycles stamps is modelled by their   *)
(* ages, oldest first; a slot not used yet is as old as the window.        *)
(***************************************************************************)
EXTENDS Ticks

CONSTANTS
    BackTimeout,  \* BACK_TIMEOUT_MS
    MaxCycles,    \* MAX_CYCLES_PER_WINDOW
    CycleWindow   \* WINDOW_MS

ASSUME PortCyclePolicyAssumption ==
    /\ BackTimeout \in Nat
    /\ MaxCycles \in Nat \ {0}
    /\ CycleWindow \in Nat \ {0}

VARIABLES
    stamps,           \* _stamps, with _next and _count
    waiting,          \* _waiting
    timeoutReported,  \* _timeoutReported
    cycleAge          \* now - _cycleAt

cycleVars == <<stamps, waiting, timeoutReported, cycleAge>>

CycleTypeOK ==
    /\ stamps \in [1..MaxCycles -> 0..CycleWindow]
    /\ waiting \in BOOLEAN
    /\ timeoutReported \in BOOLEAN
    /\ cycleAge \in 0..BackTimeout

CycleInit ==
    /\ stamps = [i \in 1..MaxCycles |-> CycleWindow]
    /\ waiting = FALSE
    /\ timeoutReported = FALSE
    /\ cycleAge = 0

CycleBoot ==
    /\ stamps' = [i \in 1..MaxCycles |-> CycleWindow]
    /\ waiting' = FALSE
    /\ timeoutReported' = FALSE
    /\ cycleAge' = 0

\* onStuck() answers RESTART, with this reason, or CYCLE_PORT.
OnStuck ==
    IF waiting THEN "stuck_again"
    ELSE IF stamps[1] < CycleWindow THEN "too_many" ELSE "CYCLE_PORT"

CycleStarted ==
    /\ stamps' = [i \in 1..MaxCycles |-> IF i < MaxCycles THEN stamps[i + 1] ELSE 0]
    /\ waiting' = TRUE
    /\ timeoutReported' = FALSE
    /\ cycleAge' = 0

\* onProven()
CycleProven ==
    /\ waiting' = FALSE
    /\ UNCHANGED <<stamps, timeoutReported, cycleAge>>

\* Mutant: the wait for the device has no end.
BackNeverTimesOut == FALSE

\* backTimedOut() answers true, once per cycle.
BackTimedOut == waiting /\ ~timeoutReported /\ cycleAge >= BackTimeout

CycleTimeoutReported ==
    /\ timeoutReported' = TRUE
    /\ UNCHANGED <<stamps, waiting, cycleAge>>

CycleElapse ==
    /\ stamps' = [i \in 1..MaxCycles |-> Older(stamps[i], CycleWindow)]
    /\ cycleAge' = IF waiting THEN Older(cycleAge, BackTimeout) ELSE cycleAge
    /\ UNCHANGED <<waiting, timeoutReported>>

==============================================================================
