---------------------------- MODULE RestartPolicy ----------------------------
(***************************************************************************)
(* Class RestartPolicy (lib/USBHostUPS/src/RestartPolicy.h): the guard of  *)
(* the controlled restarts against boot loops.  It lives in RAM and is     *)
(* rebuilt at every boot from the counter kept in RTC memory.              *)
(***************************************************************************)
EXTENDS Ticks

CONSTANTS
    MaxRestarts,   \* MAX_RESTARTS: restarts in a row before degraded mode
    MaxDelay,      \* the longest of them: DELAY_3_MS
    Delay,         \* delayMs(): wait before the restart number k + 1
    ProvenReset,   \* PROVEN_RESET_MS
    HealthyReset   \* HEALTHY_RESET_MS

ASSUME RestartPolicyAssumption ==
    /\ MaxRestarts \in 1..255
    /\ MaxDelay \in Nat
    /\ Delay \in [0..MaxRestarts-1 -> 0..MaxDelay]
    /\ Delay[0] = 0
    /\ ProvenReset \in Nat \ {0}
    /\ HealthyReset \in Nat
    /\ ProvenReset <= HealthyReset

VARIABLES
    consecutive,   \* _consecutive
    scheduled,     \* _scheduled
    waitLeft,      \* _restartAt - now, 0 when not scheduled
    healthy,       \* _healthy
    healthyAge     \* now - _healthySince

policyVars == <<consecutive, scheduled, waitLeft, healthy, healthyAge>>

PolicyTypeOK ==
    /\ consecutive \in 0..MaxRestarts
    /\ scheduled \in BOOLEAN
    /\ waitLeft \in 0..MaxDelay
    /\ healthy \in BOOLEAN
    /\ healthyAge \in 0..HealthyReset

------------------------------------------------------------------------------
\* Constructor, at boot, from the counter in RTC memory.
PolicyInit(count) ==
    /\ consecutive = count
    /\ scheduled = FALSE
    /\ waitLeft = 0
    /\ healthy = FALSE
    /\ healthyAge = 0

PolicyBoot(count) ==
    /\ consecutive' = count
    /\ scheduled' = FALSE
    /\ waitLeft' = 0
    /\ healthy' = FALSE
    /\ healthyAge' = 0

\* Mutant: an interrupted healthy time goes on where it stopped.
HealthyForInAll(isHealthy) == healthyAge

\* How long the UPS has been healthy when update() is called with `isHealthy'.
HealthyFor(isHealthy) == IF isHealthy /\ healthy THEN healthyAge ELSE 0

\* Mutant: fresh data clear the counter at once.
ClearsCounterAtOnce(isHealthy, proven) == isHealthy /\ consecutive > 0

\* Mutant: the counter in RAM is not cleared.
CountKept(isHealthy, proven) == consecutive

\* trackHealth() clears the counter in this update().
ClearsCounter(isHealthy, proven) ==
    /\ isHealthy
    /\ consecutive > 0
    /\ HealthyFor(isHealthy) >= (IF proven THEN ProvenReset ELSE HealthyReset)

\* The counter after trackHealth(), the one the rest of update() looks at.
CountAfter(isHealthy, proven) ==
    IF ClearsCounter(isHealthy, proven) THEN 0 ELSE consecutive

\* Mutant: every update() schedules the restart anew.
WaitRenewed(isHealthy, proven) == Delay[CountAfter(isHealthy, proven)]

\* The wait left once update() has scheduled a restart, if it had to.
WaitAfter(isHealthy, proven) ==
    IF scheduled THEN waitLeft ELSE Delay[CountAfter(isHealthy, proven)]

\* The value update() returns.
DecisionOf(requested, isHealthy, proven) ==
    IF ~requested THEN "NONE"
    ELSE IF CountAfter(isHealthy, proven) >= MaxRestarts THEN "DEGRADED"
    ELSE IF WaitAfter(isHealthy, proven) = 0 THEN "RESTART" ELSE "WAIT"

\* Mutant: a request that is withdrawn leaves its schedule behind.
PolicyUpdateKeepsSchedule(requested, isHealthy, proven) ==
    LET waits == DecisionOf(requested, isHealthy, proven) \in {"WAIT", "RESTART"}
    IN  /\ healthy' = isHealthy
        /\ healthyAge' = HealthyFor(isHealthy)
        /\ consecutive' = CountAfter(isHealthy, proven)
        /\ scheduled' = (waits \/ scheduled)
        /\ waitLeft' = IF waits THEN WaitAfter(isHealthy, proven) ELSE waitLeft

\* What update() does to the policy.
PolicyUpdate(requested, isHealthy, proven) ==
    LET waits == DecisionOf(requested, isHealthy, proven) \in {"WAIT", "RESTART"}
    IN  /\ healthy' = isHealthy
        /\ healthyAge' = HealthyFor(isHealthy)
        /\ consecutive' = CountAfter(isHealthy, proven)
        /\ scheduled' = waits
        /\ waitLeft' = IF waits THEN WaitAfter(isHealthy, proven) ELSE 0

\* Mutant: a deadline in the past counts on, as it does without the signed difference.
PolicyElapseOn ==
    /\ waitLeft' = waitLeft - 1
    /\ healthyAge' = IF healthy THEN Older(healthyAge, HealthyReset) ELSE healthyAge
    /\ UNCHANGED <<consecutive, scheduled, healthy>>

\* A tick of millis().
PolicyElapse ==
    /\ waitLeft' = Sooner(waitLeft)
    /\ healthyAge' = IF healthy THEN Older(healthyAge, HealthyReset) ELSE healthyAge
    /\ UNCHANGED <<consecutive, scheduled, healthy>>

==============================================================================
