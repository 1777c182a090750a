-------------------------- MODULE ControlledRestart --------------------------
(***************************************************************************)
(* The controlled restarts of the board: the part of loop() in             *)
(* src/core/main.cpp that asks RestartPolicy, the counter CrashDiag keeps  *)
(* in RTC memory (src/core/crash_diag.cpp), and the boots in between.      *)
(* What the loop reads from the poll task (is a restart requested, are the *)
(* data fresh, is the control pipe proven) is an input of its steps: any   *)
(* value here, the real one in UsbRecovery.                                *)
(***************************************************************************)
EXTENDS RestartPolicy

VARIABLES
    rtcCount,      \* s_restart_count: survives every reset but a power cycle
    loopPc,        \* where the loopTask is: "sample", "update" or "restart"
    sampled,       \* ups_healthy, read before the arguments of update()
    decision,      \* last_decision
    loopDue,       \* the loopTask has not run since the last tick
    pendingRun,    \* observer: ticks the request has been pending, as loop() saw it
    healthyRun,    \* observer: ticks the data have been fresh, as loop() saw it
    sickRestarts   \* observer: controlled restarts since data were last fresh for
                   \* ProvenReset, or since the last power cycle

loopVars == <<rtcCount, loopPc, sampled, decision, loopDue>>
observerVars == <<pendingRun, healthyRun, sickRestarts>>
restartVars == <<policyVars, loopVars, observerVars>>

Decisions == {"NONE", "WAIT", "RESTART", "DEGRADED"}

RestartTypeOK ==
    /\ PolicyTypeOK
    /\ rtcCount \in 0..MaxRestarts
    /\ loopPc \in {"sample", "update", "restart"}
    /\ sampled \in BOOLEAN
    /\ decision \in Decisions
    /\ loopDue \in BOOLEAN
    /\ pendingRun \in 0..MaxDelay
    /\ healthyRun \in 0..ProvenReset
    /\ sickRestarts \in Nat

RestartInit ==
    /\ PolicyInit(0)
    /\ rtcCount = 0
    /\ loopPc = "sample"
    /\ sampled = FALSE
    /\ decision = "NONE"
    /\ loopDue = TRUE
    /\ pendingRun = 0
    /\ healthyRun = 0
    /\ sickRestarts = 0

------------------------------------------------------------------------------
\* The loopTask reads isConnected() and isDataStale() first.  The poll task may
\* run before update() reads the rest.
LoopSample(fresh) ==
    /\ loopPc = "sample"
    /\ sampled' = fresh
    /\ loopPc' = "update"
    /\ healthyRun' = IF fresh THEN healthyRun ELSE 0
    /\ UNCHANGED <<policyVars, rtcCount, decision, loopDue, pendingRun, sickRestarts>>

\* update(), then the RTC counter cleared if takeCleared(), then the decision:
\* on RESTART the loop goes on to recordControlledRestart() and esp_restart().
LoopUpdate(requested, proven) ==
    /\ loopPc = "update"
    /\ PolicyUpdate(requested, sampled, proven)
    /\ rtcCount' = IF ClearsCounter(sampled, proven) THEN 0 ELSE rtcCount
    /\ decision' = DecisionOf(requested, sampled, proven)
    /\ loopPc' = IF decision' = "RESTART" THEN "restart" ELSE "sample"
    /\ loopDue' = FALSE
    /\ pendingRun' = IF requested THEN pendingRun ELSE 0
    /\ sickRestarts' = IF healthyRun >= ProvenReset THEN 0 ELSE sickRestarts
    /\ UNCHANGED <<sampled, healthyRun>>

\* RAM after a reset: RestartPolicy(CrashDiag::consecutiveRestarts()).
Boot(count) ==
    /\ rtcCount' = count
    /\ PolicyBoot(count)
    /\ loopPc' = "sample"
    /\ sampled' = FALSE
    /\ decision' = "NONE"
    /\ loopDue' = TRUE
    /\ pendingRun' = 0
    /\ healthyRun' = 0

\* recordControlledRestart(), 200 ms for the log, esp_restart().
LoopRestart ==
    /\ loopPc = "restart"
    /\ Boot(IF rtcCount < 255 THEN rtcCount + 1 ELSE rtcCount)
    /\ sickRestarts' = sickRestarts + 1

\* A panic, a watchdog, a restart from the web UI or the end of a manual AP:
\* RTC memory survives and nothing is counted.
OtherReset ==
    /\ Boot(rtcCount)
    /\ UNCHANGED sickRestarts

\* Power-on or brown-out: CrashDiag::begin() clears the counter.
PowerCycle ==
    /\ Boot(0)
    /\ sickRestarts' = 0

\* Time passes.  The loopTask runs every 10 ms, so a tick of seconds finds it
\* done with at least one iteration.
LoopElapse ==
    /\ loopPc = "sample"
    /\ ~loopDue
    /\ loopDue' = TRUE
    /\ PolicyElapse
    /\ pendingRun' = IF decision = "NONE" THEN 0 ELSE Older(pendingRun, MaxDelay)
    /\ healthyRun' = IF sampled THEN Older(healthyRun, ProvenReset) ELSE 0
    /\ UNCHANGED <<rtcCount, loopPc, sampled, decision, sickRestarts>>

RestartNext ==
    \/ \E fresh \in BOOLEAN : LoopSample(fresh)
    \/ \E requested, proven \in BOOLEAN : LoopUpdate(requested, proven)
    \/ LoopRestart
    \/ OtherReset
    \/ PowerCycle
    \/ LoopElapse

RestartSpec == RestartInit /\ [][RestartNext]_restartVars

------------------------------------------------------------------------------
\* The board never restarts itself more than MaxRestarts times in a row: however
\* the UPS behaves, after that many controlled restarts without ProvenReset of
\* fresh data in between, whatever other resets happen meanwhile, the next one
\* does not come (RestartPolicy.h: "Guard against boot loops").
SickRestartsBounded ==
    /\ sickRestarts <= MaxRestarts
    /\ loopPc = "restart" => sickRestarts < MaxRestarts

\* A restart only ends a wait that ran to its end: the request was pending at
\* every look for the 0, 1, 5 or 15 minutes its rank in the row asks for, so a
\* request cancelled by a new enumeration never leaves an early restart behind.
RestartWaitedOut ==
    loopPc = "restart" => pendingRun >= Delay[rtcCount]

\* While the loop is between two looks, the counter of the policy in RAM and
\* the one in RTC memory are the same: a reset at any moment resumes the row
\* where it was, and a cleared row cannot come back.
CountersAgree == consecutive = rtcCount

\* The types, and RAM and RTC memory in step: what the loop, the resets and the
\* power cycles of RestartPolicy.h and main.cpp never break.
RestartInv == RestartTypeOK /\ CountersAgree

==============================================================================
