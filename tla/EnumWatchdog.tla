----------------------------- MODULE EnumWatchdog -----------------------------
(****************************************************************************)
(* Class EnumWatchdog (lib/USBHostUPS/src/EnumWatchdog.h): what to do when  *)
(* no device enumerates after an automatic restart.                         *)
(****************************************************************************)
EXTENDS Ticks

CONSTANTS
    FirstCycle,     \* FIRST_CYCLE_MS
    CycleInterval,  \* CYCLE_INTERVAL_MS
    MaxPortCycles   \* MAX_PORT_CYCLES

ASSUME EnumWatchdogAssumption ==
    /\ FirstCycle \in Nat
    /\ CycleInterval \in Nat \ {0}
    /\ MaxPortCycles \in Nat

VARIABLES
    enumArmed,        \* _armed
    enumAge,          \* now - _armedAt
    enumCycles,       \* _cycles
    enumRestartAsked  \* _restartRequested

enumVars == <<enumArmed, enumAge, enumCycles, enumRestartAsked>>

\* elapsed when the next thing is due, after n port cycles.
EnumDueAt(n) == FirstCycle + n * CycleInterval

EnumTypeOK ==
    /\ enumArmed \in BOOLEAN
    /\ enumAge \in 0..EnumDueAt(MaxPortCycles)
    /\ enumCycles \in 0..MaxPortCycles
    /\ enumRestartAsked \in BOOLEAN

\* The constructor at boot, and arm() when the boot follows a controlled restart.
EnumInit(afterRestart) ==
    /\ enumArmed = afterRestart
    /\ enumAge = 0
    /\ enumCycles = 0
    /\ enumRestartAsked = FALSE

EnumBoot(afterRestart) ==
    /\ enumArmed' = afterRestart
    /\ enumAge' = 0
    /\ enumCycles' = 0
    /\ enumRestartAsked' = FALSE

\* The action tick() returns.
EnumTick(enumerated) ==
    CASE ~enumArmed \/ enumerated -> "NONE"
      [] enumArmed /\ ~enumerated /\ enumCycles < MaxPortCycles ->
           IF enumAge >= EnumDueAt(enumCycles) THEN "CYCLE_PORT" ELSE "NONE"
      [] OTHER -> IF ~enumRestartAsked /\ enumAge >= EnumDueAt(MaxPortCycles)
                  THEN "REQUEST_RESTART" ELSE "NONE"

\* What tick() does to the watchdog.
EnumTicked(enumerated) ==
    /\ enumArmed' = (enumArmed /\ ~enumerated)
    /\ enumCycles' = IF EnumTick(enumerated) = "CYCLE_PORT" THEN enumCycles + 1 ELSE enumCycles
    /\ enumRestartAsked' = (enumRestartAsked \/ EnumTick(enumerated) = "REQUEST_RESTART")
    /\ UNCHANGED enumAge

EnumElapse ==
    /\ enumAge' = IF enumArmed THEN Older(enumAge, EnumDueAt(MaxPortCycles)) ELSE enumAge
    /\ UNCHANGED <<enumArmed, enumCycles, enumRestartAsked>>

===============================================================================
