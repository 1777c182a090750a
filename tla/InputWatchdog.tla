---------------------------- MODULE InputWatchdog ----------------------------
(***************************************************************************)
(* Liveness check of the interrupt IN pipe                                 *)
(* (lib/USBHostUPS/src/LinkMonitor.h).  It learns the period of a device   *)
(* from the intervals between bursts of INPUT reports; only a periodic     *)
(* device that falls silent has its interface restarted, then the board.   *)
(***************************************************************************)
EXTENDS Ticks, Sequences, FiniteSets

CONSTANTS
    Samples,          \* SAMPLES
    BurstGap,         \* burstGapMs
    SilenceFactor,    \* silenceFactor
    MinSilence,       \* minSilenceMs
    SilenceRetry,     \* retryMs
    MaxSilenceRecoveries, \* maxRecoveries
    AgeLimit          \* where the ages stop growing

ASSUME WatchdogAssumption ==
    /\ {Samples, BurstGap, SilenceFactor, MinSilence, SilenceRetry} \subseteq Nat \ {0}
    /\ MaxSilenceRecoveries \in Nat
    /\ AgeLimit \in Nat /\ AgeLimit >= MinSilence

VARIABLES
    intervals,      \* _samples, oldest first
    haveBurst,      \* _haveBurst
    burstAge,       \* ticks since _lastBurstMs
    inputAge,       \* ticks since _lastInputMs
    silent,         \* _silent
    silenceRecoveries, \* _recoveries
    silenceWindow   \* ticks since _windowStartMs, which counts once silent

inWdVars == <<intervals, haveBurst, burstAge, inputAge, silent, silenceRecoveries,
              silenceWindow>>

InWdTypeOK ==
    /\ intervals \in Seq(0..AgeLimit) /\ Len(intervals) <= Samples
    /\ haveBurst \in BOOLEAN
    /\ burstAge \in 0..AgeLimit /\ inputAge \in 0..AgeLimit
    /\ silent \in BOOLEAN
    /\ silenceRecoveries \in 0..MaxSilenceRecoveries
    /\ silenceWindow \in 0..SilenceRetry

\* Mutant: the period of the device before is kept.
InWdResetKeepsPeriod ==
    /\ haveBurst' = FALSE
    /\ burstAge' = 0 /\ UNCHANGED <<inputAge, intervals>>
    /\ silent' = FALSE /\ silenceRecoveries' = 0 /\ silenceWindow' = 0

\* reset(): a new device.
InWdReset ==
    /\ intervals' = <<>> /\ haveBurst' = FALSE
    /\ burstAge' = 0 /\ inputAge' = 0
    /\ silent' = FALSE /\ silenceRecoveries' = 0 /\ silenceWindow' = 0

\* s[n / 2] of the sorted intervals: the smallest with more than half below or at it.
Known == {intervals[i] : i \in DOMAIN intervals}
AtMost(x) == Cardinality({i \in DOMAIN intervals : intervals[i] <= x})
Median == CHOOSE x \in Known : /\ AtMost(x) > Len(intervals) \div 2
                               /\ \A y \in Known : AtMost(y) > Len(intervals) \div 2 => x <= y

IsPeriodic ==
    /\ Len(intervals) = Samples
    /\ Median > 0
    /\ \A x \in Known : 4 * (x - Median) <= Median /\ 4 * (Median - x) <= Median

SilenceThreshold ==
    LET factored == IF intervals = <<>> THEN 0 ELSE SilenceFactor * Median
    IN  IF factored > MinSilence THEN factored ELSE MinSilence

IsSilent == IsPeriodic /\ inputAge >= SilenceThreshold

Learned(interval) ==
    LET all == Append(intervals, interval)
    IN  IF Len(all) > Samples THEN Tail(all) ELSE all

\* Mutant: the gap of a silence counts as a period.
OnInputLearnsGap(age) ==
    /\ silent' = FALSE /\ silenceRecoveries' = 0 /\ silenceWindow' = 0
    /\ inputAge' = age
    /\ IF haveBurst /\ inputAge - age < BurstGap
       THEN UNCHANGED <<intervals, haveBurst, burstAge>>
       ELSE /\ intervals' = IF haveBurst THEN Learned(burstAge - age) ELSE intervals
            /\ haveBurst' = TRUE /\ burstAge' = age

\* onInput(): a packet the HID task received `age` ticks ago.
OnInput(age) ==
    /\ silent' = FALSE /\ silenceRecoveries' = 0 /\ silenceWindow' = 0
    /\ inputAge' = age
    /\ IF haveBurst /\ inputAge - age < BurstGap
       THEN UNCHANGED <<intervals, haveBurst, burstAge>>
       ELSE LET gap == burstAge - age IN
            /\ intervals' = IF haveBurst /\ ~(IsPeriodic /\ gap >= SilenceThreshold)
                            THEN Learned(gap) ELSE intervals
            /\ haveBurst' = TRUE /\ burstAge' = age

\* Mutant: a silence that was found is left at that.
SilenceDueOnce(polled) == ~polled /\ IsSilent /\ ~silent

\* tick(), after setValuesPolled(polled): acts on a silence when it is found, then
\* every SilenceRetry.
SilenceDue(polled) == ~polled /\ IsSilent /\ (silent => silenceWindow >= SilenceRetry)
SilenceAction(polled) ==
    CASE ~SilenceDue(polled) -> "NONE"
      [] SilenceDue(polled) -> IF silenceRecoveries >= MaxSilenceRecoveries
                               THEN "RESTART" ELSE "RECOVER"

InWdTick(polled) ==
    /\ IF SilenceDue(polled)
       THEN /\ silent' = TRUE /\ silenceWindow' = 0
            /\ silenceRecoveries' = IF silenceRecoveries < MaxSilenceRecoveries
                                    THEN silenceRecoveries + 1 ELSE silenceRecoveries
       ELSE UNCHANGED <<silent, silenceWindow, silenceRecoveries>>
    /\ UNCHANGED <<intervals, haveBurst, burstAge, inputAge>>

InWdElapse ==
    /\ burstAge' = Older(burstAge, AgeLimit)
    /\ inputAge' = Older(inputAge, AgeLimit)
    /\ silenceWindow' = IF silent THEN Older(silenceWindow, SilenceRetry) ELSE 0
    /\ UNCHANGED <<intervals, haveBurst, silent, silenceRecoveries>>

==============================================================================
