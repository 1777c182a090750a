------------------------------ MODULE LogFilter ------------------------------
(***************************************************************************)
(* Minimum level and rate limit of one log output                          *)
(* (lib/LogCore/src/LogOutputFilter.h).  A token is a line; refill() adds  *)
(* one per tick, and the first check() after configure() needs no refill   *)
(* of its own, the bucket being full.                                      *)
(***************************************************************************)
EXTENDS Ticks

CONSTANT Burst    \* burst(): lines that may leave at once

ASSUME BurstAssumption == Burst \in Nat \ {0}

VARIABLES
    tokens,      \* _tokens_milli / 1000
    refillAge,   \* ticks since _last_ms, up to Burst
    suppressed,  \* _suppressed
    refused      \* _stats.rate_limited

filterVars == <<tokens, refillAge, suppressed, refused>>

FilterTypeOK ==
    /\ tokens \in 0..Burst
    /\ refillAge \in 0..Burst
    /\ suppressed \in Nat
    /\ refused \in Nat

FilterInit == tokens = Burst /\ refillAge = 0 /\ suppressed = 0 /\ refused = 0

\* configure(): a full bucket; the lines refused so far stay to be announced.
FilterConfigure ==
    /\ tokens' = Burst /\ refillAge' = 0
    /\ UNCHANGED <<suppressed, refused>>

Refilled == IF tokens + refillAge < Burst THEN tokens + refillAge ELSE Burst

\* check() = SEND, then takeSuppressed().
FilterAccepts ==
    /\ Refilled > 0
    /\ tokens' = Refilled - 1 /\ refillAge' = 0
    /\ suppressed' = 0
    /\ UNCHANGED refused

\* check() = RATE_LIMITED.
FilterRefuses ==
    /\ Refilled = 0
    /\ tokens' = 0 /\ refillAge' = 0
    /\ suppressed' = suppressed + 1
    /\ refused' = refused + 1

FilterElapse ==
    /\ refillAge' = Older(refillAge, Burst)
    /\ UNCHANGED <<tokens, suppressed, refused>>

==============================================================================
