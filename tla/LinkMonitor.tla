----------------------------- MODULE LinkMonitor -----------------------------
(***************************************************************************)
(* Class LinkMonitor (lib/USBHostUPS/src/LinkMonitor.h): the health of the *)
(* USB control pipe, the backoff of the polls and the recovery ladder.     *)
(*                                                                         *)
(* _failures only matters as zero or not and through the backoff it gives, *)
(* which doubles from BackoffBase to BackoffMax: `backoff' is that delay,  *)
(* 0 while _failures is 0.                                                 *)
(***************************************************************************)
EXTENDS Ticks

CONSTANTS
    BackoffBase,        \* backoffBaseMs
    BackoffMax,         \* backoffMaxMs
    StaleAfter,         \* staleAfterMs
    LinkTimeout,        \* linkTimeoutMs
    MaxLinkRecoveries,  \* maxRecoveries
    StuckRestart        \* stuckRestartMs

ASSUME LinkMonitorAssumption ==
    /\ BackoffBase \in Nat \ {0}
    /\ BackoffMax \in Nat \ {0}
    /\ BackoffBase <= BackoffMax
    /\ StaleAfter \in Nat \ {0}
    /\ LinkTimeout \in Nat \ {0}
    /\ StaleAfter <= LinkTimeout
    /\ MaxLinkRecoveries \in Nat
    /\ StuckRestart \in Nat \ {0}

VARIABLES
    backoff,          \* 0 when _failures = 0, else the last backoff computed
    backoffLeft,      \* _backoffUntilMs - now, 0 when polling is allowed
    linkRecoveries,   \* _recoveries
    firstFailureAge,  \* now - _firstFailureMs
    aliveAge,         \* now - _lastAliveMs
    windowAge         \* now - _windowStartMs

linkVars == <<backoff, backoffLeft, linkRecoveries, firstFailureAge, aliveAge, windowAge>>

LinkTypeOK ==
    /\ backoff \in 0..BackoffMax
    /\ backoffLeft \in 0..BackoffMax
    /\ linkRecoveries \in 0..MaxLinkRecoveries
    /\ firstFailureAge \in 0..StuckRestart
    /\ aliveAge \in 0..StaleAfter
    /\ windowAge \in 0..LinkTimeout

LinkInit ==
    /\ backoff = 0
    /\ backoffLeft = 0
    /\ linkRecoveries = 0
    /\ firstFailureAge = 0
    /\ aliveAge = 0
    /\ windowAge = 0

------------------------------------------------------------------------------
\* _failures > 0
LinkFailing == backoff > 0

CanPoll == backoffLeft = 0

LinkIsStale == LinkFailing /\ aliveAge >= StaleAfter

LinkReset ==
    /\ backoff' = 0
    /\ backoffLeft' = 0
    /\ linkRecoveries' = 0
    /\ firstFailureAge' = 0
    /\ aliveAge' = 0
    /\ windowAge' = 0

\* onAlive(): any answer, a STALL included.  firstFailureAge means nothing until
\* the next failure, which sets it.
LinkAlive == LinkReset

\* Mutant: the doubling is not capped.
LinkFailureUncapped ==
    /\ backoff' = IF ~LinkFailing THEN BackoffBase ELSE 2 * backoff
    /\ backoffLeft' = backoff'
    /\ firstFailureAge' = IF LinkFailing THEN firstFailureAge ELSE 0
    /\ UNCHANGED <<linkRecoveries, aliveAge, windowAge>>

\* onLinkFailure(): no answer at all.
LinkFailure ==
    /\ backoff' = IF ~LinkFailing THEN BackoffBase
                  ELSE IF 2 * backoff > BackoffMax THEN BackoffMax ELSE 2 * backoff
    /\ backoffLeft' = backoff'
    /\ firstFailureAge' = IF LinkFailing THEN firstFailureAge ELSE 0
    /\ UNCHANGED <<linkRecoveries, aliveAge, windowAge>>

\* Mutant: once the recoveries are over, nothing is left to try.
LinkTickGivesUp(stuck) ==
    IF LinkFailing /\ stuck /\ firstFailureAge >= StuckRestart THEN "RESTART"
    ELSE IF LinkFailing /\ windowAge >= LinkTimeout /\ linkRecoveries < MaxLinkRecoveries
    THEN "RECOVER" ELSE "NONE"

\* The action tick() returns.
LinkTick(stuck) ==
    CASE ~LinkFailing -> "NONE"
      [] LinkFailing /\ stuck /\ firstFailureAge >= StuckRestart -> "RESTART"
      [] OTHER -> IF windowAge < LinkTimeout THEN "NONE"
                  ELSE IF linkRecoveries >= MaxLinkRecoveries THEN "RESTART"
                  ELSE "RECOVER"

\* Mutant: a recovery also counts as an answer.
LinkRecoveringRenews ==
    /\ linkRecoveries' = linkRecoveries + 1
    /\ windowAge' = 0
    /\ backoffLeft' = 0
    /\ aliveAge' = 0
    /\ UNCHANGED <<backoff, firstFailureAge>>

\* Mutant: the recovered interface gets no window of its own.
LinkRecoveringHasty ==
    /\ linkRecoveries' = linkRecoveries + 1
    /\ backoffLeft' = 0
    /\ UNCHANGED <<backoff, firstFailureAge, aliveAge, windowAge>>

\* What tick() does to the monitor when it returns RECOVER.  aliveAge goes on:
\* the data stay stale until the device answers.
LinkRecovering ==
    /\ linkRecoveries' = linkRecoveries + 1
    /\ windowAge' = 0
    /\ backoffLeft' = 0
    /\ UNCHANGED <<backoff, firstFailureAge, aliveAge>>

LinkElapse ==
    /\ backoffLeft' = Sooner(backoffLeft)
    /\ firstFailureAge' = IF LinkFailing THEN Older(firstFailureAge, StuckRestart)
                                         ELSE firstFailureAge
    /\ aliveAge' = Older(aliveAge, StaleAfter)
    /\ windowAge' = Older(windowAge, LinkTimeout)
    /\ UNCHANGED <<backoff, linkRecoveries>>

==============================================================================
