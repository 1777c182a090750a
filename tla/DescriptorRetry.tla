--------------------------- MODULE DescriptorRetry ---------------------------
(***************************************************************************)
(* Class DescriptorRetry (lib/USBHostUPS/src/DescriptorRetry.h): repeated  *)
(* reads of the report descriptor of an interface that just connected.     *)
(***************************************************************************)
EXTENDS Ticks

CONSTANTS
    MaxDescAttempts,  \* MAX_ATTEMPTS
    DescRetryDelay    \* RETRY_DELAY_MS

ASSUME DescriptorRetryAssumption ==
    /\ MaxDescAttempts \in Nat \ {0}
    /\ DescRetryDelay \in Nat

VARIABLES
    descPending,   \* _pending
    descAttempts,  \* _attempts
    descLeft       \* _retryAt - now

descVars == <<descPending, descAttempts, descLeft>>

DescTypeOK ==
    /\ descPending \in BOOLEAN
    /\ descAttempts \in 0..(MaxDescAttempts - 1)
    /\ descLeft \in 0..DescRetryDelay

DescInit ==
    /\ descPending = FALSE
    /\ descAttempts = 0
    /\ descLeft = 0

DescDue == descPending /\ descLeft = 0

\* onFailure() answers false: the attempts are over.
LastDescAttempt == descAttempts + 1 >= MaxDescAttempts

DescClear ==
    /\ descPending' = FALSE
    /\ descAttempts' = 0
    /\ descLeft' = 0

\* Mutant: the interface is dropped at the first failure.
DescFailureDrops ==
    IF LastDescAttempt THEN DescClear
    ELSE /\ descPending' = FALSE
         /\ descAttempts' = descAttempts + 1
         /\ UNCHANGED descLeft

DescFailure ==
    IF LastDescAttempt THEN DescClear
    ELSE /\ descPending' = TRUE
         /\ descAttempts' = descAttempts + 1
         /\ descLeft' = DescRetryDelay

DescElapse ==
    /\ descLeft' = Sooner(descLeft)
    /\ UNCHANGED <<descPending, descAttempts>>

==============================================================================
