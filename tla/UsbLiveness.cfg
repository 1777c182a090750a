CONSTANTS
    BackoffBase = 1
    BackoffMax = 2
    StaleAfter = 2
    LinkTimeout = 3
    MaxLinkRecoveries = 1
    StuckRestart = 1
    MaxDescAttempts = 2
    DescRetryDelay = 1
    FirstCycle = 1
    CycleInterval = 1
    MaxPortCycles = 1
    BackTimeout = 2
    MaxCycles = 1
    CycleWindow = 3
    MaxInRecoveries = 1
    MaxInStartAttempts = 2
    FirstDataMax = 2
    InterruptPipe = TRUE
    EventBound = 2
    Faults = {"mute", "err", "cancel", "open", "power"}
SPECIFICATION FairSpec
PROPERTIES
    FailureEscalates
    StuckReleased
    AttachedServed
