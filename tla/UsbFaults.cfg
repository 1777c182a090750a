CONSTANTS
    BackoffBase = 1
    BackoffMax = 1
    StaleAfter = 2
    LinkTimeout = 2
    MaxLinkRecoveries = 1
    StuckRestart = 1
    MaxDescAttempts = 2
    DescRetryDelay = 1
    FirstCycle = 1
    CycleInterval = 1
    MaxPortCycles = 1
    BackTimeout = 1
    MaxCycles = 1
    CycleWindow = 2
    MaxInRecoveries = 1
    MaxInStartAttempts = 2
    FirstDataMax = 1
    InterruptPipe = TRUE
    EventBound = 2
    Faults = {"mute", "err", "unplug", "in_error", "cancel", "open", "power"}
SPECIFICATION Spec
INVARIANTS
    UsbInv
    ServedFresh
PROPERTIES
    RestartEarned
    CycleEarned
