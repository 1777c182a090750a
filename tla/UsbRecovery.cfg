CONSTANTS
    BackoffBase = 1
    BackoffMax = 1
    StaleAfter = 2
    LinkTimeout = 2
    MaxLinkRecoveries = 1
    StuckRestart = 1
    MaxDescAttempts = 2
    DescRetryDelay = 1
    FirstCycle = 1
    CycleInterval = 1
    MaxPortCycles = 1
    BackTimeout = 1
    MaxCycles = 1
    CycleWindow = 2
    MaxInRecoveries = 1
    MaxInStartAttempts = 1
    FirstDataMax = 1
    InterruptPipe = FALSE
    EventBound = 2
    MaxRestarts = 2
    MaxDelay = 1
    Delay <- MCDelay
    ProvenReset = 1
    HealthyReset = 2
    Faults = {"mute", "reset"}
SPECIFICATION RecoveryFairSpec
INVARIANTS
    ArmedInRow
    
    SickRestartsBounded
    RestartWaitedOut
PROPERTIES
    RowEndsLive
    
    RequestAnswered
    UpsComesBack
