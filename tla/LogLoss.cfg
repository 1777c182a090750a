CONSTANTS
    named = named
    fixed = fixed
    Burst = 1
    QueueLength = 2
    Host <- MCHost
    Literals <- MCLiterals
    NoHost = NoHost
    RetryAfter = 1
    RefreshAfter = 1
    AgeCap = 2
    Hold = 1
    MaxLag = 1
    Saveable <- MCSaveable
    AtBoot <- MCAtBoot
    MaxLines = 3
    MaxChanges = 1
SPECIFICATION LogSpec
PROPERTIES
    LossReported
