CONSTANTS
    BackoffBase = 2
    BackoffMax = 2
    StaleAfter = 2
    LinkTimeout = 3
    MaxLinkRecoveries = 1
    StuckRestart = 1
    FullReports <- MCFullReports
    QuickPolls = {0, 1}
    FullPoll = 2
    FirstDataMax = 1
    NumCommands = 2
    OnDemand = 2
SPECIFICATION ShutdownFairSpec
INVARIANTS
    ShutdownInv
    
PROPERTIES
    LowBatteryHandled
    ExportReadEnds
