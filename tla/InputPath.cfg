CONSTANTS
    Samples = 2
    BurstGap = 1
    SilenceFactor = 2
    MinSilence = 3
    SilenceRetry = 3
    MaxSilenceRecoveries = 1
    AgeLimit = 5
    Mps = 2
    MaxReport = 4
    MaxGap = 1
    GapCap = 3
    QueueLen = 4
    Reserved = 2
    MaxInRecoveries = 1
    Devices <- MCDevices
    MaxAway = 1
    MaxOthers = 2
SPECIFICATION InputFairSpec

    
PROPERTIES
    
    AlignsAgain
    LifecycleKept
    
    PeriodKept
    SilenceEnds
