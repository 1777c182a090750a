CONSTANTS
    MaxDevices = 2
    Timeouts = {1, 2}
    LockTimeout = 2
    UninstallTimeout = 3
SPECIFICATION HidFairSpec

    
PROPERTIES
    BothReturn
