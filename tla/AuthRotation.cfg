CONSTANTS
    Token = {t1, t2, t3}
    NoToken = NoToken
    MaxSessions = 1
    MaxPersistentSessions = 1
    IdleTimeout = 1
    MaxSeq = 3
    FreeAttempts = 1
    MaxDelay = 2
    MaxFailures = 2
    RecoveryTime = 1
SPECIFICATION AuthSpec
INVARIANTS
    RotatedOutIsFinal
SYMMETRY TokenSymmetry
