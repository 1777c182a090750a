CONSTANTS
    Token = {t1, t2, t3, t4}
    NoToken = NoToken
    MaxSessions = 1
    MaxPersistentSessions = 2
    IdleTimeout = 1
    MaxSeq = 3
    FreeAttempts = 1
    MaxDelay = 1
    MaxFailures = 2
    RecoveryTime = 1
SPECIFICATION AuthSpec
INVARIANTS
    AuthInv
    ClearedIsFinal
PROPERTIES
    SlotsImplementSessions
    ChangerStaysIn
SYMMETRY TokenSymmetry
