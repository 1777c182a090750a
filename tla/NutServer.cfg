CONSTANTS
    Id = {k1, k2, k3}
    NoId = NoId
    Capacity = 2
    MaxAge = 1
    Value = {v1, v2}
    Unset = Unset
    NoValue = NoValue
    Conn = {c1, c2}
    NoConn = NoConn
    Single = c1
    MaxClients = 2
    IdleTimeout = 1
    Workloads <- MCWorkloads
SPECIFICATION NutFairSpec
INVARIANTS
    NutInv
    OutcomeKept
    PromiseKept
PROPERTIES
    SilentReleased
