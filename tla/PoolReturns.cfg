SPECIFICATION FairSpec
CONSTANTS
    Users = {u1, u2}
    NumAddrs = 1
    MaxConns = 1
    MaxPools = 2
    HealthChecks = TRUE
    Ops = {"query", "stream"}
    Nested = FALSE
    Troubles = {"refused", "ctx", "network", "other"}
PROPERTIES
    AcquireReturns
CHECK_DEADLOCK FALSE
