SPECIFICATION Spec
CONSTANTS
    Users = {u1, u2}
    NumAddrs = 2
    MaxConns = 1
    MaxPools = 2
    HealthChecks = TRUE
    Ops = {"query", "stream"}
    Nested = FALSE
    Troubles = {"refused"}
INVARIANTS
    TypeOK
    OneHolder
    RetiredIsEmpty
    LiveIsOpen
    CloseShutsDown
SYMMETRY Symmetry
CHECK_DEADLOCK FALSE
