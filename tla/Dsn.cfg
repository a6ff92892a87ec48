SPECIFICATION Spec
CONSTANTS
    maxHosts = 2
    N32 = 8
    Rich = {"dial_timeout", "health_check_interval", "pool_max_conns", "compress", "secure", "s1", "s2"}
    MaxParams = 3
INVARIANTS
    TypeOK
    ErrorIsDetermined
    UsedAsWritten
    PoolHasRoom
CHECK_DEADLOCK FALSE
