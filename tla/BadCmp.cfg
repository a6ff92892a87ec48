SPECIFICATION Spec
CONSTANTS
    Radix = 2
    WordBytes = 2
    Kinds = {"Int256"}
    N8 = 2
    N16 = 4
    N32 = 8
    N64 = 32
    Ten = 2
    Digits = 2
    DaySeconds = 2
    Reach = 34
    WideReach = 260
    MaxRows = 2
    Names = {"a", "b"}
    Reinfer = FALSE
INVARIANTS
    Int256Ordered
CHECK_DEADLOCK FALSE
