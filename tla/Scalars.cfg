SPECIFICATION Spec
CONSTANTS
    Radix = 2
    WordBytes = 2
    Kinds = {"Int128", "Int256", "UInt128", "UInt256", "Decimal32", "Decimal64", "Decimal128", "Decimal256", "Date", "Date32", "DateTime", "DateTime64", "Enum8", "Enum16"}
    N8 = 2
    N16 = 4
    N32 = 8
    N64 = 32
    Ten = 2
    Digits = 2
    DaySeconds = 2
    Reach = 34
    WideReach = 260
    MaxRows = 2
    Names = {"", "a", "b"}
    Reinfer = FALSE
INVARIANTS
    TypeOK
    RowIsGiven
    OrderKept
    OutOfRangeRefused
    EnumReads
CHECK_DEADLOCK FALSE
