SPECIFICATION Spec
CONSTANTS
    MaxLen = 2
    MaxRows = 3
    MaxStrings = 3
    MaxKept = 1
    Long = 2
    Group = 4
    Groups = 3
INVARIANTS
    TypeOK
    RowsAreGiven
    VarintExact
PROPERTIES
    KeptUntilReread
    GrowsBeyondPeak
CHECK_DEADLOCK FALSE
