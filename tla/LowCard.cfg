SPECIFICATION Spec
CONSTANTS
    Vals = {v0, v1, v2}
    Zero = v0
    NaNs = {}
    Types = {"uint8", "other"}
    Radix = 2
    MaxRows = 3
    MaxDict = 2
    MaxKeys = 1
    MaxUnread = 1
    Damage = {"meta", "dict", "keys", "index"}
    Mixed = FALSE
INVARIANTS
    TypeOK
    RoundTrip
    DamageReported
    ViewIsContent
SYMMETRY Symmetry
CHECK_DEADLOCK FALSE
