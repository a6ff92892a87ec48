SPECIFICATION Spec
CONSTANTS
    Vals = {v0, v1}
    Zero = v0
    Kinds = {"array", "map", "tuple", "nullable"}
    MaxRows = 2
    MaxBlock = 2
    MaxElems = 2
    Damage = {"cut", "order", "wide"}
INVARIANTS
    TypeOK
    ViewIsContent
    WrittenIsContent
CHECK_DEADLOCK FALSE
