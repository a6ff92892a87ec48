SPECIFICATION FairSpec
CONSTANTS
    Chatter = {"Progress", "ProfileEvents", "TableColumns"}
    Schemas = {"one"}
    MaxQueries = 2
    MaxPackets = 1
    MaxRows = 1
    Window = 2
    Faults = {"net", "ctx"}
    Callers = {c1}
    Shapes = {"fits", "miscount"}
    Manual = {"Unlock"}
PROPERTIES
    OperationReturns
    DrainReturns
CHECK_DEADLOCK FALSE
