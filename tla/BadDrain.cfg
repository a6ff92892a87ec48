SPECIFICATION FairSpec
CONSTANTS
    Chatter = {"Progress", "ProfileEvents"}
    Schemas = {"one"}
    MaxQueries = 1
    MaxPackets = 2
    MaxRows = 1
    Window = 2
    Faults = {"throw"}
    Callers = {c1}
    Shapes = {"fits", "miscount"}
    Manual = {}
PROPERTIES
    DrainReturns
CHECK_DEADLOCK FALSE
