SPECIFICATION Spec
CONSTANTS
    Chatter = {"ProfileEvents", "Log", "Totals"}
    Schemas = {"one", "two"}
    MaxQueries = 3
    MaxPackets = 2
    MaxRows = 1
    Window = 2
    Faults = {"throw", "net", "ctx"}
    Callers = {c1}
    Shapes = {"fits", "miscount", "stateful"}
    Manual = {"Release"}
CONSTRAINT Unsuspected
INVARIANTS
    CleanReady
PROPERTIES
    Delivered
CHECK_DEADLOCK FALSE
