SPECIFICATION Spec
CONSTANTS
    Chatter = {"ProfileEvents"}
    Schemas = {"one"}
    MaxQueries = 2
    MaxPackets = 1
    MaxRows = 1
    Window = 2
    Faults = {"throw", "net", "hang", "ctx", "close"}
    Callers = {c1, c2}
    Shapes = {"fits", "stateful"}
    Manual = {}
INVARIANTS
    TypeOK
    MutualExclusion
    OwnResponse
    NoSocketLeak
PROPERTIES
    ImplementsSession
SYMMETRY Symmetry
CHECK_DEADLOCK FALSE
