CONSTANTS
    c1 = c1
    c2 = c2
    Clients = {c1, c2}
    NoClient = NoClient
    SimCount = 1
    MAX_TASKS = 1
    MaxAge = 0
    LastId = 2
    LastTime = 2
SPECIFICATION WebSpec
INVARIANTS
    WebTypeOK
    StatusAddsUp
    CancelledNeverRuns
    AtMostOneMore
PROPERTIES
    ServedOrStalled
    StopsUnlessItWaits
CHECK_DEADLOCK FALSE
