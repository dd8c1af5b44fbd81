CONSTANTS
    MAX_TASKS = 3
    MaxAge = 1
    LastId = 3
    LastTime = 3
    Clients = {c1, c2}
    NoCell = NoCell
SPECIFICATION ReplySpec
INVARIANT ReplyIsOwnId
