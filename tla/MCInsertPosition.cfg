CONSTANT MAX_TASKS = 8
SPECIFICATION Spec
INVARIANTS
    TypeOK
    ReadsInUse
    FindsInsertPos
PROPERTIES
    Halves
    Terminates
CHECK_DEADLOCK FALSE
