CONSTANTS
    t1 = t1
    NUM_WORKERS = 2
    Workers = {0, 1}
    Tasks = {t1}
    NoThread = NoThread
    MaxKills = 1
    MaxSpurious = 0
    MaxFaults = 1
SPECIFICATION SupervisorSpec
INVARIANTS
    SupervisorTypeOK
    LeavesNoWorker
PROPERTIES
    ShutdownEndsOrIsStuck
    CountSettles
CHECK_DEADLOCK FALSE
