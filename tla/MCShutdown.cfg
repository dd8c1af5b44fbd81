CONSTANTS
    NUM_WORKERS = 1
    Workers = {0}
    Tasks = {}
    NoThread = NoThread
    MaxKills = 0
    MaxSpurious = 0
    MaxFaults = 0
SPECIFICATION SupervisorSpec
PROPERTIES
    ShutdownCompletes
CHECK_DEADLOCK FALSE
