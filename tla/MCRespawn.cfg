CONSTANTS
    NUM_WORKERS = 1
    Workers = {0}
    Tasks = {}
    NoThread = NoThread
    MaxKills = 1
    MaxSpurious = 0
    MaxFaults = 0
SPECIFICATION SupervisorSpec
PROPERTIES
    WorkersAreRespawned
CHECK_DEADLOCK FALSE
