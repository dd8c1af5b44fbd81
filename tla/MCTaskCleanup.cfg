CONSTANTS
    MAX_TASKS = 2
    MaxAge = 1
    LastId = 2
    LastTime = 4
SPECIFICATION CleanupSpec
INVARIANT KeepsOnlyUnfinishedOrRecent
