CONSTANTS
    w1 = w1
    w2 = w2
    t1 = t1
    t2 = t2
    Workers = {w1, w2}
    Tasks = {t1, t2}
    NoThread = NoThread
    MaxKills = 1
    MaxSpurious = 1
SPECIFICATION Spec
INVARIANTS
    TypeOK
    NoMissedWakeup
    HeldOnce
    RunningIsInHand
PROPERTIES
    WaitingIsServed
    StartedIsFinished
CHECK_DEADLOCK FALSE
