CONSTANTS
    MaxLaunches = 2
    MaxWebLaunches = 1
    MaxIncidents = 1
    None = None
SPECIFICATION Spec
INVARIANTS
    StartupTypeOK
    InheritsOnlyByHand
    RegisteredServes
    ReadyWhenUsed
    WebIsCurrent
PROPERTIES
    StartedIsServed
CHECK_DEADLOCK FALSE
