CONSTANTS
    MaxTasks = 1
    MaxOpen = 2
    MaxAnims = 2
    None = None
SPECIFICATION Spec
INVARIANTS
    DashboardTypeOK
    OneTimer
    PlottedOnce
    CardSettles
PROPERTIES
    ShowsWhatWas
    EventuallyShown
