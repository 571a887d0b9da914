CONSTANTS
    MaxDepth = 4
    TimersDue = {TRUE, FALSE}
    DisksPrint = {TRUE, FALSE}
SPECIFICATION Spec
INVARIANTS
    OwnText
    CountRight
    SpinsOnlyForTimers
CHECK_DEADLOCK FALSE
