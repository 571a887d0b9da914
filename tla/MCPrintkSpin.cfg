CONSTANTS
    MaxDepth = 4
    TimersDue = {TRUE, FALSE}
    DisksPrint = {TRUE, FALSE}
SPECIFICATION Spec
INVARIANT NoInterruptSpins
CHECK_DEADLOCK FALSE
