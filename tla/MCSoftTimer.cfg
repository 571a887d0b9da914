CONSTANTS
    timer1 = timer1
    timer2 = timer2
    timer3 = timer3
    Timers <- ThreeTimers
    Last = last
    Null = null
    Expiries <- MCExpiries
    BootJiffies = 1
    MaxJiffies = 6
    Limits <- MCLimits
SPECIFICATION FairSpec
INVARIANTS
    TimerListRight
    FiresOnce
PROPERTIES
    InTime
    EveryTimerFires
CHECK_DEADLOCK FALSE
