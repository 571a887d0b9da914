CONSTANTS
    timer1 = timer1
    timer2 = timer2
    timer3 = timer3
    Timers <- OneTimer
    Last = last
    Null = null
    Expiries <- MCExpiries
    BootJiffies = 1
    MaxJiffies = 6
    Limits <- Nested
SPECIFICATION Spec
INVARIANT LastNeverExpires
CHECK_DEADLOCK FALSE
