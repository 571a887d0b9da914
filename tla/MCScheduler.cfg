CONSTANTS
    t1 = t1
    t2 = t2
    t3 = t3
    Idle = idle
    Tasks <- MCTasks
    BootJiffies = 4
    MaxJiffies = 14
    MaxNest = 2
    MaxDelay = 2
SPECIFICATION Spec
INVARIANTS
    RunQueueRight
    SectionHolderRuns
    LagBounded
PROPERTIES
    LeastRunFirst
    OverdrawnForEver
    ImplementsTaskPool
CHECK_DEADLOCK FALSE
