CONSTANTS
    p1 = p1
    p2 = p2
    p3 = p3
    Idle = idle
    ListHead = head
    NULL = null
    Procs <- MCProcs
    SemaphoreUsers <- MCProcs
    Asks <- MCAsks
    Units = 1

SPECIFICATION Spec

INVARIANTS
    
    RequestsIntact
    ReturnsServed
    UnitsKept
PROPERTIES
    ImplementsUnitPool
    RequestIsServed
\* A fault stops the kernel.
CHECK_DEADLOCK FALSE
