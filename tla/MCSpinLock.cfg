CONSTANTS
    p1 = p1
    p2 = p2
    p3 = p3
    p4 = p4
    Nobody = nobody
    CPUs <- MCCPUs
    Disciplines <- Unmixed
SPECIFICATION FairSpec
INVARIANTS
    TypeOK
    MutualExclusion
PROPERTIES
    SomeoneEnters
    ImplementsMutex
