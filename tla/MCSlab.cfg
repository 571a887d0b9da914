CONSTANTS
    small = small
    descriptors = descriptors
    large = large
    cache = cache
    PAGE_2M_SIZE = 2
    WORD = 8
    PoolPages = 3
    Machines <- MCMachines
    Sizes <- MCSizes
    InPage <- MCInPage
    Caches <- MCCaches
    Count <- MCCount
    CreatedCount <- MCCreatedCount
    PoolPage <- MCPoolPage
    DescSize = descriptors
    CacheSize = small
    MapSize <- MCMapSize
    Numbers <- MCNumbers
    MaxHeld <- MCMaxHeld
SPECIFICATION Spec
INVARIANTS
    BooksRight
    OneOwner
    KmallocFailsOnlyWhenFull
PROPERTIES
    PoolStays
    ImplementsHeap
CHECK_DEADLOCK FALSE
