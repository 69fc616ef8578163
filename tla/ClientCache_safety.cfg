SPECIFICATION Spec
CONSTANTS
    t1 = t1
    t2 = t2
    k1 = k1
    k2 = k2
    k3 = k3
    v1 = v1
    v2 = v2
    NULL = NULL
    EMPTY = EMPTY
    Threads <- MCThreads
    Keys <- MCKeys
    Values <- MCValues
    MaxCost = 2
    MaxAllocs = 4
INVARIANTS
    TypeOK
    EntryAliveWhileRead
    CostBoundedAndNothingLeaks
PROPERTY
    ImplementsAttributeCache
