SPECIFICATION Spec
CONSTANTS
    t1 = t1
    t2 = t2
    n1 = n1
    n2 = n2
    l1 = l1
    l2 = l2
    NULL = NULL
    Threads <- MCThreads
    Names <- MCNames
    Listeners <- MCListeners
SYMMETRY ThreadSymmetry
INVARIANT
    NoDataRace
