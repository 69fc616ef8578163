SPECIFICATION Spec
CONSTANTS
    w1 = w1
    w2 = w2
    s1 = s1
    s2 = s2
    q1 = q1
    o1 = o1
    Requests <- MCRequests
    OneWayRequests <- MCOneWayRequests
    NULL = NULL
    Workers <- MCWorkers
    Subscriptions <- MCSubscriptions
    Inbound <- MCInbound
    MaxTime = 1
    MaxSubmitted = 3
SYMMETRY WorkerSymmetry
CHECK_DEADLOCK FALSE
INVARIANTS
    TypeOK
    ExpiredNeverDispatched
    UnregisteredBeforeErrorReported
    FutureResolvedBeforeListenerTold
