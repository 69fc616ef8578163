SPECIFICATION FairSpec
CONSTANTS
    p1 = p1
    p2 = p2
    NULL = NULL
    Participants <- MCParticipants
    Rank <- MCRank
    Messages <- MCMessages
    MaxTime = 2
    MaxItems = 3
INVARIANTS
    TypeOK
    SingleOwner
    SweepLoopInvariant
    SweepCountsRemovals
PROPERTIES
    ImplementsMessageStore
    FifoPerParticipant
    OutdatedEventuallyRemoved
