SPECIFICATION Spec
CONSTANTS
    r1 = r1
    r2 = r2
    p1 = p1
    p2 = p2
    a1 = a1
    a2 = a2
    s1 = s1
    s2 = s2
    garbage = garbage
    NULL = NULL
    Receivers <- MCReceivers
    Participants <- MCParticipants
    Rank <- MCRank
    Addresses <- MCAddresses
    SerializedAddresses <- MCSerializedAddresses
    AddressOf <- MCAddressOf
    RawMessages <- MCRawMessages
    MaxTime = 1
    MaxItems = 3
    MaxReceived = 3
    FindFirst = FALSE
SYMMETRY ReceiverSymmetry
INVARIANTS
    TypeOK
    NoSilentLoss
    ReplyPathLearnedBeforeForward
