SPECIFICATION Spec
CONSTANTS
    Objects = {a, b}
    SubscriptionIds = {s1}
    Responses = {r1}
    Exceptions = {e1, e2}
    ArchiveIds <- MCArchiveIds
    RegisteredOutputArchives <- MCRegisteredArchives
    RegisteredInputArchives <- MCRegisteredArchives
    MaxErrors = 3
    EMPTY = EMPTY
    NULL = NULL
INVARIANTS
    TypeOK
    EqualsIsEqualityOfValues
PROPERTIES
    RoundTripPreservesValue
