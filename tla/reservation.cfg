SPECIFICATION FairSpec
CONSTANTS
    Tenants = {acme, globex}
    MaxReservations = 2
    Amounts = {2}
    Costs = {1, 3}
    Limits = {2, 4}
    TTL = 1
    Sweepers = {s1, s2}
INVARIANTS
    TypeOK
    BooksBalance
    ExposureBounded
    ExpiredOnlyAfterDeadline
    ReconcileAnswersAgree
PROPERTIES
    ClosedIsFinal
    ImplementsBook
    HostageReleased
