SPECIFICATION FairSpec
CONSTANTS
    Cooldown = 2
    Callers = {c1, c2, c3, c4}
INVARIANTS
    TypeOK
    TestingIsHeld
    TripHolds
PROPERTIES
    TrialResolves
    OpenRecovers
