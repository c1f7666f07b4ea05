SPECIFICATION Spec
CONSTANTS
    Tenants = {"acme", "globex"}
    MaxReservations = 2
    Amounts = {2}
    Costs = {1, 3}
    Limits = {3}
    TTL = 1
    Sweepers = {s1}
    Providers = {"openai", "gone"}
    Registered = {"openai"}
    Cooldown = 1
    Switches <- MCSwitches
INVARIANTS
    TypeOK
    SpendAccounted
    OverspendFromEstimate
    BudgetHeldUpstream
    LedgerTellsFate
    TrialIsJudged
    AnswerTellsCharge
    KillSwitchStops
