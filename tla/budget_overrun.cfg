SPECIFICATION Spec
CONSTANTS
    Tenants = {acme}
    MaxReservations = 1
    Amounts = {2}
    Costs = {3}
    Limits = {2}
    TTL = 1
    Sweepers = {s1}
INVARIANTS
    BudgetNeverExceeded
