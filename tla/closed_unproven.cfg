SPECIFICATION Spec
CONSTANTS
    Tenants = {"acme"}
    MaxReservations = 2
    Amounts = {2}
    Costs = {1}
    Limits = {5}
    TTL = 0
    Sweepers = {}
    Providers = {"openai", "gone"}
    Registered = {"openai"}
    Cooldown = 1
    Switches <- MCNoSwitches
PROPERTIES
    ClosedByCompletedRequest
