SPECIFICATION ServerSpec
CONSTANTS
    Backends = {"memory", "postgres"}
    Tenants = {"acme", "demo-corp"}
    Keys = {k1, k2}
    Grants <- MCGrants
    Callers = {c1, c2}
    Demo = "demo-corp"
    Switches <- MCSwitches
    MaxStarts = 2
    MaxEvents = 2
SYMMETRY MCSymmetry
INVARIANTS
    ServerTypeOK
    RevocationHonoured
    OnlyAuthorised
    FlipsAudited
    TrailTellsSwitch
    ProductionStoppable
