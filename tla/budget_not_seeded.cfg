SPECIFICATION ProvisioningSpec
CONSTANTS
    Backends = {"postgres"}
    Tenants = {"acme", "demo-corp"}
    Keys = {k1, k2}
    Grants <- MCGrants
    Callers = {c1}
    Demo = "demo-corp"
    Switches <- MCSwitches
    MaxStarts = 1
    MaxEvents = 1
INVARIANTS
    ProvisionedServed
