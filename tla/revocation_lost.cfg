SPECIFICATION Spec
CONSTANTS
    Backends = {"memory"}
    Tenants = {"acme"}
    Keys = {k1}
    Grants = {{}}
    Callers = {c1, c2}
INVARIANTS
    RevocationHonoured
