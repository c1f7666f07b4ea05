SPECIFICATION Spec
CONSTANTS
    Cooldown = 1
    Callers = {c1, c2}
PROPERTIES
    StaleTrialNeverCloses
