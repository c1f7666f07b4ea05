SPECIFICATION Spec
CONSTANTS
    Lookback <- MCLookback
    Scale = 60
    Costs = {1, 40}
    Exposures <- MCExposures
    Recorders = 2
    MaxRecords = 2
INVARIANTS
    TypeOK
    SumIsRecentSpend
    WindowsNested
    BaselineInRange
    CalmIsAllowed
    BlockNeedsBudget
PROPERTIES
    BurstForgotten
