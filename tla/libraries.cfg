SPECIFICATION MCSpec
CONSTANTS
    MaxTime = 4
    MaxRates = 3
    Untils = {0, 2, 4}
    Width = 16
    Prices <- MCPrices
    Keys = {"acme", "globex"}
    RateLimits <- MCRateLimits
    Cost = 3
    IdleTTL = 4
INVARIANTS
    Gapless
    RateAtIsLatest
    EstimateCoversCost
    LimiterTypeOK
PROPERTIES
    HistoryStable
    ImplementsTokenBucket
