SPECIFICATION FairSpec
CONSTANT Callers = {a, b}
CONSTANT a = a
CONSTANT b = b
CONSTANT FallbackRules <- FallbackLimits
CONSTANT ExchangeRules <- Declared
CONSTANT WeightOf <- Weights
CONSTANT Asks <- TaskAndRefresh
CONSTANT MaxRetries = 1
CONSTANT Backoff = 1
CONSTANT RetryAfters = {2}
CONSTANT RecvWindow = 1
CONSTANT Skews = {0, 3}
CONSTANT Latency = 1
CONSTANT Horizon = 2
CONSTANT MaxCalls = 2
INVARIANT WithinDeclaredLimits
INVARIANT RetryBudget
INVARIANT OffsetWithinHalfTrip
PROPERTY CallsEnd
