SPECIFICATION Spec
CONSTANT D = 100
CONSTANT FeeRate = 1
CONSTANT Slippage = 1
CONSTANT NoPrice = NoPrice
CONSTANT MaxRiskPerTrade = 10
CONSTANT MaxPositionSize = 50
CONSTANT MaxAssetExposure = 50
CONSTANT MaxPortfolioExposure = 80
CONSTANT MaxDailyLoss = 10
CONSTANT MaxDrawdown = 20
CONSTANT MaxConsecutiveLosses = 2
CONSTANT MaxSimultaneousPositions = 2
CONSTANT Cooldown = 1
CONSTANT ApiFailureThreshold = 5
CONSTANT ModelHealthProtection = TRUE
CONSTANT MaxSpread = 1
CONSTANT MaxVolatility = 8
CONSTANT MaxSlippage = 1
CONSTANT Symbols = {BTC}
CONSTANT BTC = BTC
CONSTANT Prices = {8, 10, 12}
CONSTANT Plans <- OnePlan
CONSTANT Clients = {c1, c2}
CONSTANT c1 = c1
CONSTANT Monitor = Monitor
CONSTANT InitialBalance = 1000000
CONSTANT EngineStates = {"RUNNING"}
CONSTANT DayLength = 1
CONSTANT FiltersOf <- NoConstraint
CONSTANT MaxPositions = 2
CONSTANT MaxQuantity = 10
CONSTANT MaxTime = 0
CONSTANT MetadataStates = {TRUE}
CONSTANT c2 = c2
INVARIANT OneOpenPerSymbol
