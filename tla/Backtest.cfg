SPECIFICATION Spec
CONSTANT D = 100
CONSTANT FeeRate = 1
CONSTANT Slippage = 1
CONSTANT NoPrice = NoPrice
CONSTANT MaxRiskPerTrade = 20
CONSTANT MaxPositionSize = 100
CONSTANT MaxAssetExposure = 100
CONSTANT MaxPortfolioExposure = 100
CONSTANT MaxDailyLoss = 40
CONSTANT MaxDrawdown = 30
CONSTANT MaxConsecutiveLosses = 2
CONSTANT MaxSimultaneousPositions = 1
CONSTANT Cooldown = 60
CONSTANT ApiFailureThreshold = 5
CONSTANT ModelHealthProtection = TRUE
CONSTANT MaxSpread = 1
CONSTANT MaxVolatility = 8
CONSTANT MaxSlippage = 1
CONSTANT Bars <- AllBars
CONSTANT Orders <- BothOrders
CONSTANT InitialCapital = 1000000
CONSTANT LotFilters <- EvenLots
CONSTANT BarSeconds = 60
CONSTANT MaxBars = 6
INVARIANT TypeOK
INVARIANT EndsFlat
INVARIANT CooldownSeparatesTrades
INVARIANT PeakCoversCurve
PROPERTY ImplementsLedger
PROPERTY BarExitsArePessimistic
PROPERTY HaltedForGood
CHECK_DEADLOCK FALSE
