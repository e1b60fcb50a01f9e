SPECIFICATION Spec
CONSTANT D = 10
CONSTANT FeeRate = 2
CONSTANT Slippage = 1
CONSTANT NoPrice = NoPrice
CONSTANT MaxRiskPerTrade = 2
CONSTANT MaxPositionSize = 5
CONSTANT MaxAssetExposure = 6
CONSTANT MaxPortfolioExposure = 8
CONSTANT MaxDailyLoss = 1
CONSTANT MaxDrawdown = 2
CONSTANT MaxConsecutiveLosses = 2
CONSTANT MaxSimultaneousPositions = 2
CONSTANT Cooldown = 1
CONSTANT ApiFailureThreshold = 5
CONSTANT ModelHealthProtection = TRUE
CONSTANT MaxSpread = 1
CONSTANT MaxVolatility = 8
CONSTANT MaxSlippage = 1
CONSTANT Cash = {5, 20, 40}
CONSTANT HeldValue = {0, 12, 20}
CONSTANT Entries = {2, 4}
CONSTANT Stops = {NoPrice, 1, 3, 4}
CONSTANT Losses = {0, 3}
CONSTANT Lots = {NoPrice, 2}
INVARIANT SizeIsLargestLegal
INVARIANT HaltIsNeverMasked
CHECK_DEADLOCK FALSE
