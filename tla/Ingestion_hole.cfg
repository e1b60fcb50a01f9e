SPECIFICATION Spec
CONSTANT btc = btc
CONSTANT eth = eth
CONSTANT Pairs = {btc}
CONSTANT Backfill = Backfill
CONSTANT Stream = Stream
CONSTANT Api = Api
CONSTANT NoRow = NoRow
CONSTANT PageSize = 2
CONSTANT MaxPages = 2
CONSTANT StatementRows = 2
CONSTANT Ahead = 0
CONSTANT Behind = 0
CONSTANT Horizon <- Three
PROPERTY BackfillReachesBack
