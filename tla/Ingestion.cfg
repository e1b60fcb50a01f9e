SPECIFICATION FairSpec
CONSTANT btc = btc
CONSTANT eth = eth
CONSTANT Pairs = {btc, eth}
CONSTANT Backfill = Backfill
CONSTANT Stream = Stream
CONSTANT Api = Api
CONSTANT NoRow = NoRow
CONSTANT PageSize = 2
CONSTANT MaxPages = 2
CONSTANT StatementRows = 2
CONSTANT Ahead = 1
CONSTANT Behind = 1
CONSTANT Horizon <- TwoAndNone
INVARIANT TypeOK
INVARIANT OnlyLiveCandlesLeaveHoles
INVARIANT ResumePointIsStored
INVARIANT CountNeverExceeds
PROPERTY JobFinishes
