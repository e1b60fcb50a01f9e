SPECIFICATION FairSpec
CONSTANT Sockets = {1, 2}
CONSTANT ticker = ticker
CONSTANT candle = candle
CONSTANT Topics = {ticker, candle}
CONSTANT Wanted <- Lists
CONSTANT QueueSize = 2
CONSTANT MaxConnections = 1
CONSTANT Patience = 2
CONSTANT Budgets <- FaultOrOverflow
INVARIANT AccountedFor
INVARIANT SlotsAreLive
PROPERTY LostPeersAreReleased
PROPERTY PageIsServed
