SPECIFICATION FairSpec
CONSTANT StaleAfter = 1
CONSTANT ProbeTimeout = 1
CONSTANT FailureThreshold = 2
CONSTANT StoredModes <- SavedModes
CONSTANT LiveEnabled = FALSE
CONSTANT MaxOutages = 1
CONSTANT MaxStarts = 2
CONSTANT MaxCalls = 3
INVARIANT ShutdownIsOrderly
PROPERTY HealthyIsFresh
PROPERTY FeedRecovers
