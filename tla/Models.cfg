SPECIFICATION FairSpec
CONSTANT LabelHorizon = 2
CONSTANT TrainFraction = 60
CONSTANT ValidationFraction = 20
CONSTANT MinTrainingRows = 2
CONSTANT None = None
CONSTANT TechnicalWeight = 40
CONSTANT LightgbmWeight = 60
CONSTANT MinConfidence = 30
CONSTANT ActionMargin = 10
CONSTANT NoVersion = NoVersion
CONSTANT NoBackup = NoBackup
CONSTANT RowCounts = {3, 20}
CONSTANT FeatureRows <- TwoRows
CONSTANT Probabilities <- TwoProbabilities
CONSTANT MaxJobs = 2
CONSTANT MaxBars = 2
CONSTANT MaxRequests = 1
INVARIANT SplitsDoNotLeak
INVARIANT CompletedRunIsDurable
INVARIANT BackupIsSelfContained
INVARIANT ProductionIsChecked
INVARIANT SignalIsExplained
PROPERTY JobsEnd
