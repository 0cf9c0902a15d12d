SPECIFICATION FairSpec
CONSTANTS
  Games <- AllGames
  Depths <- DeepAndShallow
  MaxNotifiers = 1
  MaxTasks = 3
  MaxScreens = 1
  PromptFrames = TRUE
  SlowEngine = FALSE
INVARIANTS TypeOK DoneMeansComplete IndicatorsTrue OneRequestAtATime
PROPERTIES KeepsPromise
