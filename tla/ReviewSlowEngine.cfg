SPECIFICATION FairSpec
CONSTANTS
  Games <- SmallGames
  Depths <- DefaultDepth
  MaxNotifiers = 1
  MaxTasks = 2
  MaxScreens = 1
  PromptFrames = TRUE
  SlowEngine = TRUE
INVARIANTS DoneMeansComplete
PROPERTIES EveryRunEnds
