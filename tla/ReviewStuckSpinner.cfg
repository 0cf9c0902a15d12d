SPECIFICATION Spec
CONSTANTS
  Games <- SmallGames
  Depths = {}
  MaxNotifiers = 1
  MaxTasks = 3
  MaxScreens = 2
  PromptFrames = FALSE
  SlowEngine = FALSE
INVARIANTS SpinnerMeansWork
CHECK_DEADLOCK FALSE
