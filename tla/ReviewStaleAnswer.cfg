SPECIFICATION Spec
CONSTANTS
  Games <- TwoGames
  Depths <- DeepAndShallow
  MaxNotifiers = 2
  MaxTasks = 2
  MaxScreens = 1
  PromptFrames = TRUE
  SlowEngine = FALSE
INVARIANTS AnswerIsForPosition
