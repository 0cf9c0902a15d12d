\* The endgame tables.
CONSTANTS
  Stored = {"w1", "w2", "w3", "w4", "w5", "w6"}
  Other = {"b1", "b2", "b3", "b4", "b5", "b6"}
  Rule50 = 10
  Games <- MCGames
  Books <- MCBooks
  Messages <- MCMessages
  Half = 4
  BlockWords = 3
  Spans = {2, 4}
  Trailer = 4
  King = 6
  Encodings <- MCEncodings
  SomeSquares = {0, 9, 30, 49}
  MoreSquares = {0, 9, 14, 30, 49}
  PawnCounts = {1, 2}
  t1 = t1
  t2 = t2
  k1 = k1
  k2 = k2
  TTThreads = {t1, t2}
  Keys = {k1, k2}
  NoKey = NoKey
  Key16 <- MCKey16
  ClusterSize = 2
  Generations = 2
  Works <- MCWorks
  MaxSearches = 2
  MaxSaves = 2
SPECIFICATION Spec
INVARIANTS PositionsNumbered PairsRight ProbesRight HashRight
CHECK_DEADLOCK FALSE
