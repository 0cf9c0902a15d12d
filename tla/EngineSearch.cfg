SPECIFICATION Spec
CONSTANTS
  MaxThreads = 2
  MaxPly = 3
  LimitSet <- MCLimitSet
  MaxGo = 2
  MaxOther = 2
INVARIANTS WakeupsArrive LifetimesKept
PROPERTIES SearchesEnd KeepsUciPromise
