\* The shared memory of the engine.
CONSTANTS
  i1 = i1
  i2 = i2
  p1 = p1
  p2 = p2
  t1 = t1
  t2 = t2
  Instances = {i1, i2}
  Processes = {p1, p2}
  ProcessOf <- MCProcessOf
  Regions = {1, 2, 3}
  NoRegion = NoRegion
  MaxOpens = 3
  MaxCrashes = 1
  MaxFaults = 1
  Cpus = {0, 1, 2, 3, 4, 5}
  MaxThreads = 4
  GroupSize = 2
  MaxDomains = 4
  Configs <- MCConfigs
  Policies = {"none", "auto", "system"}
  MaxNumaOps = 4
  TBThreads = {t1, t2}
  TBKeys = {"a", "a2", "b", "b2", "c", "d"}
  Home <- MCHome
  Size = 4
  Tables <- MCTables
  Files <- MCFiles
  NoTable = NoTable
  MaxInits = 1
  MaxProbes = 3
  HistThreads = 2
  HistTables <- MCHistTables
  Limit <- MCLimit
  Fill <- MCFill
  Bonuses <- MCBonuses
  SizeMultiplier = 1
  MaxUpdates = 1
SPECIFICATION Spec
INVARIANTS RegionsSafe ConfigRight CopiesRight TablesFound HistoryInRange
PROPERTIES EveryCallEnds
CHECK_DEADLOCK FALSE
