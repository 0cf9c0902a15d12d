CONSTANTS
 PickSetups <- MCPickSetups
 PickDepth = 1
 RootThreads = {"t0", "t1"}
 RootSetups <- MCRootSetups
 LastDepth = 3
 Inf = 10
 Decisive = 7
 NodeSetups <- MCNodeSetups
 NodeInf = 6
 NodeMate = 5
 NodeWin = 2
 LineSetups <- MCLineSetups
SPECIFICATION Spec
INVARIANTS PicksRight LinesRight ValuesProven AccumulatorsRight
PROPERTIES RootPromises
CHECK_DEADLOCK FALSE
