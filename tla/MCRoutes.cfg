SPECIFICATION Spec
CONSTANTS
  NumEdges = 7
  NumNodes = 6
  Tables <- SomeTables
  Requests <- SomeRequests
  Pools <- SomePools
  Demand <- Demands
  T0 = 3
  Obj0Alloc = FALSE
  Obj1Max = FALSE
CHECK_DEADLOCK FALSE
INVARIANTS
  SearchesEnd
  SearchIsShortest
  DecodesToTrees
  ViolationIsCurrent
  SharesAreMaxMin
  FollowsScoredPath
