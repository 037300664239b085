SPECIFICATION Spec
CONSTANTS
  Server <- MCServer
  List <- MCList
  Dist <- MCDist
  NearestNum = 3
  Times <- MCTimes
  Argvs <- MCArgvs
INVARIANTS TypeOK NearestRight LowestWhenFirstHas TestsLimited
CHECK_DEADLOCK FALSE
