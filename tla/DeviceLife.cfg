SPECIFICATION FairSpec
CONSTANTS
  numCores = 2
  Files = {f1, f2}
  Width = 65536
INVARIANTS TornDownInOrder
PROPERTIES RemovalAnswered RemovalEnds
CHECK_DEADLOCK FALSE
