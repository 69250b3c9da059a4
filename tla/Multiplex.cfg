SPECIFICATION MultiplexSpec
CONSTANTS
  numFreeGPC = 3
  MaxEvents = 7
  Timeline = FALSE
  MaxRound = 9
INVARIANTS FairShare GroupsCountTogether TrueCounts
