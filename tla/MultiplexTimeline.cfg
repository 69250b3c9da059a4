SPECIFICATION MultiplexSpec
CONSTANTS
  numFreeGPC = 3
  MaxEvents = 4
  Timeline = TRUE
  MaxRound = 9
INVARIANT TrueCounts
