SPECIFICATION Spec
CONSTANTS
  numCores = 2
  dsu_sizeCluster = 2
  dsu_numGPC = 1
  numFreeGPC = 2
  dmc_num = 1
  DMC_CLKDIV2_NUMGPC = 1
  DMC_CLK_NUMGPC = 1
  DMC_CLKDIV2_EVT_NUM = 2
  MaxUnits = 1
  MaxRounds = 2
  MaxClients = 2
  Requests <- MCRequests
INVARIANTS Conserved StartedCounts
CHECK_DEADLOCK FALSE
