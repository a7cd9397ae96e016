SPECIFICATION PartSpec
CONSTANTS
  NClusters = 6
  ClusterSize = 2
  DirSlots = 3
  RootEntries = 3
  MaxFaults = 1
  MaxRuns <- MCMaxRuns
  Options <- MCOptionsByFaults
  Progs = {"check"}
  MaxEntries = 4
  MaxSlot = 2
  Sums = {1, 2}
  DevSize = 4
  MaxWrites = 3
CHECK_DEADLOCK FALSE
INVARIANT VerifyClean
