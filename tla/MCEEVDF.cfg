CONSTANTS
  Tasks <- MCTasks
  NoTask = NoTask
  NumCores = 1
  DefaultSlice = 1
  Slices <- MCSlices
  Arrivals = {0, 300, 1800}
  Executions = {300, 3000}
  StopTimes = {7500}
  Eps = 0
  BaseSlice = 360
  MinSlice = 240
  Nice0Load = 2
  Weights = {1, 2, 4}
  PolicyInits <- EevdfInits
  Ready <- EevdfReady
  Added <- EevdfAdded
  CpuUsed <- EevdfCpuUsed
  Decided <- EevdfDecided
  Removed <- EevdfRemoved
  Preempts <- EevdfPreempts
SPECIFICATION PolicySpec
INVARIANTS
  SchedulerContract
  LatencyGuaranteed
