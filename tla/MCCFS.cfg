CONSTANTS
  Tasks <- MCTasks
  NoTask = NoTask
  NumCores = 1
  DefaultSlice = 1
  Slices <- MCSlices
  Arrivals = {0, 500, 4000}
  Executions = {600, 2400, 5000}
  StopTimes = {9000}
  Eps = 0
  SchedLatency = 1680
  MinGranularity = 600
  WakeupGranularity = 280
  Nice0Load = 3
  Weights = {1, 3}
  PolicyInits <- CfsInits
  Ready <- CfsReady
  Added <- CfsAdded
  CpuUsed <- CfsCpuUsed
  Decided <- CfsDecided
  Removed <- CfsRemoved
  Preempts <- CfsPreempts
SPECIFICATION PolicySpec
INVARIANTS
  SchedulerContract
  CreditBounded
  FairShare
