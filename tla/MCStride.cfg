CONSTANTS
  Tasks <- MCTasks
  NoTask = NoTask
  NumCores = 1
  DefaultSlice = 1
  Slices = {5}
  Arrivals = {0, 7, 20}
  Executions = {4, 17, 40}
  StopTimes = {80}
  Eps = 0
  QuantumLength = 5
  StrideConstant = 10000
  Nice0Load = 1024
  Weights = {335, 1024}
  PolicyInits <- StrideInits
  Ready <- StrideReady
  Added <- StrideAdded
  CpuUsed <- StrideCpuUsed
  Decided <- StrideDecided
  Removed <- StrideRemoved
  Preempts <- StridePreempts
SPECIFICATION PolicySpec
INVARIANTS
  SchedulerContract
  NoneBehind
