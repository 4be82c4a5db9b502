CONSTANTS
  t1 = t1
  t2 = t2
  t3 = t3
  t4 = t4
  Tasks <- MCTasks
  NoTask = NoTask
  NumCores = 1
  DefaultSlice = 1
  Slices = {2, 4, 8}
  Arrivals = {0, 3, 13}
  Executions = {3, 13, 30}
  StopTimes = {70}
  Eps = 0
  NumLevels = 3
  Quantum <- MCQuantum
  Allotment <- MCAllotment
  BoostInterval = 16
  PolicyInits <- MlfqInits
  Ready <- MlfqReady
  Added <- MlfqAdded
  CpuUsed <- MlfqCpuUsed
  Decided <- MlfqDecided
  Removed <- MlfqRemoved
  Preempts <- MlfqPreempts
SYMMETRY TaskSymmetry
SPECIFICATION PolicySpec
INVARIANTS
  SchedulerContract
  LevelsConsistent
  HigherPriorityRuns
  StarvationBounded
