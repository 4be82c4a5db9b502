CONSTANTS
  t1 = t1
  t2 = t2
  t3 = t3
  t4 = t4
  Tasks = {t1, t2}
  NoTask = NoTask
  NumCores = 1
  DefaultSlice = 1
  Slices = {2, 4, 8}
  Arrivals = {0, 5}
  Executions = {1, 10}
  StopTimes = {30}
  Eps = 0
  NumLevels = 3
  Quantum <- MCQuantum
  Allotment <- MCAllotment
  BoostInterval = 16
  PolicyInits <- MlfqInits
  Ready <- MlfqReady
  Added <- MlfqAdded
  CpuUsed <- MlfqCpuUsed
  Decided <- MlfqDecided
  Removed <- MlfqRemoved
  Preempts <- MlfqPreempts
SPECIFICATION PolicySpec
PROPERTIES
  StaleEventsFiltered
