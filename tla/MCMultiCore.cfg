CONSTANTS
  t1 = t1
  t2 = t2
  t3 = t3
  t4 = t4
  t5 = t5
  Tasks <- MCTasks
  NoTask = NoTask
  NumCores = 2
  DefaultSlice = 1
  Slices = {2}
  Arrivals = {0, 1}
  Executions = {1, 3}
  StopTimes = {6}
  Eps = 1
  Balancers = {"RoundRobin", "LeastLoaded"}
  StealingModes = {TRUE, FALSE}
SYMMETRY TaskSymmetry
SPECIFICATION Spec
INVARIANTS
  TypeOK
  OnePlace
  OwnQueueServed
  NoIdleBesideLongQueue
  WaitAccounting
  SliceEventPending
PROPERTIES
  MigrationOnlyBySteal
  ImplementsPool
