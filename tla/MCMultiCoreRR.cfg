CONSTANTS
  t1 = t1
  t2 = t2
  t3 = t3
  t4 = t4
  t5 = t5
  Tasks <- MCTasks
  NoTask = NoTask
  NumCores = 2
  DefaultSlice = 1
  Slices = {4}
  Arrivals = {0, 3}
  Executions = {1, 4}
  StopTimes = {12}
  Eps = 0
  Balancers = {"RoundRobin"}
  StealingModes = {TRUE}
SYMMETRY TaskSymmetry
SPECIFICATION Spec
INVARIANTS
  IdleCoresSteal
