CONSTANTS
  t1 = t1
  t2 = t2
  t3 = t3
  Tasks <- MCTasks
  NoTask = NoTask
  NumCores = 2
  DefaultSlice = 1
  Slices = {0, 3}
  Arrivals = {0, 1}
  Executions = {1, 3}
  StopTimes = {3, 12}
  Eps = 1
SPECIFICATION Spec
INVARIANTS
  TypeOK
  OnePlace
  WorkConserving
  WaitAccounting
  SliceEventPending
  ClockEndsAtLastCompletion
  SwitchesAccountedFor
PROPERTIES
  ImplementsPool
  AllTasksComplete
