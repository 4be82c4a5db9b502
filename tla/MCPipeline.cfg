CONSTANTS
  Plans <- MCPlans
  RunOrder <- MCRunOrder
  Result <- MCResult
  Cuts <- MCCuts
  TaskCuts <- MCTaskCuts
  MaxGen = 2
  MaxFaults = 2
  None = None
SPECIFICATION Spec
INVARIANTS
  ReportsCurrentRun
  ManifestDescribesMetrics
  QualityFlagged
  SharesBalance
  FiguresAgree
