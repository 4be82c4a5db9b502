CONSTANTS
  Documents <- MCDocuments
  LowerCase <- MCLowerCase
  WorkloadCli <- MCWorkloadCli
  SchedulerCli <- MCSchedulerCli
  RecursionLimit = 4
SPECIFICATION Spec
INVARIANTS
  PlanCoversRuns
  ResolvesIffAcyclic
  AttributionAgrees
