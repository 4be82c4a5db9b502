CONSTANTS
  a = a
  b = b
  Keys <- MCKeys
  Priorities <- MCPriorities
  Traces <- MCTraces
  Windows = {0, 4}
  Limits = {0, 1}
  NsPerUs = 2
SPECIFICATION Spec
INVARIANTS
  TypeOK
  ExtractionExact
  OutputIsWorkload
  PriorityRespected
