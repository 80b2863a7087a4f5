SPECIFICATION Spec
CONSTANTS
  NumCands = 3
  BatchSize = 2
  XrayConcurrency = 2
  BatchConcurrency = 1
  Ports <- MCPorts
  p1 = p1
  p2 = p2
  p3 = p3
INVARIANTS
  NoStrayProcess
  EntriesExact
PROPERTIES
  MisroutedOnlyByConcurrentBatch
  StageReturns
CHECK_DEADLOCK FALSE
