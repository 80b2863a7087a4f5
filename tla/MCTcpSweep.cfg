SPECIFICATION Spec
CONSTANTS
  NumHosts = 3
  NumPorts = 2
  Concurrency = 2
  OutCap = 1
  Percent = 3
INVARIANTS
  QuietWhenClosed
  SurvivorsExact
  ProgressReachesTotal
PROPERTIES
  SweepEnds
CHECK_DEADLOCK FALSE
