SPECIFICATION Spec
CONSTANTS
  NumCands = 2
  BatchSize = 1
  XrayConcurrency = 2
  BatchConcurrency = 1
  Ports <- TwoPorts
  p1 = p1
  p2 = p2
  p3 = p3
INVARIANTS
  AcceptedOverOwnOutbound
CHECK_DEADLOCK FALSE
