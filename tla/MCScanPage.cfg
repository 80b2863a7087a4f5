SPECIFICATION PageSpec
CONSTANTS
  r1 = r1
  r2 = r2
  t1 = t1
  t2 = t2
  p1 = p1
  p2 = p2
  NoReq = NoReq
  Reqs <- MCReqs
  Stops <- MCStops
  Pages <- MCPages
  Hour = 1
  MaxClock = 2
INVARIANTS
  OneScanAtATime
  CancelledByItsStop
  
  PageFollowsItsScan
  StopsReachTheScanShown
PROPERTIES
  ScansEnd
CHECK_DEADLOCK FALSE
