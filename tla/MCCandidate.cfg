SPECIFICATION CandidateSpec
CONSTANTS
  NumCPU = 12
  Frontend = "browser"
  Given <- MCGiven
  Latency <- MCLatency
  Links <- MCLinks
  Edge = "edge"
  Port = 443
INVARIANTS
  ProbeTypeOK
  VerdictIsKofN
  AcceptedIsFast
  HandedOutAsProbed
CHECK_DEADLOCK FALSE
