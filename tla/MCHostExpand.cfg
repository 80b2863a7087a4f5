SPECIFICATION ExpandSpec
CONSTANTS
  W4 = 4
  W6 = 4
  SubBits = 2
  maxAutoPool = 6
  DefaultV6HostsPerCIDR = 2
  Invalid = invalid
  Inputs <- MCInputs
INVARIANTS ExpandTypeOK FullPoolOnce BudgetsKept EverySubnetSampled
CHECK_DEADLOCK FALSE
