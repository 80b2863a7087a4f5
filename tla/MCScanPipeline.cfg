SPECIFICATION Spec
CONSTANTS
  cdn1 = cdn1
  cdn2 = cdn2
  mine = mine
  h1 = h1
  h2 = h2
  Targets = {cdn1, cdn2, mine}
  Builtins = {cdn1, cdn2}
  Hosts = {h1, h2}
  Usable = {h1}
  Lists <- MCLists
  NoFile = nofile
  CutShort = cutshort
  Queues <- MCQueues
INVARIANTS TypeOK SummaryIsSaved EveryTargetAccounted OldResultsKept
