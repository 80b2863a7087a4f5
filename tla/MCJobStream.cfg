SPECIFICATION Spec
CONSTANTS
  s1 = s1
  s2 = s2
  Streams <- TwoStreams
  MaxBody = 1
INVARIANTS
  EndedStreamSawResult
PROPERTIES
  IsAFeed
  WakeupsOutsideWindow
CHECK_DEADLOCK FALSE
