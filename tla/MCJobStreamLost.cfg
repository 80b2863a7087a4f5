SPECIFICATION Spec
CONSTANTS
  s1 = s1
  s2 = s2
  Streams <- OneStream
  MaxBody = 1
PROPERTIES
  EveryStreamEnds
CHECK_DEADLOCK FALSE
