SPECIFICATION Spec
CONSTANTS
  net4 = net4
  net6 = net6
  loopback = loopback
  junk = junk
  Usable = {net4, net6}
  Special = {loopback}
  Junk = {junk}
  Bodies <- MCBodies
  Down = down
  Unasked = unasked
  NoFile = nofile
INVARIANTS TypeOK FirstAnswerWins FeedsFailIndependently
PROPERTIES FailureKeepsFile
