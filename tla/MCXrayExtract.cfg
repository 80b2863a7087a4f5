SPECIFICATION ExtractSpec
CONSTANTS
  a = a
  b = b
  c = c
  n1 = n1
  n2 = n2
  n3 = n3
  n4 = n4
  NoNode = NoNode
  Procs <- MCProcs
  Nodes <- MCNodes
  Size = 2
SYMMETRY Symmetry
INVARIANTS
  LoneExtractionIsSafe
  OverlapSettles
