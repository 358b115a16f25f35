\* Threads of every small graph, with limits that the larger ones exceed.
SPECIFICATION Spec
CONSTANTS
  N = 6
  Graphs <- ForestsAndDamaged
  MaxDepth = 3
  MaxNodes = 5
  MaxEdges = 6
INVARIANTS NoUnderflow ThreadIsExact RootsAgree
CHECK_DEADLOCK FALSE
