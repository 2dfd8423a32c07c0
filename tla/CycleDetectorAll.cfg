CONSTANTS
  Size = 5
  MaxEdges = 5
  Graphs <- SparseGraphs
  Limits = {20}
SPECIFICATION Spec
CHECK_DEADLOCK FALSE
INVARIANT
  FindsAllCycles
