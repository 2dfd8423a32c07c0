CONSTANTS
  Size = 4
  MaxEdges = 12
  Graphs <- AllGraphs
  Limits = {2, 20}
SPECIFICATION Spec
CHECK_DEADLOCK FALSE
INVARIANTS
  CyclesAreReal
  BlockedIsHopeless
  LimitExact
  FinderFindsComponents
PROPERTY
  Terminates
