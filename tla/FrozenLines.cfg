CONSTANTS
  Lines <- MCLines
  Matches <- MCMatches
  MaxLines = 3
  NotFrozen = NotFrozen
SPECIFICATION Spec
INVARIANTS
  GreedyIsTheLoop
  Settled
  ExcessReported
PROPERTY
  OnlyTightens
