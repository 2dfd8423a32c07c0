CONSTANTS
  Lines <- MCLines
  Matches <- MCMatches
  MaxLines = 3
  NotFrozen = NotFrozen
SPECIFICATION Spec
INVARIANT
  IncreaseReported
