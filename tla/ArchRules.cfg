CONSTANTS
  o1 = o1
  o2 = o2
  None = None
  Items <- MCItems
  Nesting = 7
  Objects <- MCObjects
  Conditions <- MCConditions
  Leaves <- MCLeaves
  LeafKind <- MCLeafKind
  Attributes <- MCAttributes
  Satisfying <- MCSatisfying
  MostElements = 1
  Predicates <- MCPredicates
  PatternSets <- MCPatternSets
  FilterSets <- MCFilterSets
  MaxWords = 3
  MaxRules = 2
SPECIFICATION Spec
CHECK_DEADLOCK FALSE
INVARIANTS
  VerdictIsTheSentence
  ReportMatchesVerdict
  HandledIsReported
  DoubleNegation
