CONSTANTS
  t1 = t1
  t2 = t2
  m1 = m1
  m2 = m2
  m3 = m3
  k = k
  empty = empty
  no = no
  fromFile = fromFile
  other = other
  c1 = c1
  c2 = c2
  c3 = c3
  None = None
  NoThread = NoThread
  Threads = {t1, t2}
  Properties = {empty}
  Values = {no}
  FileProperties <- MCSettings
  Environment <- MCSettings
  FilePatterns = fromFile
  OtherPatterns = {other}
  Modules = {m1, m2, m3}
  Keys = {k}
  KeyOf <- MCKeyOf
  Provided = {m1, m3}
  PerClass = {m3}
  Cases <- MCCases
  Ignored = {c2}
  FailOnEmpty = empty
  MaxTests = 1
  MaxUpdates = 3
  MaxScopes = 2
  MaxEvaluations = 1
  MaxFailures = 1
  MaxClears = 1
SPECIFICATION Spec
SYMMETRY TestSymmetry
CHECK_DEADLOCK FALSE
INVARIANTS
  ScopesNest
  ScopedEvaluationIsOne
  OneSnapshotPerModule
  ImportsAreWhoseTheyWere
  WaitingIsForAnImport
PROPERTIES
  ScopesArePrivate
  LoadingKeepsPatterns
