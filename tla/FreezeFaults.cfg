CONSTANTS
  a1 = a1
  a2 = a2
  b = b
  r1 = r1
  r2 = r2
  f1 = f1
  f2 = f2
  f3 = f3
  f4 = f4
  p1 = p1
  p2 = p2
  t1 = t1
  t2 = t2
  z1 = z1
  z2 = z2
  NoFile = NoFile
  NoThread = NoThread
  NoFrozen = NoFrozen
  Missing = Missing
  Lines <- MCLines
  Matches <- MCMatches
  Rules = {r1, r2}
  Threads = {t1, t2}
  Frozen = {z1, z2}
  Files = {f1, f2, f3, f4}
  Procs = {p1}
  ProcOf <- OneProcess
  HomeOf <- BothInP1
  RuleOf <- RulePerObject
  Reports <- FewReports
  Configs <- AllConfigs
  IndexExists = FALSE
  MaxCrashes = 1
  MaxFaults = 1
SPECIFICATION Spec
SYMMETRY FaultSymmetry
INVARIANTS
  TypeOK
  FilesNotShared
  DiskNeverAhead
  PassedIsCovered
