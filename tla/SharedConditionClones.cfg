CONSTANTS
  t1 = t1
  t2 = t2
  c1 = c1
  x = x
  y = y
  z = z
  NoCondition = NoCondition
  Threads = {t1, t2}
  Conditions = {c1}
  Components = {x, y, z}
  Graphs <- CyclicGraph
  Inputs <- MCInputs
SPECIFICATION Spec
INVARIANT
  InitBeforeChecks
