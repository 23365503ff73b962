CONSTANTS
  Thread = {t1, t2}
  Entry = {root, e1, e2}
  Node = {n0, n1, n2}
  RootEntry = root
  RootNode = n0
  None = None
  Name = {"d", "f", ".."}
  LEAKS = 1
  Path <- MCPath
SPECIFICATION Spec
PROPERTY CachedUnderMux
CHECK_DEADLOCK FALSE
SYMMETRY Symmetry
