CONSTANTS
  MM = {m1, m2, m3}
  Addr = {0, 1, 2}
  Page = {zero, p1, p2}
  ZeroPage = zero
  Value = {2}
  MmapWrite = {TRUE, FALSE}
  STALE = 10
  None = None
  Program <- MCProgram
  StackPage = 1
SPECIFICATION MCSpec
SYMMETRY Symmetry
INVARIANT MunmapAligned
CHECK_DEADLOCK FALSE
