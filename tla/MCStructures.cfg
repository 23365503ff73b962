CONSTANTS
  None = None
  NoPage = NoPage
  Data <- MCData
  Irq = {i0, i1, i8}
  Master = {i0, i1}
  Handler = {h}
  TreeKey = {1, 2, 3, 4, 5, 6, 7, 8, 9}
  File = {f1, f2}
  PAGE_SIZE = 2
  LENGTH = 5
  Key = {1, 2, 3, 4}
  Value = {x, y}
  Blank = x
  cache_threshold = 2
  LINKS = 1
  LeafKey = {1, 2, 3}
  Size = {0, 1, 2}
  block_size = 14
  LEAF_HEADER = 1
  VALUE = 2
  COUNT = 3
  MEMBERS = 2
  CPIO_HEADER = 2
SPECIFICATION MCSpec
SYMMETRY Symmetry
INVARIANTS RedBlack IterationExact FileIsBytes NothingLost LeafExact Extracted InterruptsExact
CHECK_DEADLOCK FALSE
