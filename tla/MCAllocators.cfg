CONSTANTS
  BUDDY_ORDERS = 3
  LOWMEM = 4
  AllArea <- MCAllArea
  FreeArea <- MCFreeArea
  Initrd <- MCInitrd
  Caller = {c1, c2}
  NoWalk = NoWalk
  MaxAddr = 7
  MaxCalls = 4
  KMAP_PAGES = 5
  KMAP_ORDERS = 2
  Frame = {f1, f2}
  Page = {1, 2, 3, 4, 5}
  Total <- MCTotal
  PT_SIZE = 2
  PT_MAX_LEVEL = 3
  Window <- MCWindow
  MemPages = 8
SPECIFICATION MCSpec
SYMMETRY Symmetry
INVARIANTS BuddyExact BallocExact  SlabsExact TablesExact SlotsCover
CHECK_DEADLOCK FALSE
