CONSTANTS
  Thread = {t1, t2, t3}
  bootstrap = bootstrap
  NoThread = NoThread
  HZ = 100
  MaxPid = 4
SPECIFICATION Spec
SYMMETRY Symmetry
INVARIANTS RunQueueExact NoUseAfterFree RefcountExact AssertsHold Preemptible
CHECK_DEADLOCK TRUE
