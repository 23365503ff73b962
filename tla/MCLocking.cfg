CONSTANTS
  Thread = {t1, t2, t3, t4}
  bootstrap = bootstrap
  Monitor = {m1, m2}
  NoMonitor = NoMonitor
  HZ = 10
SPECIFICATION Spec
SYMMETRY Symmetry
INVARIANTS RunQueueExact MutualExclusion NoLostWakeup BlockedIsQueued WaitHeadLive
PROPERTIES ImplementsMonitor
