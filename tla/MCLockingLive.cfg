CONSTANTS
  Thread = {t1, t2, t3}
  bootstrap = bootstrap
  Monitor = {m1}
  NoMonitor = NoMonitor
  HZ = 10
SPECIFICATION FairSpec
PROPERTIES LockProgress NotifiedWakes
