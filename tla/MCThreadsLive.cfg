CONSTANTS
  Thread = {t1, t2, t3}
  bootstrap = bootstrap
  NoThread = NoThread
  HZ = 10
  MaxPid = 3
SPECIFICATION FairSpec
PROPERTIES ReadyRuns WaitReturns DeadIsReaped
