CONSTANTS
  Thread = {w, c1, c2, c3}
  worker = w
  bootstrap = bootstrap
  Bio = {b1, b2}
  queue = queue
  Monitor = {b1, b2, queue}
  NoMonitor = NoMonitor
  Whole = {TRUE, FALSE}
  HZ = 10
SPECIFICATION Spec
SYMMETRY Symmetry
INVARIANTS NoUseAfterFree ServedOnce StatusRead WaitHeadLive WorkerNotified
