CONSTANTS
  Thread = {w, c1, c2}
  worker = w
  bootstrap = bootstrap
  Bio = {b1, b2}
  queue = queue
  Monitor = {b1, b2, queue}
  NoMonitor = NoMonitor
  Whole = {TRUE}
  HZ = 10
SPECIFICATION FairSpec
PROPERTIES RequestAnswered
