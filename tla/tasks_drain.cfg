SPECIFICATION FairSpec
CONSTANTS
  t1 = t1
  t2 = t2
  t3 = t3
  w1 = w1
  w2 = w2
  c1 = c1
  Task = {t1, t2, t3}
  Worker = {w1, w2}
  Canceller = {}
  MaxQueue = 1
  RetryLimits <- OneRetry
  Malformed = Malformed
  None = None
  MaxLogFaults = 0
  MayShutdown = FALSE
PROPERTY Progress
