SPECIFICATION FairSpec
CONSTANTS
  t1 = t1
  t2 = t2
  t3 = t3
  w1 = w1
  w2 = w2
  c1 = c1
  Task = {t1, t2}
  Worker = {w1}
  Canceller = {c1}
  MaxQueue = 0
  RetryLimits <- EdgeRetries
  Malformed = Malformed
  None = None
  MaxLogFaults = 2
  MayShutdown = TRUE
INVARIANTS NoTaskLost FaultsArePaid ResultIsOwn ResultOrError MetricsAgree
PROPERTIES StopExits ImplementsLifecycle
CHECK_DEADLOCK FALSE
