SPECIFICATION Spec
CONSTANTS
  t1 = t1
  t2 = t2
  t3 = t3
  w1 = w1
  w2 = w2
  c1 = c1
  Task = {t1, t2}
  Worker = {w1, w2}
  Canceller = {c1}
  MaxQueue = 1
  RetryLimits <- SmallRetries
  Malformed = Malformed
  None = None
  MaxLogFaults = 0
  MayShutdown = FALSE
INVARIANTS TypeOK OneOwner AttemptBudget CancelBeforeStart QueueBalance
SYMMETRY Symmetry
