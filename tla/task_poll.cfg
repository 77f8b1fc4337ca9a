SPECIFICATION FairSpec
CONSTANTS
  Client = {c}
  None = None
  MaxFaults = 1
  MaxRestarts = 1
INVARIANTS RecordIsWhole VerdictStands
PROPERTIES TornOnlyWhileWriting LearnsTheEnd ImplementsLifecycle
CHECK_DEADLOCK FALSE
