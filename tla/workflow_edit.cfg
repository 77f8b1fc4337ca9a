SPECIFICATION Spec
CONSTANTS
  m = m
  c = c
  d = d
  x = x
  v = v
  Label = {m}
  Class = {c, d}
  Key = {x}
  Value = {v}
  Absent = Absent
  Required <- MCRequired
  Base <- MCBase
  MaxId = 5
  MaxOps = 3
INVARIANTS CarefulEditsKeepSources NextIdIsFree ReadyKeepsTheGraph OverEditNeedsRemoval
CHECK_DEADLOCK FALSE
