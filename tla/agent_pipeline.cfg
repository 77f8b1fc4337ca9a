SPECIFICATION Spec
CONSTANTS
  None = None
  Text = Text
  NaN = NaN
  Workflows <- MCWorkflows
  Supplied <- MCSupplied
  Policies <- MCPolicies
  Requests <- MCRequests
INVARIANTS ReasonedOpsWereAccepted ReadyValuesInRange NothingAcceptedByDefault OnlyRangeBlocksAnAcceptedOp UsablePlanIsTaken ObservedStepsFollowTheGoal
CHECK_DEADLOCK FALSE
