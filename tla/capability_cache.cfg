SPECIFICATION Spec
CONSTANTS
  a = a
  b = b
  Handler = {h1, h2}
  Path = {a, b}
  small = small
  large = large
  Nodes <- MCNodes
  Workflow = {small, large}
  Pieces <- MCPieces
  None = None
  MaxEdits = 1
  MaxFaults = 1
  MaxRestarts = 1
INVARIANTS AnswersFitTheWorkflow BrokenIsExplained AnswersGrow
SYMMETRY SameHandlers
CHECK_DEADLOCK FALSE
