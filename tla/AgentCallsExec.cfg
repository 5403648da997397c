SPECIFICATION Spec
CHECK_DEADLOCK FALSE
CONSTANTS
  Callers = {c1, c2}
  MaxCalls = 2
  Cap = 1
  Backlog = 1
  Budgets = {0, 2}
  MaxBudget = 2
  Rpc = 1
  Amounts = {0, 1, 2}
  Chunk = 2
  Mishaps = {}
  None = None

INVARIANT ReturnsWhenOver
